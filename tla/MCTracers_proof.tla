-------------------------- MODULE MCTracers_proof --------------------------
(***************************************************************************)
(* Proofs about the tracing libraries.                                     *)
(*                                                                         *)
(* What the program holds is in the leak report, and the report is exact,  *)
(* in every interleaving of the wrappers of any number of threads: for     *)
(* reference counted objects (GObjectTracer), heap addresses (HeapTracer), *)
(* and descriptors and streams (FileTracer).  At the end: what the calls   *)
(* of backtrace() meet on their way through the libraries (Interposer).    *)
(***************************************************************************)
EXTENDS MCTracers, Induction, FiniteSetTheorems, SequenceTheorems, TLAPS

(***************************************************************************)
(* Reference counted objects.                                              *)
(*                                                                         *)
(* Takers are the threads that have got a reference they have not written  *)
(* yet, droppers those that have given one up.                             *)
(***************************************************************************)
GA(o) == G!Alloc("gobject", o)
GF(o) == G!Free("gobject", o)

Takers(o)   == {t \in GThreads : todo[t] = <<GA(o)>>}
Droppers(o) == {t \in GThreads : todo[t] \in {<<GF(o)>>, <<GF(o), GF(o)>>}}

Wrappers ==
    \A t \in GThreads :
        \/ todo[t] = <<>>
        \/ \E o \in Objects : todo[t] \in {<<GA(o)>>, <<GF(o)>>, <<GF(o), GF(o)>>}

(***************************************************************************)
(* What holds for one object: each reference of the instance is the        *)
(* program's or still being taken; the filter counts the program's and     *)
(* those whose release is not written.  Once the instance is finalized the *)
(* count can only be too low, since its release may be written twice.      *)
(***************************************************************************)
Counted(o) ==
    /\ ref[o] \in Nat /\ held[o] \in Nat
    /\ held[o] + Cardinality(Takers(o)) = ref[o]
    /\ filter[G!Key(o)] \in [left : Nat, refs : Nat]
    /\ filter[G!Key(o)].left = IF filter[G!Key(o)].refs > 0 THEN 1 ELSE 0
    /\ o \notin raced =>
        /\ ref[o] > 0 => /\ filter[G!Key(o)].refs = held[o] + Cardinality(Droppers(o))
                         /\ \A t \in GThreads : todo[t] # <<GF(o), GF(o)>>
        /\ ref[o] = 0 => filter[G!Key(o)].refs <= Cardinality(Droppers(o))

ObjectsInv ==
    /\ DOMAIN ref = Objects /\ DOMAIN held = Objects
    /\ DOMAIN todo = GThreads
    /\ DOMAIN filter = {G!Key(o) : o \in Objects}
    /\ Wrappers
    /\ \A o \in Objects : Counted(o)

LEMMA CallsDiffer ==
    ASSUME NEW o, NEW b
    PROVE  /\ <<GA(o)>> # <<>> /\ <<GF(o)>> # <<>> /\ <<GF(o), GF(o)>> # <<>>
           /\ <<GA(o)>> # <<GF(b)>> /\ <<GA(o)>> # <<GF(b), GF(b)>>
           /\ <<GF(o)>> # <<GF(b), GF(b)>>
           /\ o # b => <<GA(o)>> # <<GA(b)>> /\ <<GF(o)>> # <<GF(b)>>
                         /\ <<GF(o), GF(o)>> # <<GF(b), GF(b)>>
  <1>1. GA(o) # GF(b) /\ (o # b => GA(o) # GA(b) /\ GF(o) # GF(b))
    BY DEF GA, GF, G!Alloc, G!Free
  <1> HIDE DEF GA, GF
  <1> QED
    BY <1>1

LEMMA KeysDiffer ==
    ASSUME NEW o, NEW b
    PROVE  G!Key(o) = G!Key(b) => o = b
  BY DEF G!Key

LEMMA SidesFinite ==
    ASSUME NEW o
    PROVE  /\ IsFiniteSet(Takers(o)) /\ Cardinality(Takers(o)) \in Nat
           /\ IsFiniteSet(Droppers(o)) /\ Cardinality(Droppers(o)) \in Nat
  <1>1. Takers(o) \subseteq GThreads /\ Droppers(o) \subseteq GThreads
    BY DEF Takers, Droppers
  <1> QED
    BY <1>1, ThreadsAssumption, FS_Subset, FS_CardinalityType

LEMMA ObjectsInit == G!Init => ObjectsInv
  <1> SUFFICES ASSUME G!Init
               PROVE  ObjectsInv
    OBVIOUS
  <1>1. \A t \in GThreads : todo[t] = <<>>
    BY DEF G!Init
  <1>2. ASSUME NEW o \in Objects
        PROVE  Counted(o)
    <2>1. Takers(o) = {} /\ Droppers(o) = {}
      BY <1>1, CallsDiffer DEF Takers, Droppers
    <2>2. Cardinality(Takers(o)) = 0 /\ Cardinality(Droppers(o)) = 0
      BY <2>1, FS_EmptySet
    <2>3. ref[o] = 0 /\ held[o] = 0 /\ filter[G!Key(o)] = [left |-> 0, refs |-> 0]
      BY DEF G!Init, G!NoCalls
    <2> QED
      BY <2>2, <2>3 DEF Counted
  <1> QED
    BY <1>1, <1>2 DEF ObjectsInv, Wrappers, G!Init

LEMMA CardinalitySteps ==
    ASSUME NEW S, IsFiniteSet(S), NEW t
    PROVE  /\ t \notin S => Cardinality(S \cup {t}) = Cardinality(S) + 1
           /\ t \in S => Cardinality(S \ {t}) = Cardinality(S) - 1 /\ Cardinality(S) >= 1
  <1>1. Cardinality(S) \in Nat
    BY FS_CardinalityType
  <1>2. ASSUME t \in S
        PROVE  Cardinality(S) # 0
    BY <1>2, FS_EmptySet
  <1>3. Cardinality(S \cup {t}) = IF t \in S THEN Cardinality(S) ELSE Cardinality(S) + 1
    BY FS_AddElement
  <1>4. Cardinality(S \ {t}) = IF t \in S THEN Cardinality(S) - 1 ELSE Cardinality(S)
    BY FS_RemoveElement
  <1> QED
    BY <1>1, <1>2, <1>3, <1>4

(***************************************************************************)
(* What a thread that starts a wrapper changes.                            *)
(***************************************************************************)
LEMMA SidesBegin ==
    ASSUME NEW t \in GThreads, NEW o, NEW p,
           DOMAIN todo = GThreads, todo[t] = <<>>, todo' = [todo EXCEPT ![t] = p],
           p \in {<<GA(o)>>, <<GF(o)>>, <<GF(o), GF(o)>>}
    PROVE  /\ \A b : b # o => Takers(b)' = Takers(b) /\ Droppers(b)' = Droppers(b)
           /\ p = <<GA(o)>> =>
                /\ Cardinality(Takers(o)') = Cardinality(Takers(o)) + 1
                /\ Droppers(o)' = Droppers(o)
           /\ p # <<GA(o)>> =>
                /\ Takers(o)' = Takers(o)
                /\ Cardinality(Droppers(o)') = Cardinality(Droppers(o)) + 1
  <1> HIDE DEF GA, GF
  <1>1. todo'[t] = p /\ \A u \in GThreads : u # t => todo'[u] = todo[u]
    OBVIOUS
  <1>2. \A b : t \notin Takers(b) /\ t \notin Droppers(b)
    BY CallsDiffer DEF Takers, Droppers
  <1>3. ASSUME NEW b, b # o
        PROVE  Takers(b)' = Takers(b) /\ Droppers(b)' = Droppers(b)
    BY <1>1, <1>2, <1>3, CallsDiffer DEF Takers, Droppers
  <1>4. ASSUME p = <<GA(o)>>
        PROVE  Takers(o)' = Takers(o) \cup {t} /\ Droppers(o)' = Droppers(o)
    BY <1>1, <1>2, <1>4, CallsDiffer DEF Takers, Droppers
  <1>5. ASSUME p # <<GA(o)>>
        PROVE  Takers(o)' = Takers(o) /\ Droppers(o)' = Droppers(o) \cup {t}
    BY <1>1, <1>2, <1>5, CallsDiffer DEF Takers, Droppers
  <1> QED
    BY <1>2, <1>3, <1>4, <1>5, SidesFinite, CardinalitySteps

(***************************************************************************)
(* What a thread that writes a call changes.                               *)
(***************************************************************************)
LEMMA SidesWrite ==
    ASSUME NEW t \in GThreads, NEW o,
           DOMAIN todo = GThreads,
           todo[t] \in {<<GA(o)>>, <<GF(o)>>, <<GF(o), GF(o)>>},
           todo' = [todo EXCEPT ![t] = Tail(todo[t])]
    PROVE  /\ \A b : b # o => Takers(b)' = Takers(b) /\ Droppers(b)' = Droppers(b)
           /\ todo[t] = <<GA(o)>> =>
                /\ Cardinality(Takers(o)') = Cardinality(Takers(o)) - 1
                /\ Cardinality(Takers(o)) >= 1
                /\ Droppers(o)' = Droppers(o)
                /\ todo'[t] = <<>>
           /\ todo[t] = <<GF(o)>> =>
                /\ Takers(o)' = Takers(o)
                /\ Cardinality(Droppers(o)') = Cardinality(Droppers(o)) - 1
                /\ Cardinality(Droppers(o)) >= 1
                /\ todo'[t] = <<>>
           /\ todo[t] = <<GF(o), GF(o)>> =>
                /\ Takers(o)' = Takers(o)
                /\ Droppers(o)' = Droppers(o)
                /\ Cardinality(Droppers(o)) >= 1
                /\ todo'[t] = <<GF(o)>>
  <1> HIDE DEF GA, GF
  <1>1. todo'[t] = Tail(todo[t]) /\ \A u \in GThreads : u # t => todo'[u] = todo[u]
    OBVIOUS
  <1>2. \A x : Tail(<<x>>) = <<>> /\ Tail(<<x, x>>) = <<x>>
    OBVIOUS
  <1>3. ASSUME NEW b, b # o
        PROVE  Takers(b)' = Takers(b) /\ Droppers(b)' = Droppers(b)
    <2>1. todo'[t] \in {<<>>, <<GF(o)>>}
      BY <1>1, <1>2
    <2>2. t \notin Takers(b) /\ t \notin Droppers(b)
      BY <1>3, CallsDiffer DEF Takers, Droppers
    <2>3. todo'[t] \notin {<<GA(b)>>, <<GF(b)>>, <<GF(b), GF(b)>>}
      BY <2>1, <1>3, CallsDiffer
    <2> QED
      BY <1>1, <2>2, <2>3 DEF Takers, Droppers
  <1>4. ASSUME todo[t] = <<GA(o)>>
        PROVE  /\ Takers(o)' = Takers(o) \ {t} /\ t \in Takers(o)
               /\ Droppers(o)' = Droppers(o)
    BY <1>1, <1>2, <1>4, CallsDiffer DEF Takers, Droppers
  <1>5. ASSUME todo[t] = <<GF(o)>>
        PROVE  /\ Takers(o)' = Takers(o)
               /\ Droppers(o)' = Droppers(o) \ {t} /\ t \in Droppers(o)
    BY <1>1, <1>2, <1>5, CallsDiffer DEF Takers, Droppers
  <1>6. ASSUME todo[t] = <<GF(o), GF(o)>>
        PROVE  /\ Takers(o)' = Takers(o)
               /\ Droppers(o)' = Droppers(o) /\ t \in Droppers(o)
    BY <1>1, <1>2, <1>6, CallsDiffer DEF Takers, Droppers
  <1> QED
    BY <1>1, <1>2, <1>3, <1>4, <1>5, <1>6, SidesFinite, CardinalitySteps

(***************************************************************************)
(* What a written call does to the entry of its object, and that it does   *)
(* nothing to the others.                                                  *)
(***************************************************************************)
LEMMA ObjectWritten ==
    ASSUME NEW o \in Objects, NEW c \in {GA(o), GF(o)},
           DOMAIN filter = {G!Key(b) : b \in Objects},
           filter[G!Key(o)] \in [left : Nat, refs : Nat],
           filter' = G!RemoveFreed(filter, c)
    PROVE  /\ DOMAIN filter' = {G!Key(b) : b \in Objects}
           /\ \A b \in Objects : b # o => filter'[G!Key(b)] = filter[G!Key(b)]
           /\ c = GA(o) =>
                filter'[G!Key(o)] =
                    [left |-> IF filter[G!Key(o)].refs > 0 THEN filter[G!Key(o)].left
                                                           ELSE filter[G!Key(o)].left + 1,
                     refs |-> filter[G!Key(o)].refs + 1]
           /\ c = GF(o) =>
                filter'[G!Key(o)] =
                    [left |-> IF filter[G!Key(o)].refs = 1 THEN filter[G!Key(o)].left - 1
                                                           ELSE filter[G!Key(o)].left,
                     refs |-> IF filter[G!Key(o)].refs = 0 THEN 0
                                                           ELSE filter[G!Key(o)].refs - 1]
  <1> DEFINE e == filter[G!Key(o)]
             n == IF c = GA(o) THEN G!AllocCall(e, TRUE) ELSE G!FreeCall(e, TRUE)
  <1>1. GA(o) # GF(o)
    BY DEF GA, GF, G!Alloc, G!Free
  <1>2. filter' = [filter EXCEPT ![G!Key(o)] = n]
    <2>1. /\ c.res = "gobject" /\ c.id = o
          /\ c.type = IF c = GA(o) THEN "alloc" ELSE "free"
      BY DEF GA, GF, G!Alloc, G!Free
    <2>2. G!Resource(c) = G!Key(o) /\ (c.res \in {"gobject"}) = TRUE
      BY <2>1 DEF G!Resource, G!Key
    <2>3. (c.type = "alloc") <=> (c = GA(o))
      BY <2>1
    <2> QED
      BY <2>2, <2>3 DEF G!RemoveFreed
  <1>3. \A b \in Objects : b # o => G!Key(b) # G!Key(o)
    BY KeysDiffer
  <1>4. filter'[G!Key(o)] = n
    BY <1>2
  <1>5. e = [left |-> e.left, refs |-> e.refs] /\ e.left \in Nat /\ e.refs \in Nat
    OBVIOUS
  <1> HIDE DEF e
  <1>6. c = GA(o) => n = [left |-> IF e.refs > 0 THEN e.left ELSE e.left + 1, refs |-> e.refs + 1]
    BY <1>5 DEF G!AllocCall
  <1>7. c = GF(o) => n = [left |-> IF e.refs = 1 THEN e.left - 1 ELSE e.left,
                          refs |-> IF e.refs = 0 THEN 0 ELSE e.refs - 1]
    <2> DEFINE r == [left |-> IF e.refs = 1 THEN e.left - 1 ELSE e.left,
                     refs |-> IF e.refs = 0 THEN 0 ELSE e.refs - 1]
    <2> HIDE DEF n, r
    <2>1. G!FreeCall(e, TRUE) = IF e.refs = 0 THEN e
                                ELSE IF e.refs = 1 THEN [left |-> e.left - 1, refs |-> 0]
                                ELSE [e EXCEPT !.refs = e.refs - 1]
      BY DEF G!FreeCall
    <2>2. G!FreeCall(e, TRUE) = r
      <3>1. CASE e.refs = 0
        <4>1. e = [left |-> e.left, refs |-> 0]
          BY <3>1, <1>5
        <4>2. r = [left |-> e.left, refs |-> 0]
          BY <3>1 DEF r
        <4>3. G!FreeCall(e, TRUE) = e
          BY <3>1, <2>1
        <4> QED
          BY <4>1, <4>2, <4>3
      <3>2. CASE e.refs = 1
        <4>1. r = [left |-> e.left - 1, refs |-> 0]
          BY <3>2 DEF r
        <4>2. e.refs # 0
          BY <3>2
        <4>3. G!FreeCall(e, TRUE) = [left |-> e.left - 1, refs |-> 0]
          BY <3>2, <4>2, <2>1, Zenon
        <4> QED
          BY <4>1, <4>3
      <3>3. CASE e.refs # 0 /\ e.refs # 1
        <4>1. [e EXCEPT !.refs = e.refs - 1] = [left |-> e.left, refs |-> e.refs - 1]
          BY <1>5
        <4>2. r = [left |-> e.left, refs |-> e.refs - 1]
          BY <3>3 DEF r
        <4> QED
          BY <4>1, <4>2, <3>3, <2>1
      <3> QED
        BY <3>1, <3>2, <3>3
    <2>3. c = GF(o) => n = G!FreeCall(e, TRUE)
      BY <1>1 DEF n
    <2> QED
      BY <2>2, <2>3 DEF r
  <1> HIDE DEF n
  <1> QED
    BY <1>2, <1>3, <1>4, <1>6, <1>7 DEF e

LEMMA ObjectTaken ==
    ASSUME ObjectsInv, NEW t \in GThreads, NEW o \in Objects, G!Newv(t, o) \/ G!Ref(t, o)
    PROVE  ObjectsInv'
  <1> HIDE DEF GA, GF
  <1>1. todo[t] = <<>> /\ todo' = [todo EXCEPT ![t] = <<GA(o)>>] /\ filter' = filter
    BY DEF G!Newv, G!Ref, G!Begin, GA
  <1>2. held' = held /\ ref' = [ref EXCEPT ![o] = ref[o] + 1]
    BY DEF G!Newv, G!Ref, ObjectsInv, Counted
  <1>3. DOMAIN todo = GThreads /\ DOMAIN ref = Objects /\ DOMAIN filter = {G!Key(b) : b \in Objects}
        /\ DOMAIN held = Objects /\ Wrappers
    BY DEF ObjectsInv
  <1>4. Wrappers'
    BY <1>1, <1>3 DEF Wrappers
  <1>5. /\ \A b : b # o => Takers(b)' = Takers(b) /\ Droppers(b)' = Droppers(b)
        /\ Cardinality(Takers(o)') = Cardinality(Takers(o)) + 1
        /\ Droppers(o)' = Droppers(o)
    BY <1>1, <1>3, SidesBegin
  <1>6. ASSUME NEW u \in GThreads, NEW b
        PROVE  todo'[u] = <<GF(b), GF(b)>> => todo[u] = <<GF(b), GF(b)>>
    BY <1>1, <1>3, CallsDiffer
  <1>7. ASSUME NEW b \in Objects, b # o
        PROVE  Counted(b)'
    <2>1. Counted(b) /\ (b \notin raced' => b \notin raced)
      BY <1>7 DEF ObjectsInv, G!Newv, G!Ref
    <2> QED
      BY <1>1, <1>2, <1>3, <1>5, <1>6, <1>7, <2>1 DEF Counted
  <1>8. Counted(o)'
    <2>1. Counted(o)
      BY DEF ObjectsInv
    <2>2. /\ Cardinality(Takers(o)) \in Nat /\ Cardinality(Droppers(o)) \in Nat
      BY SidesFinite
    <2>3. ASSUME o \notin raced'
          PROVE  /\ o \notin raced
                 /\ ref[o] > 0 \/ (filter[G!Key(o)].refs = 0 /\ held[o] = 0
                                    /\ Cardinality(Droppers(o)) = 0)
                 /\ ref[o] = 0 => \A u \in GThreads : todo[u] # <<GF(o), GF(o)>>
      <3>1. CASE ref[o] > 0
        BY <3>1, <2>3 DEF G!Newv, G!Ref
      <3>2. CASE ref[o] = 0
        <4>1. G!Newv(t, o)
          BY <3>2, <2>1, <2>2 DEF G!Ref, Counted
        <4>2. o \notin raced /\ G!Reporting(o) = {}
          BY <4>1, <2>3 DEF G!Newv
        <4>3. ASSUME NEW u \in GThreads, NEW p, todo[u] = p, p \in {<<GF(o)>>, <<GF(o), GF(o)>>}
              PROVE  FALSE
          <5>1. 1 \in DOMAIN p /\ p[1].id = o
            BY <4>3 DEF GF, G!Free
          <5> QED
            BY <5>1, <4>2, <4>3 DEF G!Reporting
        <4>4. Droppers(o) = {}
          BY <4>3 DEF Droppers
        <4>5. Cardinality(Droppers(o)) = 0
          BY <4>4, FS_EmptySet
        <4>6. filter[G!Key(o)].refs \in Nat /\ filter[G!Key(o)].refs <= Cardinality(Droppers(o))
          BY <2>1, <3>2, <4>2 DEF Counted
        <4>7. held[o] = 0
          BY <2>1, <2>2, <3>2 DEF Counted
        <4> QED
          BY <4>2, <4>3, <4>5, <4>6, <4>7
      <3> QED
        BY <3>1, <3>2, <2>1 DEF Counted
    <2>4. ref'[o] = ref[o] + 1 /\ held'[o] = held[o] /\ filter'[G!Key(o)] = filter[G!Key(o)]
      BY <1>1, <1>2, <1>3
    <2> QED
      BY <1>5, <1>6, <2>1, <2>2, <2>3, <2>4 DEF Counted
  <1> QED
    BY <1>1, <1>2, <1>3, <1>4, <1>7, <1>8 DEF ObjectsInv

LEMMA ObjectDropped ==
    ASSUME ObjectsInv, NEW t \in GThreads, NEW o \in Objects, G!Unref(t, o)
    PROVE  ObjectsInv'
  <1> DEFINE p == G!FreeCalls(ref[o], o)
  <1> HIDE DEF GA, GF
  <1>1. p \in {<<GF(o)>>, <<GF(o), GF(o)>>} /\ (p = <<GF(o), GF(o)>> => ref[o] = 1)
    <2>1. p = IF ref[o] = 1 /\ Interposed THEN <<GF(o), GF(o)>> ELSE <<GF(o)>>
      BY DEF G!FreeCalls, GF
    <2> QED
      BY <2>1, CallsDiffer
  <1>2. /\ todo[t] = <<>> /\ todo' = [todo EXCEPT ![t] = p] /\ filter' = filter
        /\ held[o] > 0 /\ raced' = raced
        /\ ref' = [ref EXCEPT ![o] = ref[o] - 1] /\ held' = [held EXCEPT ![o] = held[o] - 1]
    BY DEF G!Unref, G!Begin
  <1> HIDE DEF p
  <1>3. DOMAIN todo = GThreads /\ DOMAIN ref = Objects /\ DOMAIN filter = {G!Key(b) : b \in Objects}
        /\ DOMAIN held = Objects /\ Wrappers
    BY DEF ObjectsInv
  <1>4. Wrappers'
    BY <1>1, <1>2, <1>3 DEF Wrappers
  <1>5. p # <<GA(o)>>
    BY <1>1, CallsDiffer
  <1>6. /\ \A b : b # o => Takers(b)' = Takers(b) /\ Droppers(b)' = Droppers(b)
        /\ Cardinality(Droppers(o)') = Cardinality(Droppers(o)) + 1
        /\ Takers(o)' = Takers(o)
    BY <1>1, <1>2, <1>3, <1>5, SidesBegin
  <1>7. ASSUME NEW b \in Objects, b # o
        PROVE  Counted(b)'
    <2>1. Counted(b)
      BY <1>7 DEF ObjectsInv
    <2>2. ASSUME NEW u \in GThreads
          PROVE  todo'[u] = <<GF(b), GF(b)>> => todo[u] = <<GF(b), GF(b)>>
      BY <1>1, <1>2, <1>3, <1>7, CallsDiffer
    <2>3. ref'[b] = ref[b] /\ held'[b] = held[b] /\ Takers(b)' = Takers(b) /\ Droppers(b)' = Droppers(b)
      BY <1>2, <1>3, <1>6, <1>7
    <2> QED
      BY <1>2, <2>1, <2>2, <2>3 DEF Counted
  <1>8. Counted(o)'
    <2>1. Counted(o)
      BY DEF ObjectsInv
    <2>2. /\ Cardinality(Takers(o)) \in Nat /\ Cardinality(Droppers(o)) \in Nat
      BY SidesFinite
    <2>3. ref'[o] = ref[o] - 1 /\ held'[o] = held[o] - 1 /\ filter'[G!Key(o)] = filter[G!Key(o)]
      BY <1>2, <1>3
    <2>4. ref[o] \in Nat /\ held[o] \in Nat /\ held[o] + Cardinality(Takers(o)) = ref[o] /\ held[o] > 0
      BY <1>2, <2>1 DEF Counted
    <2>5. ASSUME o \notin raced
          PROVE  /\ filter[G!Key(o)].refs = held[o] + Cardinality(Droppers(o))
                 /\ \A u \in GThreads : todo[u] # <<GF(o), GF(o)>>
      BY <2>1, <2>2, <2>4, <2>5 DEF Counted
    <2>6. ASSUME o \notin raced, ref'[o] > 0, NEW u \in GThreads
          PROVE  todo'[u] # <<GF(o), GF(o)>>
      <3>1. ref[o] # 1
        BY <2>6, <2>3
      <3> QED
        BY <3>1, <2>5, <2>6, <1>1, <1>2, <1>3
    <2>7. ASSUME o \notin raced
          PROVE  /\ filter'[G!Key(o)].refs = held'[o] + Cardinality(Droppers(o)')
                 /\ ref'[o] = 0 => filter'[G!Key(o)].refs <= Cardinality(Droppers(o)')
      BY <1>6, <2>2, <2>3, <2>4, <2>5, <2>7
    <2>8. /\ ref'[o] \in Nat /\ held'[o] \in Nat
          /\ held'[o] + Cardinality(Takers(o)') = ref'[o]
      BY <1>6, <2>2, <2>3, <2>4
    <2> QED
      BY <1>2, <2>1, <2>3, <2>6, <2>7, <2>8 DEF Counted
  <1> QED
    BY <1>2, <1>3, <1>4, <1>7, <1>8 DEF ObjectsInv

LEMMA ObjectReported ==
    ASSUME ObjectsInv, NEW t \in GThreads, G!WriteCall(t)
    PROVE  ObjectsInv'
  <1> HIDE DEF GA, GF
  <1>1. /\ todo[t] # <<>> /\ todo' = [todo EXCEPT ![t] = Tail(todo[t])]
        /\ filter' = G!RemoveFreed(filter, Head(todo[t]))
        /\ held' = IF Head(todo[t]).type = "alloc"
                   THEN [held EXCEPT ![Head(todo[t]).id] = held[Head(todo[t]).id] + 1] ELSE held
        /\ ref' = ref /\ raced' = raced
    BY DEF G!WriteCall
  <1>2. DOMAIN todo = GThreads /\ DOMAIN ref = Objects /\ DOMAIN filter = {G!Key(b) : b \in Objects}
        /\ DOMAIN held = Objects /\ Wrappers
    BY DEF ObjectsInv
  <1>3. PICK o \in Objects : todo[t] \in {<<GA(o)>>, <<GF(o)>>, <<GF(o), GF(o)>>}
    BY <1>1, <1>2 DEF Wrappers
  <1> DEFINE c == Head(todo[t])
  <1>4. /\ c \in {GA(o), GF(o)}
        /\ c = GA(o) <=> todo[t] = <<GA(o)>>
        /\ c.id = o /\ (c.type = "alloc" <=> c = GA(o))
    <2>1. \/ todo[t] = <<GA(o)>> /\ c = GA(o)
          \/ todo[t] = <<GF(o)>> /\ c = GF(o)
          \/ todo[t] = <<GF(o), GF(o)>> /\ c = GF(o)
      <3>1. \A x : Head(<<x>>) = x /\ Head(<<x, x>>) = x
        OBVIOUS
      <3> QED
        BY <1>3, <3>1
    <2>2. GA(o).id = o /\ GF(o).id = o /\ GA(o).type = "alloc" /\ GF(o).type = "free"
      BY DEF GA, GF, G!Alloc, G!Free
    <2>3. GA(o) # GF(o)
      BY <2>2
    <2> HIDE DEF c
    <2> QED
      BY <2>1, <2>2, <2>3, CallsDiffer
  <1>5. Counted(o)
    BY DEF ObjectsInv
  <1>6. filter[G!Key(o)] \in [left : Nat, refs : Nat]
    BY <1>5 DEF Counted
  <1> DEFINE e == filter[G!Key(o)]
             d == filter'[G!Key(o)]
  <1>7. /\ DOMAIN filter' = {G!Key(b) : b \in Objects}
        /\ \A b \in Objects : b # o => filter'[G!Key(b)] = filter[G!Key(b)]
        /\ c = GA(o) => d = [left |-> IF e.refs > 0 THEN e.left ELSE e.left + 1,
                             refs |-> e.refs + 1]
        /\ c = GF(o) => d = [left |-> IF e.refs = 1 THEN e.left - 1 ELSE e.left,
                             refs |-> IF e.refs = 0 THEN 0 ELSE e.refs - 1]
    <2> HIDE DEF c
    <2>1. filter' = G!RemoveFreed(filter, c) /\ c \in {GA(o), GF(o)}
      BY <1>1, <1>4 DEF c
    <2> QED
      BY <2>1, <1>2, <1>6, ObjectWritten
  <1>8. held' = IF c = GA(o) THEN [held EXCEPT ![o] = held[o] + 1] ELSE held
    BY <1>1, <1>4
  <1> HIDE DEF c, e, d
  <1>9. /\ \A b : b # o => Takers(b)' = Takers(b) /\ Droppers(b)' = Droppers(b)
        /\ todo[t] = <<GA(o)>> =>
             /\ Cardinality(Takers(o)') = Cardinality(Takers(o)) - 1
             /\ Cardinality(Takers(o)) >= 1
             /\ Droppers(o)' = Droppers(o)
             /\ todo'[t] = <<>>
        /\ todo[t] = <<GF(o)>> =>
             /\ Takers(o)' = Takers(o)
             /\ Cardinality(Droppers(o)') = Cardinality(Droppers(o)) - 1
             /\ Cardinality(Droppers(o)) >= 1
             /\ todo'[t] = <<>>
        /\ todo[t] = <<GF(o), GF(o)>> =>
             /\ Takers(o)' = Takers(o)
             /\ Droppers(o)' = Droppers(o)
             /\ Cardinality(Droppers(o)) >= 1
             /\ todo'[t] = <<GF(o)>>
    BY <1>1, <1>2, <1>3, SidesWrite
  <1>10. \A u \in GThreads : u # t => todo'[u] = todo[u]
    BY <1>1, <1>2
  <1>11. Wrappers'
    BY <1>2, <1>3, <1>9, <1>10 DEF Wrappers
  <1>12. ASSUME NEW u \in GThreads, NEW b
         PROVE  todo'[u] = <<GF(b), GF(b)>> => todo[u] = <<GF(b), GF(b)>>
    BY <1>3, <1>9, <1>10, CallsDiffer
  <1>13. ASSUME NEW b \in Objects, b # o
         PROVE  Counted(b)'
    <2>1. Counted(b)
      BY <1>13 DEF ObjectsInv
    <2>2. /\ ref'[b] = ref[b] /\ held'[b] = held[b] /\ filter'[G!Key(b)] = filter[G!Key(b)]
          /\ Takers(b)' = Takers(b) /\ Droppers(b)' = Droppers(b)
      BY <1>1, <1>2, <1>7, <1>8, <1>9, <1>13
    <2> QED
      BY <1>1, <1>12, <2>1, <2>2 DEF Counted
  <1>14. Counted(o)'
    <2>1. /\ Cardinality(Takers(o)) \in Nat /\ Cardinality(Droppers(o)) \in Nat
      BY SidesFinite
    <2>2. /\ ref[o] \in Nat /\ held[o] \in Nat /\ held[o] + Cardinality(Takers(o)) = ref[o]
          /\ e.left \in Nat /\ e.refs \in Nat /\ e.left = IF e.refs > 0 THEN 1 ELSE 0
      BY <1>5, <1>6 DEF Counted, e
    <2>3. ASSUME o \notin raced
          PROVE  /\ ref[o] > 0 => /\ e.refs = held[o] + Cardinality(Droppers(o))
                                  /\ \A u \in GThreads : todo[u] # <<GF(o), GF(o)>>
                 /\ ref[o] = 0 => e.refs <= Cardinality(Droppers(o))
      BY <1>5, <2>3 DEF Counted, e
    <2>4. SUFFICES /\ held'[o] \in Nat /\ held'[o] + Cardinality(Takers(o)') = ref[o]
                   /\ d \in [left : Nat, refs : Nat]
                   /\ d.left = IF d.refs > 0 THEN 1 ELSE 0
                   /\ o \notin raced =>
                        /\ ref[o] > 0 => d.refs = held'[o] + Cardinality(Droppers(o)')
                        /\ ref[o] = 0 => d.refs <= Cardinality(Droppers(o)')
      BY <1>1, <1>12, <2>2, <2>3 DEF Counted, d
    <2>5. CASE todo[t] = <<GA(o)>>
      <3>1. held'[o] = held[o] + 1
        BY <1>2, <1>4, <1>8, <2>5
      <3>2. d = [left |-> IF e.refs > 0 THEN e.left ELSE e.left + 1, refs |-> e.refs + 1]
        BY <1>4, <1>7, <2>5
      <3>3. d.left = 1 /\ d.refs = e.refs + 1 /\ d \in [left : Nat, refs : Nat]
        BY <3>2, <2>2
      <3>4. ref[o] # 0
        BY <1>9, <2>1, <2>2, <2>5
      <3>5. /\ Cardinality(Takers(o)') = Cardinality(Takers(o)) - 1
            /\ Cardinality(Droppers(o)') = Cardinality(Droppers(o))
        BY <1>9, <2>5
      <3>6. held'[o] \in Nat /\ held'[o] + Cardinality(Takers(o)') = ref[o]
        BY <2>1, <2>2, <3>1, <3>5
      <3>7. o \notin raced => d.refs = held'[o] + Cardinality(Droppers(o)')
        <4> SUFFICES ASSUME o \notin raced
                     PROVE  d.refs = held'[o] + Cardinality(Droppers(o)')
          OBVIOUS
        <4>1. e.refs = held[o] + Cardinality(Droppers(o))
          BY <2>2, <2>3, <3>4
        <4> QED
          BY <4>1, <2>1, <2>2, <3>1, <3>3, <3>5
      <3>8. d.left = IF d.refs > 0 THEN 1 ELSE 0
        BY <2>2, <3>3
      <3> QED
        BY <3>3, <3>4, <3>6, <3>7, <3>8
    <2>6. CASE todo[t] \in {<<GF(o)>>, <<GF(o), GF(o)>>}
      <3>1. c = GF(o) /\ c # GA(o) /\ todo[t] # <<GA(o)>>
        BY <1>4, <2>6, CallsDiffer
      <3>2. held' = held /\ Takers(o)' = Takers(o)
        BY <1>8, <1>9, <2>6, <3>1
      <3>3. d = [left |-> IF e.refs = 1 THEN e.left - 1 ELSE e.left,
                 refs |-> IF e.refs = 0 THEN 0 ELSE e.refs - 1]
        BY <1>7, <3>1
      <3>4. /\ d \in [left : Nat, refs : Nat] /\ d.left = IF d.refs > 0 THEN 1 ELSE 0
            /\ d.refs = IF e.refs = 0 THEN 0 ELSE e.refs - 1
        BY <3>3, <2>2
      <3>5. CASE todo[t] = <<GF(o)>>
        BY <1>9, <2>1, <2>2, <2>3, <3>2, <3>4, <3>5
      <3>6. CASE todo[t] = <<GF(o), GF(o)>>
        BY <1>9, <2>1, <2>2, <2>3, <3>2, <3>4, <3>6
      <3> QED
        BY <2>6, <3>5, <3>6
    <2> QED
      BY <1>3, <2>5, <2>6
  <1>15. DOMAIN ref' = Objects /\ DOMAIN held' = Objects /\ DOMAIN todo' = GThreads
    BY <1>1, <1>2, <1>8
  <1> QED
    BY <1>7, <1>11, <1>13, <1>14, <1>15 DEF ObjectsInv

LEMMA ObjectsStep == ObjectsInv /\ G!Next => ObjectsInv'
  BY ObjectTaken, ObjectDropped, ObjectReported DEF G!Next

LEMMA ObjectsKept == ObjectsInv => G!HeldIsReported /\ G!SettledCount
  <1> SUFFICES ASSUME ObjectsInv, NEW o \in Objects \ raced
               PROVE  /\ held[o] > 0 => /\ filter[G!Key(o)].left = 1
                                        /\ filter[G!Key(o)].refs >= held[o]
                      /\ G!Reporting(o) = {} =>
                            /\ filter[G!Key(o)].refs = ref[o]
                            /\ filter[G!Key(o)].left = IF ref[o] > 0 THEN 1 ELSE 0
    BY DEF G!HeldIsReported, G!SettledCount
  <1> HIDE DEF GA, GF
  <1>1. Counted(o)
    BY DEF ObjectsInv
  <1>2. /\ Cardinality(Takers(o)) \in Nat /\ Cardinality(Droppers(o)) \in Nat
    BY SidesFinite
  <1>3. filter[G!Key(o)].refs \in Nat
    BY <1>1 DEF Counted
  <1>4. held[o] > 0 => ref[o] > 0
    BY <1>1, <1>2 DEF Counted
  <1>5. ASSUME G!Reporting(o) = {}
        PROVE  Cardinality(Takers(o)) = 0 /\ Cardinality(Droppers(o)) = 0
    <2>1. ASSUME NEW u \in GThreads, NEW p, todo[u] = p,
                 p \in {<<GA(o)>>, <<GF(o)>>, <<GF(o), GF(o)>>}
          PROVE  FALSE
      <3>1. 1 \in DOMAIN p /\ p[1].id = o
        BY <2>1 DEF GA, GF, G!Alloc, G!Free
      <3> QED
        BY <3>1, <1>5, <2>1 DEF G!Reporting
    <2>2. Takers(o) = {} /\ Droppers(o) = {}
      BY <2>1 DEF Takers, Droppers
    <2> QED
      BY <2>2, FS_EmptySet
  <1>6. held[o] > 0 => filter[G!Key(o)].left = 1 /\ filter[G!Key(o)].refs >= held[o]
    BY <1>1, <1>2, <1>3, <1>4 DEF Counted
  <1>7. G!Reporting(o) = {} => filter[G!Key(o)].refs = ref[o]
    BY <1>1, <1>2, <1>3, <1>5 DEF Counted
  <1> QED
    BY <1>1, <1>6, <1>7 DEF Counted

(***************************************************************************)
(* Wrappers as sequences of steps.                                         *)
(*                                                                         *)
(* A program has a step of S; no step of R comes after one of S; the       *)
(* threads whose rest of a wrapper has a step of S.                        *)
(***************************************************************************)
Has(p, S)          == \E i \in DOMAIN p : p[i] \in S
NoneAfter(p, S, R) == \A i, j \in DOMAIN p : i < j /\ p[i] \in S => p[j] \notin R
Having(S)          == {t \in Threads : Has(todo[t], S)}

LEMMA NoSteps ==
    \A S, R : ~Has(<<>>, S) /\ NoneAfter(<<>>, S, R)
  BY DEF Has, NoneAfter

LEMMA OneStep ==
    ASSUME NEW x
    PROVE  \A S, R : (Has(<<x>>, S) <=> x \in S) /\ NoneAfter(<<x>>, S, R)
  <1>1. DOMAIN <<x>> = {1} /\ <<x>>[1] = x
    OBVIOUS
  <1> QED
    BY <1>1 DEF Has, NoneAfter

LEMMA TwoSteps ==
    ASSUME NEW x, NEW y
    PROVE  \A S, R : /\ Has(<<x, y>>, S) <=> x \in S \/ y \in S
                     /\ NoneAfter(<<x, y>>, S, R) <=> (x \in S => y \notin R)
  <1>1. DOMAIN <<x, y>> = {1, 2} /\ <<x, y>>[1] = x /\ <<x, y>>[2] = y
    OBVIOUS
  <1> TAKE S, R
  <1> QED
    BY <1>1 DEF Has, NoneAfter

LEMMA ThreeSteps ==
    ASSUME NEW x, NEW y, NEW z
    PROVE  \A S, R : /\ Has(<<x, y, z>>, S) <=> x \in S \/ y \in S \/ z \in S
                     /\ NoneAfter(<<x, y, z>>, S, R) <=>
                            (x \in S => y \notin R /\ z \notin R) /\ (y \in S => z \notin R)
  <1>1. /\ DOMAIN <<x, y, z>> = {1, 2, 3}
        /\ <<x, y, z>>[1] = x /\ <<x, y, z>>[2] = y /\ <<x, y, z>>[3] = z
    OBVIOUS
  <1> TAKE S, R
  <1>2. Has(<<x, y, z>>, S) <=> x \in S \/ y \in S \/ z \in S
    BY <1>1 DEF Has
  <1>3. NoneAfter(<<x, y, z>>, S, R) <=>
            (x \in S => y \notin R /\ z \notin R) /\ (y \in S => z \notin R)
    BY <1>1 DEF NoneAfter
  <1> QED
    BY <1>2, <1>3

LEMMA FourSteps ==
    ASSUME NEW x, NEW y, NEW z, NEW w
    PROVE  \A S, R : /\ Has(<<x, y, z, w>>, S) <=> x \in S \/ y \in S \/ z \in S \/ w \in S
                     /\ NoneAfter(<<x, y, z, w>>, S, R) <=>
                            /\ x \in S => y \notin R /\ z \notin R /\ w \notin R
                            /\ y \in S => z \notin R /\ w \notin R
                            /\ z \in S => w \notin R
  <1>1. /\ DOMAIN <<x, y, z, w>> = {1, 2, 3, 4}
        /\ <<x, y, z, w>>[1] = x /\ <<x, y, z, w>>[2] = y
        /\ <<x, y, z, w>>[3] = z /\ <<x, y, z, w>>[4] = w
    OBVIOUS
  <1> TAKE S, R
  <1>2. Has(<<x, y, z, w>>, S) <=> x \in S \/ y \in S \/ z \in S \/ w \in S
    BY <1>1 DEF Has
  <1>3. NoneAfter(<<x, y, z, w>>, S, R) <=>
            /\ x \in S => y \notin R /\ z \notin R /\ w \notin R
            /\ y \in S => z \notin R /\ w \notin R
            /\ z \in S => w \notin R
    BY <1>1 DEF NoneAfter
  <1> QED
    BY <1>2, <1>3

LEMMA RestOfProgram ==
    ASSUME NEW T, NEW p \in Seq(T), p # <<>>, NEW S, NEW R
    PROVE  /\ Head(p) \in T /\ Tail(p) \in Seq(T)
           /\ Has(p, S) <=> Head(p) \in S \/ Has(Tail(p), S)
           /\ NoneAfter(p, S, R) => /\ NoneAfter(Tail(p), S, R)
                                    /\ Head(p) \in S => ~Has(Tail(p), R)
  <1>1. /\ Head(p) = p[1] /\ Tail(p) \in Seq(T) /\ Head(p) \in T
        /\ DOMAIN p = 1..Len(p) /\ Len(p) \in Nat /\ Len(p) >= 1
        /\ DOMAIN Tail(p) = 1..(Len(p) - 1)
    OBVIOUS
  <1>2. \A i \in DOMAIN Tail(p) : Tail(p)[i] = p[i + 1]
    BY HeadTailProperties
  <1>3. \A i \in DOMAIN Tail(p) : i + 1 \in DOMAIN p /\ i \in Int
    BY <1>1
  <1>4. \A i \in DOMAIN p : i = 1 \/ (i - 1 \in DOMAIN Tail(p) /\ Tail(p)[i - 1] = p[i])
    <2> SUFFICES ASSUME NEW i \in DOMAIN p, i # 1
                 PROVE  i - 1 \in DOMAIN Tail(p) /\ Tail(p)[i - 1] = p[i]
      OBVIOUS
    <2>1. i - 1 \in DOMAIN Tail(p) /\ (i - 1) + 1 = i
      BY <1>1
    <2> QED
      BY <2>1, <1>2
  <1>5. Has(p, S) <=> Head(p) \in S \/ Has(Tail(p), S)
    <2>1. 1 \in DOMAIN p
      BY <1>1
    <2> QED
      BY <1>1, <1>2, <1>3, <1>4, <2>1 DEF Has
  <1>6. ASSUME NoneAfter(p, S, R)
        PROVE  NoneAfter(Tail(p), S, R)
    <2> SUFFICES ASSUME NEW i \in DOMAIN Tail(p), NEW j \in DOMAIN Tail(p), i < j, Tail(p)[i] \in S
                 PROVE  Tail(p)[j] \notin R
      BY DEF NoneAfter
    <2>1. i + 1 \in DOMAIN p /\ j + 1 \in DOMAIN p /\ i + 1 < j + 1
      BY <1>1, <1>3
    <2>2. p[i + 1] \in S /\ Tail(p)[j] = p[j + 1]
      BY <1>2
    <2> QED
      BY <1>6, <2>1, <2>2 DEF NoneAfter
  <1>7. ASSUME NoneAfter(p, S, R), Head(p) \in S
        PROVE  ~Has(Tail(p), R)
    <2> SUFFICES ASSUME NEW j \in DOMAIN Tail(p)
                 PROVE  Tail(p)[j] \notin R
      BY DEF Has
    <2>1. j + 1 \in DOMAIN p /\ 1 \in DOMAIN p /\ 1 < j + 1 /\ Tail(p)[j] = p[j + 1] /\ p[1] \in S
      BY <1>1, <1>2, <1>3, <1>7
    <2> QED
      BY <1>7, <2>1 DEF NoneAfter
  <1> QED
    BY <1>1, <1>5, <1>6, <1>7

LEMMA HavingChanged ==
    ASSUME NEW t \in Threads, NEW p, DOMAIN todo = Threads,
           todo' = [todo EXCEPT ![t] = p], NEW S
    PROVE  Having(S)' = IF Has(p, S) THEN Having(S) \cup {t} ELSE Having(S) \ {t}
  <1>1. todo'[t] = p /\ \A u \in Threads : u # t => todo'[u] = todo[u]
    OBVIOUS
  <1>2. Having(S)' = {u \in Threads : Has(todo'[u], S)}
    BY DEF Having, Has
  <1> HIDE DEF Has
  <1> QED
    BY <1>1, <1>2 DEF Having

(***************************************************************************)
(* The ledger of one resource, the same for addresses, descriptors and     *)
(* streams.  own are the threads that still have to report the release of  *)
(* a resource whose allocation the trace holds, ext those with a release   *)
(* that has none, tak those with an allocation to report.  who says        *)
(* whether the program holds the resource ("held", or "early" when the     *)
(* trace does not have its allocation), mark whether it was released       *)
(* without a report (1), given out under an unreported release (2), or     *)
(* under one without an allocation (3).  e is its entry in the filter.     *)
(*                                                                         *)
(* Clash: a resource is given out under an unreported release only where   *)
(* this is marked.                                                         *)
(***************************************************************************)
Clash(own, ext, tak, who, mark) ==
    \A t \in own \cup ext :
        (who # "other" \/ \E u \in tak : u # t) => mark >= 2 /\ (t \in ext => mark = 3)

Two(own, who) == \E t \in own : who = "held" \/ \E u \in own : u # t

(***************************************************************************)
(* Books: the report has a call for whoever has or had the resource.  The  *)
(* index of the filter refers to one of these calls at most, so that when  *)
(* there are two owners one call stays whichever release comes first.      *)
(***************************************************************************)
Books(own, ext, who, mark, e) ==
    /\ e.left \in Nat /\ e.refs \in {0, 1}
    /\ e.refs = 1 => e.left >= 1
    /\ who = "early" => e.refs = 0
    /\ mark < 3 =>
        /\ \A t \in ext : e.refs = 0 \/ t \in own \/ (own = {} /\ who # "held")
        /\ own # {} \/ who = "held" => e.left >= 1
        /\ e.refs = 1 /\ Two(own, who) => e.left >= 2
    /\ mark = 0 =>
        /\ ~Two(own, who)
        /\ e.left = e.refs
        /\ e.refs = 1 <=> own # {} \/ who = "held"

\* A thread starts a wrapper that gives the resource up, takes it, or both.
LedgerStarts(own, ext, tak, who, mark, t, own2, ext2, tak2, who2, mark2) ==
    /\ mark \in 0..3 /\ mark2 \in mark..3
    /\ own2 \in {own, own \cup {t}} /\ ext2 \in {ext, ext \cup {t}} /\ tak2 \in {tak, tak \cup {t}}
    /\ who2 \in {who, "other"}
    /\ t \notin own /\ t \notin ext /\ t \notin tak
    /\ t \in own2 \/ t \in ext2 \/ t \in tak2 => who2 = "other" /\ tak = {}
    /\ t \in own2 => who = "held"
    /\ who = "held" /\ who2 = "other" => t \in own2 \/ mark2 >= 1
    /\ t \in ext2 => who = "early" \/ t \in own2 \/ own = {} \/ mark2 = 3
    /\ t \in tak2 /\ who = "other" => /\ own \cup ext # {} => mark2 >= 2
                                      /\ ext # {} => mark2 = 3

LEMMA LedgerBegin ==
    ASSUME NEW own, NEW ext, NEW tak, NEW who, NEW mark, NEW e, NEW t,
           NEW own2, NEW ext2, NEW tak2, NEW who2, NEW mark2,
           LedgerStarts(own, ext, tak, who, mark, t, own2, ext2, tak2, who2, mark2),
           Clash(own, ext, tak, who, mark)
    PROVE  /\ Clash(own2, ext2, tak2, who2, mark2)
           /\ Books(own, ext, who, mark, e) => Books(own2, ext2, who2, mark2, e)
  <1> USE DEF LedgerStarts
  <1>1. mark \in Int /\ mark2 \in Int /\ mark2 >= mark /\ mark <= 3 /\ mark2 <= 3 /\ mark >= 0
    OBVIOUS
  <1>2. ASSUME NEW u \in own2 \cup ext2, who2 # "other" \/ \E v \in tak2 : v # u
        PROVE  mark2 >= 2 /\ (u \in ext2 => mark2 = 3)
    <2>1. CASE u = t
      BY <1>2, <2>1
    <2>2. CASE u # t
      <3>1. u \in own \cup ext /\ (u \in ext2 => u \in ext)
        BY <2>2
      <3>2. CASE who # "other"
        BY <1>1, <3>1, <3>2 DEF Clash
      <3>3. CASE who = "other" /\ \E v \in tak : v # u
        BY <1>1, <3>1, <3>3 DEF Clash
      <3>4. CASE who = "other" /\ t \in tak2
        BY <1>1, <3>1, <3>4
      <3> QED
        BY <1>2, <3>2, <3>3, <3>4
    <2> QED
      BY <2>1, <2>2
  <1>3. Clash(own2, ext2, tak2, who2, mark2)
    BY <1>2 DEF Clash
  <1>4. ASSUME Books(own, ext, who, mark, e)
        PROVE  Books(own2, ext2, who2, mark2, e)
    <2>1. Two(own2, who2) => Two(own, who)
      BY DEF Two
    <2>2. own2 # {} \/ who2 = "held" => own # {} \/ who = "held"
      OBVIOUS
    <2>3. ASSUME mark2 = 0
          PROVE  own2 # {} \/ who2 = "held" <=> own # {} \/ who = "held"
      BY <1>1, <2>3
    <2>4. ASSUME mark2 < 3, NEW u \in ext2
          PROVE  e.refs = 0 \/ u \in own2 \/ (own2 = {} /\ who2 # "held")
      <3>1. CASE u = t
        BY <1>4, <2>4, <3>1 DEF Books
      <3>2. CASE u # t
        <4>1. u \in ext /\ mark < 3
          BY <1>1, <2>4, <3>2
        <4>2. e.refs = 0 \/ u \in own \/ (own = {} /\ who # "held")
          BY <1>4, <4>1 DEF Books
        <4> QED
          BY <4>2
      <3> QED
        BY <3>1, <3>2
    <2>5. mark2 < 3 => mark < 3
      BY <1>1
    <2>6. mark2 = 0 => mark = 0
      BY <1>1
    <2> QED
      BY <1>4, <2>1, <2>2, <2>3, <2>4, <2>5, <2>6 DEF Books
  <1> QED
    BY <1>3, <1>4

\* A thread reports a release.
LEMMA LedgerFree ==
    ASSUME NEW own, NEW ext, NEW tak, NEW who, NEW mark \in 0..3, NEW e, NEW t,
           NEW own2, NEW ext2, NEW e2,
           \/ t \in own /\ own2 = own \ {t} /\ ext2 = ext
           \/ t \in ext /\ t \notin own /\ own2 = own /\ ext2 \in {ext, ext \ {t}},
           e2 = FreeCall(e, FALSE) \/ e2 = F!FreeCall(e, FALSE),
           Clash(own, ext, tak, who, mark)
    PROVE  /\ Clash(own2, ext2, tak, who, mark)
           /\ Books(own, ext, who, mark, e) => Books(own2, ext2, who, mark, e2)
  <1>1. e2 = IF e.refs = 0 THEN e ELSE [left |-> e.left - 1, refs |-> 0]
    BY DEF FreeCall, F!FreeCall
  <1>2. own2 \subseteq own /\ ext2 \subseteq ext
    OBVIOUS
  <1>3. Clash(own2, ext2, tak, who, mark)
    BY <1>2 DEF Clash
  <1>4. ASSUME Books(own, ext, who, mark, e)
        PROVE  Books(own2, ext2, who, mark, e2)
    <2>1. e.left \in Nat /\ e.refs \in {0, 1}
      BY <1>4 DEF Books
    <2>2. e2.refs = 0 /\ e2.left = IF e.refs = 0 THEN e.left ELSE e.left - 1
      <3>1. CASE e.refs = 0
        BY <1>1, <3>1
      <3>2. CASE e.refs = 1
        BY <1>1, <3>2
      <3> QED
        BY <2>1, <3>1, <3>2
    <2>3. CASE mark = 3
      <3>1. e2.left \in Nat
        BY <1>4, <2>1, <2>2, <2>3 DEF Books
      <3> QED
        BY <2>2, <2>3, <3>1 DEF Books
    <2>4. CASE mark < 3 /\ t \in own
      <3>1. e.left >= 1
        BY <1>4, <2>4 DEF Books
      <3>2. own2 # {} \/ who = "held" => Two(own, who)
        BY <2>4 DEF Two
      <3>3. ~(own2 # {} \/ who = "held") => ~Two(own2, who)
        BY DEF Two
      <3>4. mark = 0 => ~Two(own, who) /\ e.left = 1 /\ e.refs = 1
        BY <1>4, <2>1, <2>4 DEF Books
      <3>5. e.refs = 1 /\ Two(own, who) => e.left >= 2
        BY <1>4, <2>4 DEF Books
      <3> QED
        BY <2>1, <2>2, <2>4, <3>1, <3>2, <3>3, <3>4, <3>5 DEF Books
    <2>5. CASE mark < 3 /\ t \notin own
      <3>1. t \in ext /\ own2 = own
        BY <2>5
      <3>2. e.refs = 0 \/ (own = {} /\ who # "held")
        BY <1>4, <2>5, <3>1 DEF Books
      <3>3. CASE e.refs = 0
        BY <1>2, <1>4, <2>1, <2>2, <2>5, <3>1, <3>3 DEF Books
      <3>4. CASE e.refs = 1 /\ own = {} /\ who # "held"
        <4>1. e.left >= 1 /\ mark # 0 /\ ~Two(own, who)
          BY <1>4, <2>5, <3>4 DEF Books, Two
        <4> QED
          BY <2>1, <2>2, <2>5, <3>1, <3>4, <4>1 DEF Books
      <3> QED
        BY <2>1, <3>2, <3>3, <3>4
    <2> QED
      BY <2>3, <2>4, <2>5
  <1> QED
    BY <1>3, <1>4

\* The thread that took the resource reports it.
LEMMA LedgerAlloc ==
    ASSUME NEW own, NEW ext, NEW tak, NEW mark \in 0..3, NEW e, NEW t \in tak, NEW e2,
           t \notin own, t \notin ext,
           e2 = AllocCall(e, FALSE) \/ e2 = F!AllocCall(e, FALSE),
           Clash(own, ext, tak, "other", mark)
    PROVE  /\ Clash(own, ext, {}, "held", mark) /\ Clash(own, ext, {}, "early", mark)
           /\ Books(own, ext, "other", mark, e) => Books(own, ext, "held", mark, e2)
  <1>1. e2 = [left |-> e.left + 1, refs |-> 1]
    BY DEF AllocCall, F!AllocCall
  <1>2. \A u \in own \cup ext : mark >= 2 /\ (u \in ext => mark = 3)
    BY DEF Clash
  <1>3. ASSUME Books(own, ext, "other", mark, e)
        PROVE  Books(own, ext, "held", mark, e2)
    <2>1. e.left \in Nat /\ e2.refs = 1 /\ e2.left = e.left + 1
      BY <1>1, <1>3 DEF Books
    <2>2. mark < 3 => ext = {}
      BY <1>2
    <2>3. mark = 0 => own = {} /\ e.left = 0
      BY <1>2, <1>3 DEF Books
    <2>4. mark < 3 /\ Two(own, "held") => e.left >= 1
      BY <1>3 DEF Books, Two
    <2>5. own = {} => ~Two(own, "held")
      BY DEF Two
    <2> QED
      BY <2>1, <2>2, <2>3, <2>4, <2>5 DEF Books
  <1> QED
    BY <1>2, <1>3 DEF Clash

(***************************************************************************)
(* Heap addresses.                                                         *)
(*                                                                         *)
(* The steps of wrappers, and for one resource those that report a release *)
(* of it, with or without an allocation in the trace, that report its      *)
(* allocation, and that change its status.                                 *)
(***************************************************************************)
HCalls == {Alloc(r, a) : r \in Resources, a \in Addr} \cup {Free(r, a) : r \in Resources, a \in Addr}
HSteps == [do : {"release"}, id : Addr]
            \cup [do : {"report"}, call : HCalls, extra : BOOLEAN, leaves : BOOLEAN]

OwnFrees(r, a) == {s \in HSteps : s.do = "report" /\ s.call = Free(r, a) /\ s.extra = FALSE}
ExtFrees(r, a) == {s \in HSteps : s.do = "report" /\ s.call = Free(r, a) /\ s.extra = TRUE}
Takes(r, a)    == {s \in HSteps : s.do = "report" /\ s.call = Alloc(r, a)}
Claims(r, a)   == {s \in HSteps : \/ s.do = "report" /\ s.call = Alloc(r, a)
                                  \/ s.do = "report" /\ s.call = Free(r, a) /\ s.leaves = TRUE
                                  \/ s.do = "release" /\ s.id = a}

\* A wrapper reports one release with an allocation at most, and this before
\* the releases without; it reports an allocation after the release of the
\* same resource, and changes the status of a resource once.
Good(p) ==
    \A r \in Managed, a \in Addr :
        /\ NoneAfter(p, OwnFrees(r, a) \cup ExtFrees(r, a), OwnFrees(r, a))
        /\ NoneAfter(p, Takes(r, a), OwnFrees(r, a) \cup ExtFrees(r, a))
        /\ NoneAfter(p, Claims(r, a), Claims(r, a))

Who(r, a) ==
    IF status[r][a] = "owned" THEN "held" ELSE IF status[r][a] = "early" THEN "early" ELSE "other"
Mark(r, a) == IF <<r, a>> \in stolen THEN 3 ELSE IF <<r, a>> \in raced THEN 2 ELSE 0

\* One thread at most is about to change the status of a resource, which is
\* "busy" then; the object in a block that is being released may be gone.
KeyClaims(r, a) ==
    /\ \A t, u \in Having(Claims(r, a)) : t = u
    /\ \A t \in Having(Claims(r, a)) :
        \/ status[r][a] = "busy"
        \/ r = "qobject" /\ status[r][a] = "none" /\ t \in Having({Release(a)})
KeyClash(r, a) ==
    Clash(Having(OwnFrees(r, a)), Having(ExtFrees(r, a)), Having(Takes(r, a)),
          Who(r, a), Mark(r, a))
KeyBooks(r, a) ==
    Books(Having(OwnFrees(r, a)), Having(ExtFrees(r, a)), Who(r, a), Mark(r, a), filter[<<r, a>>])

HeapTypes ==
    /\ enabled \in BOOLEAN
    /\ status \in [Managed -> [Addr -> Statuses]]
    /\ DOMAIN todo = Threads
    /\ DOMAIN filter = Resources \X Addr
    /\ stolen \subseteq raced
HeapPrograms == \A t \in Threads : todo[t] \in Seq(HSteps) /\ Good(todo[t])

HeapInv ==
    /\ HeapTypes
    /\ HeapPrograms
    /\ \A r \in Managed, a \in Addr :
        KeyClaims(r, a) /\ KeyClash(r, a) /\ (enabled => KeyBooks(r, a))

LEMMA ReleaseKind ==
    ASSUME NEW b \in Addr
    PROVE  /\ Release(b) \in HSteps
           /\ \A r \in Managed, a \in Addr :
                /\ Release(b) \notin OwnFrees(r, a) /\ Release(b) \notin ExtFrees(r, a)
                /\ Release(b) \notin Takes(r, a) /\ (Release(b) \in Claims(r, a) <=> a = b)
  <1>1. /\ Release(b) \in HSteps /\ Release(b).do = "release" /\ Release(b).id = b
    BY DEF Release, HSteps
  <1>2. "report" # "release"
    OBVIOUS
  <1> QED
    BY <1>1, <1>2, Zenon DEF OwnFrees, ExtFrees, Takes, Claims

LEMMA CallKinds ==
    ASSUME NEW q \in Resources, NEW b \in Addr
    PROVE  /\ Alloc(q, b) \in HCalls /\ Free(q, b) \in HCalls
           /\ \A r, a : /\ Alloc(q, b) # Free(r, a) /\ Free(q, b) # Alloc(r, a)
                        /\ Alloc(q, b) = Alloc(r, a) <=> r = q /\ a = b
                        /\ Free(q, b) = Free(r, a) <=> r = q /\ a = b
  <1>1. Alloc(q, b) \in HCalls /\ Free(q, b) \in HCalls
    BY DEF HCalls
  <1>2. \A r, a : /\ Alloc(q, b) # Free(r, a) /\ Free(q, b) # Alloc(r, a)
                  /\ Alloc(q, b) = Alloc(r, a) <=> r = q /\ a = b
                  /\ Free(q, b) = Free(r, a) <=> r = q /\ a = b
    BY DEF Alloc, Free
  <1> QED
    BY <1>1, <1>2

\* The step reports call k.
Reports(s, k, x, leaves) ==
    /\ s \in HSteps
    /\ s.do = "report" /\ s.call = k /\ s.extra = x /\ s.leaves = leaves

LEMMA ReportKinds ==
    ASSUME NEW k \in HCalls, NEW x \in BOOLEAN
    PROVE  Reports(Report(k, x), k, x, FALSE) /\ Reports(Destroy(k, x), k, x, TRUE)
  BY Zenon DEF Report, Destroy, HSteps, Reports

\* The step takes the resource for the program and does nothing else.
TakesOnly(s, q, b) ==
    /\ s \in HSteps
    /\ \A r \in Managed, a \in Addr :
        /\ s \notin OwnFrees(r, a) /\ s \notin ExtFrees(r, a)
        /\ s \in Takes(r, a) <=> r = q /\ a = b
        /\ s \in Claims(r, a) <=> r = q /\ a = b

LEMMA AllocKind ==
    ASSUME NEW q \in Resources, NEW b \in Addr
    PROVE  TakesOnly(Report(Alloc(q, b), FALSE), q, b)
  <1> DEFINE c == Alloc(q, b)
             s == Report(c, FALSE)
  <1>1. /\ c \in HCalls
        /\ \A r, a : c # Free(r, a) /\ (c = Alloc(r, a) <=> r = q /\ a = b)
    BY CallKinds
  <1> HIDE DEF c
  <1>2. /\ s \in HSteps /\ s.do = "report" /\ s.call = c /\ s.leaves = FALSE
    BY <1>1, ReportKinds DEF Reports
  <1>3. "report" # "release"
    OBVIOUS
  <1> HIDE DEF s
  <1>4. ASSUME NEW r \in Managed, NEW a \in Addr
        PROVE  /\ s \notin OwnFrees(r, a) /\ s \notin ExtFrees(r, a)
               /\ s \in Takes(r, a) <=> r = q /\ a = b
               /\ s \in Claims(r, a) <=> r = q /\ a = b
    <2>1. c # Free(r, a) /\ (c = Alloc(r, a) <=> r = q /\ a = b)
      BY <1>1
    <2> QED
      BY <2>1, <1>2, <1>3, Zenon DEF OwnFrees, ExtFrees, Takes, Claims
  <1>5. TakesOnly(s, q, b)
    BY <1>2, <1>4 DEF TakesOnly
  <1> QED
    BY <1>5 DEF s, c

LEMMA FreeKind ==
    ASSUME NEW q \in Resources, NEW b \in Addr, NEW x \in BOOLEAN
    PROVE  /\ Report(Free(q, b), x) \in HSteps
           /\ \A r \in Managed, a \in Addr :
                /\ Report(Free(q, b), x) \in OwnFrees(r, a) <=> r = q /\ a = b /\ ~x
                /\ Report(Free(q, b), x) \in ExtFrees(r, a) <=> r = q /\ a = b /\ x
                /\ Report(Free(q, b), x) \notin Takes(r, a)
                /\ Report(Free(q, b), x) \notin Claims(r, a)
           /\ Destroy(Free(q, b), x) \in HSteps
           /\ \A r \in Managed, a \in Addr :
                /\ Destroy(Free(q, b), x) \in OwnFrees(r, a) <=> r = q /\ a = b /\ ~x
                /\ Destroy(Free(q, b), x) \in ExtFrees(r, a) <=> r = q /\ a = b /\ x
                /\ Destroy(Free(q, b), x) \notin Takes(r, a)
                /\ Destroy(Free(q, b), x) \in Claims(r, a) <=> r = q /\ a = b
  <1> DEFINE c == Free(q, b)
             s == Report(c, x)
             d == Destroy(c, x)
  <1>1. /\ c \in HCalls
        /\ \A r, a : c # Alloc(r, a) /\ (c = Free(r, a) <=> r = q /\ a = b)
    BY CallKinds
  <1> HIDE DEF c
  <1>2. /\ s \in HSteps /\ s.do = "report" /\ s.call = c /\ s.leaves = FALSE /\ s.extra = x
        /\ d \in HSteps /\ d.do = "report" /\ d.call = c /\ d.leaves = TRUE /\ d.extra = x
    <2>1. Reports(s, c, x, FALSE) /\ Reports(d, c, x, TRUE)
      BY <1>1, ReportKinds
    <2> HIDE DEF s, d
    <2> QED
      BY <2>1, Zenon DEF Reports
  <1>3. "report" # "release"
    OBVIOUS
  <1> HIDE DEF s, d
  <1>4. ASSUME NEW r \in Managed, NEW a \in Addr
        PROVE  /\ s \in OwnFrees(r, a) <=> r = q /\ a = b /\ ~x
               /\ s \in ExtFrees(r, a) <=> r = q /\ a = b /\ x
               /\ s \notin Takes(r, a)
               /\ s \notin Claims(r, a)
    <2>1. c # Alloc(r, a) /\ (c = Free(r, a) <=> r = q /\ a = b)
      BY <1>1
    <2> QED
      BY <2>1, <1>2, <1>3, Zenon DEF OwnFrees, ExtFrees, Takes, Claims
  <1>5. ASSUME NEW r \in Managed, NEW a \in Addr
        PROVE  /\ d \in OwnFrees(r, a) <=> r = q /\ a = b /\ ~x
               /\ d \in ExtFrees(r, a) <=> r = q /\ a = b /\ x
               /\ d \notin Takes(r, a)
               /\ d \in Claims(r, a) <=> r = q /\ a = b
    <2>1. c # Alloc(r, a) /\ (c = Free(r, a) <=> r = q /\ a = b)
      BY <1>1
    <2> QED
      BY <2>1, <1>2, <1>3, Zenon DEF OwnFrees, ExtFrees, Takes, Claims
  <1> QED
    BY <1>2, <1>4, <1>5, Zenon DEF s, d, c

LEMMA TakesAreClaims ==
    ASSUME NEW r, NEW a
    PROVE  Takes(r, a) \subseteq Claims(r, a)
  BY DEF Takes, Claims

LEMMA PartOfProgram ==
    ASSUME NEW p, NEW S, NEW R, S \subseteq R
    PROVE  Has(p, S) => Has(p, R)
  BY DEF Has

\* What a wrapper has to meet when it starts, for one resource.
StartsWell(p, r, a) ==
    /\ status'[r][a] # status[r][a] => status'[r][a] = "busy"
    /\ status[r][a] = "owned" /\ status'[r][a] = "busy" => Has(p, OwnFrees(r, a))
    /\ Has(p, OwnFrees(r, a)) => status[r][a] = "owned" /\ status'[r][a] = "busy"
    /\ Has(p, ExtFrees(r, a)) =>
        \/ status[r][a] = "early" /\ status'[r][a] = "busy"
        \/ Has(p, OwnFrees(r, a))
    /\ Has(p, Takes(r, a)) =>
        /\ status'[r][a] = "busy"
        /\ status[r][a] \notin {"owned", "early"} =>
            /\ Having(OwnFrees(r, a)) \cup Having(ExtFrees(r, a)) # {} => <<r, a>> \in raced'
            /\ Having(ExtFrees(r, a)) # {} => <<r, a>> \in stolen'
    /\ Has(p, Claims(r, a)) =>
        /\ Having(Claims(r, a)) = {}
        /\ \/ status'[r][a] = "busy"
           \/ r = "qobject" /\ status'[r][a] = "none" /\ Has(p, {Release(a)})

LEMMA HeapBegin ==
    ASSUME HeapInv, NEW t \in Threads, NEW p \in Seq(HSteps), Good(p),
           todo[t] = <<>>, todo' = [todo EXCEPT ![t] = p],
           filter' = filter, enabled' = enabled,
           status' \in [Managed -> [Addr -> Statuses]],
           raced \subseteq raced', stolen \subseteq stolen', stolen' \subseteq raced',
           \A r \in Managed, a \in Addr : StartsWell(p, r, a)
    PROVE  HeapInv'
  <1>1. HeapTypes /\ HeapPrograms
    BY DEF HeapInv
  <1>2. DOMAIN todo = Threads
    BY <1>1 DEF HeapTypes
  <1>3. HeapTypes'
    BY <1>1 DEF HeapTypes
  <1>4. HeapPrograms'
    <2>1. \A u \in Threads : todo'[u] \in Seq(HSteps) /\ Good(todo'[u])
      BY <1>1, <1>2 DEF HeapPrograms
    <2> QED
      BY <2>1 DEF HeapPrograms, Good
  <1>5. \A S : t \notin Having(S)
    <2>1. \A S : ~Has(<<>>, S)
      BY NoSteps
    <2> QED
      BY <2>1 DEF Having
  <1>6. ASSUME NEW S
        PROVE  Having(S)' = IF Has(p, S) THEN Having(S) \cup {t} ELSE Having(S)
    <2>1. Having(S)' = IF Has(p, S) THEN Having(S) \cup {t} ELSE Having(S) \ {t}
      BY <1>2, HavingChanged
    <2> QED
      BY <1>5, <2>1
  <1>7. ASSUME NEW r \in Managed, NEW a \in Addr
        PROVE  KeyClaims(r, a)' /\ KeyClash(r, a)' /\ (enabled => KeyBooks(r, a)')
    <2>1. StartsWell(p, r, a) /\ KeyClaims(r, a) /\ KeyClash(r, a) /\ (enabled => KeyBooks(r, a))
      BY DEF HeapInv
    <2>2. KeyClaims(r, a)'
      <3>1. CASE Has(p, Claims(r, a))
        <4>1. Having(Claims(r, a))' = {t}
          BY <1>6, <2>1, <3>1 DEF StartsWell
        <4>2. Has(p, {Release(a)}) => t \in Having({Release(a)})'
          BY <1>6
        <4> QED
          BY <2>1, <3>1, <4>1, <4>2 DEF StartsWell, KeyClaims
      <3>2. CASE ~Has(p, Claims(r, a))
        <4>1. Having(Claims(r, a))' = Having(Claims(r, a))
          BY <1>6, <3>2
        <4>2. Having({Release(a)}) \subseteq Having({Release(a)})'
          BY <1>6
        <4>3. status'[r][a] = status[r][a] \/ status'[r][a] = "busy"
          BY <2>1 DEF StartsWell
        <4> QED
          BY <2>1, <4>1, <4>2, <4>3 DEF KeyClaims
      <3> QED
        BY <3>1, <3>2
    <2> DEFINE own  == Having(OwnFrees(r, a))
               ext  == Having(ExtFrees(r, a))
               tak  == Having(Takes(r, a))
               who  == Who(r, a)
               mark == Mark(r, a)
               own2  == Having(OwnFrees(r, a))'
               ext2  == Having(ExtFrees(r, a))'
               tak2  == Having(Takes(r, a))'
               who2  == Who(r, a)'
               mark2 == Mark(r, a)'
    <2>3. /\ own2 \in {own, own \cup {t}} /\ (t \in own2 <=> Has(p, OwnFrees(r, a)))
          /\ ext2 \in {ext, ext \cup {t}} /\ (t \in ext2 <=> Has(p, ExtFrees(r, a)))
          /\ tak2 \in {tak, tak \cup {t}} /\ (t \in tak2 <=> Has(p, Takes(r, a)))
          /\ t \notin own /\ t \notin ext /\ t \notin tak
      BY <1>5, <1>6
    <2>4. mark \in 0..3 /\ mark2 \in mark..3
      BY <1>3 DEF Mark, HeapTypes
    <2>5. who2 \in {who, "other"}
      BY <2>1 DEF Who, StartsWell
    <2>6. t \in own2 \/ t \in ext2 \/ t \in tak2 => status'[r][a] = "busy"
      BY <2>1, <2>3 DEF StartsWell
    <2>7. t \in own2 \/ t \in ext2 \/ t \in tak2 => tak = {}
      <3>1. tak \subseteq Having(Claims(r, a))
        BY TakesAreClaims, PartOfProgram DEF Having
      <3>2. CASE t \in tak2
        <4>1. Has(p, Claims(r, a))
          BY <2>3, <3>2, TakesAreClaims, PartOfProgram
        <4> QED
          BY <2>1, <3>1, <4>1 DEF StartsWell
      <3>3. CASE t \in own2 \/ t \in ext2
        <4>1. status[r][a] \in {"owned", "early"}
          BY <2>1, <2>3, <3>3 DEF StartsWell
        <4>2. Having(Claims(r, a)) = {}
          BY <2>1, <4>1 DEF KeyClaims
        <4> QED
          BY <3>1, <4>2
      <3> QED
        BY <3>2, <3>3
    <2>8. status'[r][a] = "busy" => who2 = "other"
      BY DEF Who
    <2>9. /\ t \in own2 => who = "held"
          /\ who = "held" /\ who2 = "other" => t \in own2
          /\ t \in ext2 => who = "early" \/ t \in own2
          /\ t \in tak2 /\ who = "other" => /\ own \cup ext # {} => mark2 >= 2
                                            /\ ext # {} => mark2 = 3
      <3>1. t \in own2 => who = "held"
        BY <2>1, <2>3 DEF StartsWell, Who
      <3>2. who = "held" /\ who2 = "other" => t \in own2
        BY <2>1, <2>3 DEF StartsWell, Who
      <3>3. t \in ext2 => who = "early" \/ t \in own2
        BY <2>1, <2>3 DEF StartsWell, Who
      <3>4. ASSUME t \in tak2, who = "other"
            PROVE  /\ own \cup ext # {} => <<r, a>> \in raced'
                   /\ ext # {} => <<r, a>> \in stolen'
        <4>1. status[r][a] \notin {"owned", "early"}
          BY <3>4 DEF Who
        <4> QED
          BY <2>1, <2>3, <3>4, <4>1 DEF StartsWell
      <3> QED
        BY <3>1, <3>2, <3>3, <3>4 DEF Mark
    <2>10. Clash(own, ext, tak, who, mark)
      BY <2>1 DEF KeyClash
    <2> HIDE DEF own, ext, tak, who, mark, own2, ext2, tak2, who2, mark2
    <2>11. /\ Clash(own2, ext2, tak2, who2, mark2)
           /\ Books(own, ext, who, mark, filter[<<r, a>>]) =>
                Books(own2, ext2, who2, mark2, filter[<<r, a>>])
      <3>1. LedgerStarts(own, ext, tak, who, mark, t, own2, ext2, tak2, who2, mark2)
        BY <2>3, <2>4, <2>5, <2>6, <2>7, <2>8, <2>9 DEF LedgerStarts
      <3> QED
        BY <2>10, <3>1, LedgerBegin
    <2>12. KeyClash(r, a)'
      BY <2>11 DEF KeyClash, own2, ext2, tak2, who2, mark2
    <2>13. KeyBooks(r, a) => KeyBooks(r, a)'
      BY <2>11 DEF KeyBooks, own, ext, who, mark, own2, ext2, who2, mark2
    <2> QED
      BY <2>1, <2>2, <2>12, <2>13
  <1> QED
    BY <1>3, <1>4, <1>7 DEF HeapInv

LEMMA StatusSet ==
    ASSUME NEW S \in [Managed -> [Addr -> Statuses]], NEW q \in Managed, NEW b \in Addr,
           NEW v \in Statuses
    PROVE  /\ [S EXCEPT ![q][b] = v] \in [Managed -> [Addr -> Statuses]]
           /\ \A r \in Managed, a \in Addr :
                [S EXCEPT ![q][b] = v][r][a] = IF r = q /\ a = b THEN v ELSE S[r][a]
  <1> HIDE DEF Managed, Statuses
  <1>1. [S EXCEPT ![q][b] = v] = [S EXCEPT ![q] = [S[q] EXCEPT ![b] = v]]
    OBVIOUS
  <1>2. [S[q] EXCEPT ![b] = v] \in [Addr -> Statuses]
    OBVIOUS
  <1> QED
    BY <1>1, <1>2

LEMMA HeapNames ==
    /\ "memory" \in Managed /\ "qobject" \in Managed /\ "memory" # "qobject"
    /\ "memory" \in Resources /\ "qobject" \in Resources /\ "memtransfer" \in Resources
    /\ "memtransfer" \notin Managed /\ Managed \subseteq Resources
    /\ \A r \in Managed : r = "memory" \/ r = "qobject"
    /\ Statuses = {"none", "busy", "owned", "early"}
  BY DEF Managed, Resources, Statuses

LEMMA FreesAreHad ==
    ASSUME HeapPrograms, NEW t \in Threads, NEW r, NEW a
    PROVE  /\ Frees(t, r, a, FALSE) <=> t \in Having(OwnFrees(r, a))
           /\ Frees(t, r, a, TRUE) <=> t \in Having(ExtFrees(r, a))
  <1>1. \A i \in DOMAIN todo[t] : todo[t][i] \in HSteps
    <2>1. todo[t] \in Seq(HSteps)
      BY DEF HeapPrograms
    <2> QED
      BY <2>1, ElementOfSeq
  <1> QED
    BY <1>1, Zenon DEF Frees, Having, Has, OwnFrees, ExtFrees

LEMMA GivenOut ==
    ASSUME HeapInv, NEW r, NEW a, GiveOut(r, a)
    PROVE  /\ raced \subseteq raced' /\ stolen \subseteq stolen' /\ stolen' \subseteq raced'
           /\ Having(OwnFrees(r, a)) \cup Having(ExtFrees(r, a)) # {} => <<r, a>> \in raced'
           /\ Having(ExtFrees(r, a)) # {} => <<r, a>> \in stolen'
  <1>1. HeapPrograms /\ stolen \subseteq raced
    BY DEF HeapInv, HeapTypes
  <1>2. \A t \in Threads : /\ Frees(t, r, a, FALSE) <=> t \in Having(OwnFrees(r, a))
                           /\ Frees(t, r, a, TRUE) <=> t \in Having(ExtFrees(r, a))
    BY <1>1, FreesAreHad
  <1>3. Having(OwnFrees(r, a)) \subseteq Threads /\ Having(ExtFrees(r, a)) \subseteq Threads
    BY DEF Having
  <1>4. PendingFrees(r, a) = Having(OwnFrees(r, a)) \cup Having(ExtFrees(r, a))
    BY <1>2, <1>3 DEF PendingFrees
  <1>5. (\E t \in Threads : Frees(t, r, a, TRUE)) <=> Having(ExtFrees(r, a)) # {}
    BY <1>2, <1>3
  <1>6. /\ raced' = IF Having(OwnFrees(r, a)) \cup Having(ExtFrees(r, a)) # {}
                    THEN raced \cup {<<r, a>>} ELSE raced
        /\ stolen' = IF Having(ExtFrees(r, a)) # {} THEN stolen \cup {<<r, a>>} ELSE stolen
    BY <1>4, <1>5 DEF GiveOut
  <1> QED
    BY <1>1, <1>6

LEMMA RacesKept ==
    ASSUME HeapInv, KeepRaces
    PROVE  raced \subseteq raced' /\ stolen \subseteq stolen' /\ stolen' \subseteq raced'
  BY DEF HeapInv, HeapTypes, KeepRaces

LEMMA NoClaims ==
    ASSUME HeapInv, NEW a \in Addr, status["memory"][a] # "busy"
    PROVE  /\ Having(Claims("memory", a)) = {}
           /\ status["qobject"][a] # "busy" => Having(Claims("qobject", a)) = {}
  <1>1. KeyClaims("memory", a) /\ KeyClaims("qobject", a)
    BY HeapNames DEF HeapInv
  <1>2. Having(Claims("memory", a)) = {}
    BY <1>1, HeapNames DEF KeyClaims
  <1>3. Having({Release(a)}) \subseteq Having(Claims("memory", a))
    <2>1. {Release(a)} \subseteq Claims("memory", a)
      BY ReleaseKind, HeapNames
    <2> QED
      BY <2>1, PartOfProgram DEF Having
  <1> QED
    BY <1>1, <1>2, <1>3 DEF KeyClaims

LEMMA BeginFacts ==
    ASSUME NEW t, NEW p, Begin(t, p)
    PROVE  /\ enabled /\ todo[t] = <<>> /\ todo' = [todo EXCEPT ![t] = p]
           /\ filter' = filter /\ enabled' = enabled
  BY DEF Begin, Idle

LEMMA MallocStep ==
    ASSUME HeapInv, NEW t \in Threads, NEW a \in Addr, Malloc(t, a)
    PROVE  HeapInv'
  <1> DEFINE s == Report(Alloc("memory", a), FALSE)
             p == <<s>>
  <1> HIDE DEF s
  <1>1. /\ status \in [Managed -> [Addr -> Statuses]] /\ status["memory"][a] = "none"
        /\ status' = [status EXCEPT !["memory"][a] = "busy"]
        /\ Begin(t, p) /\ GiveOut("memory", a)
    BY DEF Malloc, HeapInv, HeapTypes, s
  <1>2. /\ status' \in [Managed -> [Addr -> Statuses]]
        /\ \A r \in Managed, b \in Addr :
             status'[r][b] = IF r = "memory" /\ b = a THEN "busy" ELSE status[r][b]
    BY <1>1, HeapNames, StatusSet
  <1>3. /\ s \in HSteps
        /\ \A r \in Managed, b \in Addr :
             /\ s \notin OwnFrees(r, b) /\ s \notin ExtFrees(r, b)
             /\ s \in Takes(r, b) <=> r = "memory" /\ b = a
             /\ s \in Claims(r, b) <=> r = "memory" /\ b = a
    <2>1. TakesOnly(s, "memory", a)
      BY AllocKind, HeapNames DEF s
    <2> QED
      BY <2>1 DEF TakesOnly
  <1>4. p \in Seq(HSteps)
    BY <1>3
  <1>5. Good(p)
    <2>1. \A S, R : NoneAfter(p, S, R)
      BY OneStep
    <2> QED
      BY <2>1 DEF Good
  <1>6. \A S : Has(p, S) <=> s \in S
    BY OneStep
  <1> HIDE DEF p
  <1>7. Having(Claims("memory", a)) = {}
    BY <1>1, NoClaims
  <1>8. ASSUME NEW r \in Managed, NEW b \in Addr
        PROVE  StartsWell(p, r, b)
    BY <1>1, <1>2, <1>3, <1>6, <1>7, GivenOut DEF StartsWell
  <1> QED
    BY <1>1, <1>2, <1>4, <1>5, <1>8, BeginFacts, GivenOut, HeapBegin

LEMMA FreeBlockStep ==
    ASSUME HeapInv, NEW t \in Threads, NEW a \in Addr, FreeBlock(t, a)
    PROVE  HeapInv'
  <1> DEFINE x == Extra("memory", a)
             s1_ == Release(a)
             s2_ == Report(Free("memory", a), x)
             p == <<s1_, s2_>>
  <1>1. /\ status \in [Managed -> [Addr -> Statuses]]
        /\ status["memory"][a] \in {"owned", "early"} /\ status["qobject"][a] = "none"
        /\ status' = [status EXCEPT !["memory"][a] = "busy"]
        /\ Begin(t, p) /\ KeepRaces
    BY DEF FreeBlock, Disposable, HeapInv, HeapTypes
  <1>2. x \in BOOLEAN /\ (x <=> status["memory"][a] = "early")
    BY DEF Extra
  <1> HIDE DEF x, s1_, s2_
  <1>3. /\ status' \in [Managed -> [Addr -> Statuses]]
        /\ \A r \in Managed, b \in Addr :
             status'[r][b] = IF r = "memory" /\ b = a THEN "busy" ELSE status[r][b]
    BY <1>1, HeapNames, StatusSet
  <1>4. /\ s1_ \in HSteps
        /\ \A r \in Managed, b \in Addr :
             /\ s1_ \notin OwnFrees(r, b) /\ s1_ \notin ExtFrees(r, b)
             /\ s1_ \notin Takes(r, b) /\ (s1_ \in Claims(r, b) <=> b = a)
    BY ReleaseKind DEF s1_
  <1>5. /\ s2_ \in HSteps
        /\ \A r \in Managed, b \in Addr :
             /\ s2_ \in OwnFrees(r, b) <=> r = "memory" /\ b = a /\ ~x
             /\ s2_ \in ExtFrees(r, b) <=> r = "memory" /\ b = a /\ x
             /\ s2_ \notin Takes(r, b) /\ s2_ \notin Claims(r, b)
    BY <1>2, FreeKind, HeapNames DEF s2_
  <1>6. p \in Seq(HSteps)
    BY <1>4, <1>5
  <1>7. \A S, R : (Has(p, S) <=> s1_ \in S \/ s2_ \in S)
                    /\ (NoneAfter(p, S, R) <=> (s1_ \in S => s2_ \notin R))
    BY TwoSteps
  <1> HIDE DEF p
  <1>8. Good(p)
    <2> SUFFICES ASSUME NEW r \in Managed, NEW b \in Addr
                 PROVE  /\ NoneAfter(p, OwnFrees(r, b) \cup ExtFrees(r, b), OwnFrees(r, b))
                        /\ NoneAfter(p, Takes(r, b), OwnFrees(r, b) \cup ExtFrees(r, b))
                        /\ NoneAfter(p, Claims(r, b), Claims(r, b))
      BY DEF Good
    <2>1. NoneAfter(p, OwnFrees(r, b) \cup ExtFrees(r, b), OwnFrees(r, b))
      BY <1>4, <1>7
    <2>2. NoneAfter(p, Takes(r, b), OwnFrees(r, b) \cup ExtFrees(r, b))
      BY <1>4, <1>7
    <2>3. NoneAfter(p, Claims(r, b), Claims(r, b))
      BY <1>5, <1>7
    <2> QED
      BY <2>1, <2>2, <2>3
  <1>9. Having(Claims("memory", a)) = {} /\ Having(Claims("qobject", a)) = {}
    BY <1>1, NoClaims
  <1>10. ASSUME NEW r \in Managed, NEW b \in Addr
         PROVE  StartsWell(p, r, b)
    <2>1. /\ Has(p, OwnFrees(r, b)) <=> r = "memory" /\ b = a /\ ~x
          /\ Has(p, ExtFrees(r, b)) <=> r = "memory" /\ b = a /\ x
          /\ ~Has(p, Takes(r, b)) /\ (Has(p, Claims(r, b)) <=> b = a)
          /\ Has(p, {Release(a)})
      BY <1>4, <1>5, <1>7 DEF s1_
    <2>2. CASE b # a
      BY <1>3, <2>1, <2>2 DEF StartsWell
    <2>3. CASE b = a /\ r = "memory"
      BY <1>1, <1>2, <1>3, <1>9, <2>1, <2>3 DEF StartsWell
    <2>4. CASE b = a /\ r = "qobject"
      BY <1>1, <1>3, <1>9, <2>1, <2>4, HeapNames DEF StartsWell
    <2> QED
      BY <2>2, <2>3, <2>4, HeapNames
  <1> QED
    BY <1>1, <1>3, <1>6, <1>8, <1>10, BeginFacts, RacesKept, HeapBegin

LEMMA ConstructStep ==
    ASSUME HeapInv, NEW t \in Threads, NEW a \in Addr, Construct(t, a)
    PROVE  HeapInv'
  <1> DEFINE s == Report(Alloc("qobject", a), FALSE)
             p == <<s>>
  <1> HIDE DEF s
  <1>1. /\ status \in [Managed -> [Addr -> Statuses]]
        /\ status["memory"][a] \in {"owned", "early"} /\ status["qobject"][a] = "none"
        /\ status' = [status EXCEPT !["qobject"][a] = "busy"]
        /\ Begin(t, p) /\ GiveOut("qobject", a)
    BY DEF Construct, Disposable, HeapInv, HeapTypes, s
  <1>2. /\ status' \in [Managed -> [Addr -> Statuses]]
        /\ \A r \in Managed, b \in Addr :
             status'[r][b] = IF r = "qobject" /\ b = a THEN "busy" ELSE status[r][b]
    BY <1>1, HeapNames, StatusSet
  <1>3. /\ s \in HSteps
        /\ \A r \in Managed, b \in Addr :
             /\ s \notin OwnFrees(r, b) /\ s \notin ExtFrees(r, b)
             /\ s \in Takes(r, b) <=> r = "qobject" /\ b = a
             /\ s \in Claims(r, b) <=> r = "qobject" /\ b = a
    <2>1. TakesOnly(s, "qobject", a)
      BY AllocKind, HeapNames DEF s
    <2> QED
      BY <2>1 DEF TakesOnly
  <1>4. p \in Seq(HSteps)
    BY <1>3
  <1>5. Good(p)
    <2>1. \A S, R : NoneAfter(p, S, R)
      BY OneStep
    <2> QED
      BY <2>1 DEF Good
  <1>6. \A S : Has(p, S) <=> s \in S
    BY OneStep
  <1> HIDE DEF p
  <1>7. Having(Claims("qobject", a)) = {}
    BY <1>1, NoClaims
  <1>8. ASSUME NEW r \in Managed, NEW b \in Addr
        PROVE  StartsWell(p, r, b)
    BY <1>1, <1>2, <1>3, <1>6, <1>7, GivenOut DEF StartsWell
  <1> QED
    BY <1>1, <1>2, <1>4, <1>5, <1>8, BeginFacts, GivenOut, HeapBegin

LEMMA TransferStep ==
    ASSUME HeapInv, NEW t \in Threads, NEW a \in Addr, Transfer(t, a)
    PROVE  HeapInv'
  <1> DEFINE s == Report(Alloc("memtransfer", a), FALSE)
             p == <<s>>
  <1> HIDE DEF s
  <1>1. /\ status \in [Managed -> [Addr -> Statuses]] /\ status' = status
        /\ Begin(t, p) /\ KeepRaces
    BY DEF Transfer, HeapInv, HeapTypes, s
  <1>2. /\ s \in HSteps
        /\ \A r \in Managed, b \in Addr :
             /\ s \notin OwnFrees(r, b) /\ s \notin ExtFrees(r, b)
             /\ s \notin Takes(r, b) /\ s \notin Claims(r, b)
    <2>1. TakesOnly(s, "memtransfer", a)
      BY AllocKind, HeapNames DEF s
    <2> QED
      BY <2>1, HeapNames DEF TakesOnly
  <1>3. p \in Seq(HSteps)
    BY <1>2
  <1>4. Good(p)
    <2>1. \A S, R : NoneAfter(p, S, R)
      BY OneStep
    <2> QED
      BY <2>1 DEF Good
  <1>5. \A S : Has(p, S) <=> s \in S
    BY OneStep
  <1> HIDE DEF p
  <1>6. ASSUME NEW r \in Managed, NEW b \in Addr
        PROVE  StartsWell(p, r, b)
    BY <1>1, <1>2, <1>5 DEF StartsWell
  <1> QED
    BY <1>1, <1>3, <1>4, <1>6, BeginFacts, RacesKept, HeapBegin

LEMMA DestructBaseStep ==
    ASSUME HeapInv, NEW t \in Threads, NEW a \in Addr, DestructBase(t, a)
    PROVE  HeapInv'
  <1> DEFINE x == Extra("qobject", a)
             s == Destroy(Free("qobject", a), x)
             p == <<s>>
  <1>1. /\ status \in [Managed -> [Addr -> Statuses]]
        /\ status["memory"][a] \in {"owned", "early"}
        /\ status["qobject"][a] \in {"owned", "early"}
        /\ status' = [status EXCEPT !["qobject"][a] = "busy"]
        /\ Begin(t, p) /\ KeepRaces
    BY DEF DestructBase, Destructible, HeapInv, HeapTypes
  <1>2. x \in BOOLEAN /\ (x <=> status["qobject"][a] = "early")
    BY DEF Extra
  <1> HIDE DEF x, s
  <1>3. /\ status' \in [Managed -> [Addr -> Statuses]]
        /\ \A r \in Managed, b \in Addr :
             status'[r][b] = IF r = "qobject" /\ b = a THEN "busy" ELSE status[r][b]
    BY <1>1, HeapNames, StatusSet
  <1>4. /\ s \in HSteps
        /\ \A r \in Managed, b \in Addr :
             /\ s \in OwnFrees(r, b) <=> r = "qobject" /\ b = a /\ ~x
             /\ s \in ExtFrees(r, b) <=> r = "qobject" /\ b = a /\ x
             /\ s \notin Takes(r, b) /\ (s \in Claims(r, b) <=> r = "qobject" /\ b = a)
    BY <1>2, FreeKind, HeapNames DEF s
  <1>5. p \in Seq(HSteps)
    BY <1>4
  <1>6. Good(p)
    <2>1. \A S, R : NoneAfter(p, S, R)
      BY OneStep
    <2> QED
      BY <2>1 DEF Good
  <1>7. \A S : Has(p, S) <=> s \in S
    BY OneStep
  <1> HIDE DEF p
  <1>8. Having(Claims("qobject", a)) = {}
    BY <1>1, NoClaims
  <1>9. ASSUME NEW r \in Managed, NEW b \in Addr
        PROVE  StartsWell(p, r, b)
    <2>1. CASE b = a /\ r = "qobject"
      BY <1>1, <1>2, <1>3, <1>4, <1>7, <1>8, <2>1 DEF StartsWell
    <2>2. CASE ~(b = a /\ r = "qobject")
      BY <1>3, <1>4, <1>7, <2>2 DEF StartsWell
    <2> QED
      BY <2>1, <2>2
  <1> QED
    BY <1>1, <1>3, <1>5, <1>6, <1>9, BeginFacts, RacesKept, HeapBegin

LEMMA ReallocInPlace ==
    ASSUME HeapInv, NEW t \in Threads, NEW a \in Addr, Realloc(t, a, a)
    PROVE  HeapInv'
  <1> DEFINE x == Extra("memory", a)
             s1_ == Report(Free("memory", a), x)
             s2_ == Report(Alloc("memory", a), FALSE)
             p == <<s1_, s2_>>
  <1>1. /\ status \in [Managed -> [Addr -> Statuses]]
        /\ status["memory"][a] \in {"owned", "early"} /\ status["qobject"][a] = "none"
        /\ status' = [status EXCEPT !["memory"][a] = "busy"]
        /\ Begin(t, p) /\ KeepRaces
    BY DEF Realloc, Disposable, HeapInv, HeapTypes
  <1>2. x \in BOOLEAN /\ (x <=> status["memory"][a] = "early")
    BY DEF Extra
  <1> HIDE DEF x, s1_, s2_
  <1>3. /\ status' \in [Managed -> [Addr -> Statuses]]
        /\ \A r \in Managed, b \in Addr :
             status'[r][b] = IF r = "memory" /\ b = a THEN "busy" ELSE status[r][b]
    BY <1>1, HeapNames, StatusSet
  <1>4. /\ s1_ \in HSteps
        /\ \A r \in Managed, b \in Addr :
             /\ s1_ \in OwnFrees(r, b) <=> r = "memory" /\ b = a /\ ~x
             /\ s1_ \in ExtFrees(r, b) <=> r = "memory" /\ b = a /\ x
             /\ s1_ \notin Takes(r, b) /\ s1_ \notin Claims(r, b)
    BY <1>2, FreeKind, HeapNames DEF s1_
  <1>5. /\ s2_ \in HSteps
        /\ \A r \in Managed, b \in Addr :
             /\ s2_ \notin OwnFrees(r, b) /\ s2_ \notin ExtFrees(r, b)
             /\ s2_ \in Takes(r, b) <=> r = "memory" /\ b = a
             /\ s2_ \in Claims(r, b) <=> r = "memory" /\ b = a
    <2>1. TakesOnly(s2_, "memory", a)
      BY AllocKind, HeapNames DEF s2_
    <2> QED
      BY <2>1 DEF TakesOnly
  <1>6. p \in Seq(HSteps)
    BY <1>4, <1>5
  <1>7. \A S, R : (Has(p, S) <=> s1_ \in S \/ s2_ \in S)
                    /\ (NoneAfter(p, S, R) <=> (s1_ \in S => s2_ \notin R))
    BY TwoSteps
  <1> HIDE DEF p
  <1>8. Good(p)
    <2> SUFFICES ASSUME NEW r \in Managed, NEW b \in Addr
                 PROVE  /\ NoneAfter(p, OwnFrees(r, b) \cup ExtFrees(r, b), OwnFrees(r, b))
                        /\ NoneAfter(p, Takes(r, b), OwnFrees(r, b) \cup ExtFrees(r, b))
                        /\ NoneAfter(p, Claims(r, b), Claims(r, b))
      BY DEF Good
    <2>1. NoneAfter(p, OwnFrees(r, b) \cup ExtFrees(r, b), OwnFrees(r, b))
      BY <1>5, <1>7
    <2>2. NoneAfter(p, Takes(r, b), OwnFrees(r, b) \cup ExtFrees(r, b))
      BY <1>4, <1>7
    <2>3. NoneAfter(p, Claims(r, b), Claims(r, b))
      BY <1>4, <1>7
    <2> QED
      BY <2>1, <2>2, <2>3
  <1>9. Having(Claims("memory", a)) = {}
    BY <1>1, NoClaims
  <1>10. ASSUME NEW r \in Managed, NEW b \in Addr
         PROVE  StartsWell(p, r, b)
    <2>1. /\ Has(p, OwnFrees(r, b)) <=> r = "memory" /\ b = a /\ ~x
          /\ Has(p, ExtFrees(r, b)) <=> r = "memory" /\ b = a /\ x
          /\ Has(p, Takes(r, b)) <=> r = "memory" /\ b = a
          /\ Has(p, Claims(r, b)) <=> r = "memory" /\ b = a
      BY <1>4, <1>5, <1>7
    <2>2. CASE b = a /\ r = "memory"
      BY <1>1, <1>2, <1>3, <1>9, <2>1, <2>2 DEF StartsWell
    <2>3. CASE ~(b = a /\ r = "memory")
      BY <1>3, <2>1, <2>3 DEF StartsWell
    <2> QED
      BY <2>2, <2>3
  <1> QED
    BY <1>1, <1>3, <1>6, <1>8, <1>10, BeginFacts, RacesKept, HeapBegin

LEMMA ReallocMoved ==
    ASSUME HeapInv, NEW t \in Threads, NEW a \in Addr, NEW q \in Addr, a # q, Realloc(t, a, q)
    PROVE  HeapInv'
  <1> DEFINE x == Extra("memory", a)
             s1_ == Release(a)
             s2_ == Report(Free("memory", a), x)
             s3_ == Report(Alloc("memory", q), FALSE)
             p == <<s1_, s2_, s3_>>
             S1 == [status EXCEPT !["memory"][a] = "busy"]
  <1>1. /\ status \in [Managed -> [Addr -> Statuses]]
        /\ status["memory"][a] \in {"owned", "early"} /\ status["qobject"][a] = "none"
        /\ status["memory"][q] = "none"
        /\ status' = [status EXCEPT !["memory"][a] = "busy", !["memory"][q] = "busy"]
        /\ Begin(t, p) /\ GiveOut("memory", q)
    BY DEF Realloc, Disposable, HeapInv, HeapTypes
  <1>2. x \in BOOLEAN /\ (x <=> status["memory"][a] = "early")
    BY DEF Extra
  <1> HIDE DEF x, s1_, s2_, s3_, S1
  <1>3. /\ status' \in [Managed -> [Addr -> Statuses]]
        /\ \A r \in Managed, b \in Addr :
             status'[r][b] = IF r = "memory" /\ b \in {a, q} THEN "busy" ELSE status[r][b]
    <2>1. status' = [S1 EXCEPT !["memory"][q] = "busy"]
      BY <1>1 DEF S1
    <2>2. /\ S1 \in [Managed -> [Addr -> Statuses]]
          /\ \A r \in Managed, b \in Addr :
                S1[r][b] = IF r = "memory" /\ b = a THEN "busy" ELSE status[r][b]
      BY <1>1, HeapNames, StatusSet DEF S1
    <2>3. /\ [S1 EXCEPT !["memory"][q] = "busy"] \in [Managed -> [Addr -> Statuses]]
          /\ \A r \in Managed, b \in Addr :
                [S1 EXCEPT !["memory"][q] = "busy"][r][b] =
                    IF r = "memory" /\ b = q THEN "busy" ELSE S1[r][b]
      BY <2>2, HeapNames, StatusSet
    <2> QED
      BY <2>1, <2>2, <2>3
  <1>4. /\ s1_ \in HSteps
        /\ \A r \in Managed, b \in Addr :
             /\ s1_ \notin OwnFrees(r, b) /\ s1_ \notin ExtFrees(r, b)
             /\ s1_ \notin Takes(r, b) /\ (s1_ \in Claims(r, b) <=> b = a)
    BY ReleaseKind DEF s1_
  <1>5. /\ s2_ \in HSteps
        /\ \A r \in Managed, b \in Addr :
             /\ s2_ \in OwnFrees(r, b) <=> r = "memory" /\ b = a /\ ~x
             /\ s2_ \in ExtFrees(r, b) <=> r = "memory" /\ b = a /\ x
             /\ s2_ \notin Takes(r, b) /\ s2_ \notin Claims(r, b)
    BY <1>2, FreeKind, HeapNames DEF s2_
  <1>6. /\ s3_ \in HSteps
        /\ \A r \in Managed, b \in Addr :
             /\ s3_ \notin OwnFrees(r, b) /\ s3_ \notin ExtFrees(r, b)
             /\ s3_ \in Takes(r, b) <=> r = "memory" /\ b = q
             /\ s3_ \in Claims(r, b) <=> r = "memory" /\ b = q
    <2>1. TakesOnly(s3_, "memory", q)
      BY AllocKind, HeapNames DEF s3_
    <2> QED
      BY <2>1 DEF TakesOnly
  <1>7. p \in Seq(HSteps)
    BY <1>4, <1>5, <1>6
  <1>8. \A S, R : /\ Has(p, S) <=> s1_ \in S \/ s2_ \in S \/ s3_ \in S
                  /\ NoneAfter(p, S, R) <=> /\ s1_ \in S => s2_ \notin R /\ s3_ \notin R
                                            /\ s2_ \in S => s3_ \notin R
    BY ThreeSteps
  <1> HIDE DEF p
  <1>9. Good(p)
    <2> SUFFICES ASSUME NEW r \in Managed, NEW b \in Addr
                 PROVE  /\ NoneAfter(p, OwnFrees(r, b) \cup ExtFrees(r, b), OwnFrees(r, b))
                        /\ NoneAfter(p, Takes(r, b), OwnFrees(r, b) \cup ExtFrees(r, b))
                        /\ NoneAfter(p, Claims(r, b), Claims(r, b))
      BY DEF Good
    <2>1. NoneAfter(p, OwnFrees(r, b) \cup ExtFrees(r, b), OwnFrees(r, b))
      BY <1>4, <1>6, <1>8
    <2>2. NoneAfter(p, Takes(r, b), OwnFrees(r, b) \cup ExtFrees(r, b))
      BY <1>4, <1>5, <1>8
    <2>3. NoneAfter(p, Claims(r, b), Claims(r, b))
      BY <1>1, <1>4, <1>5, <1>6, <1>8
    <2> QED
      BY <2>1, <2>2, <2>3
  <1>10. /\ Having(Claims("memory", a)) = {} /\ Having(Claims("qobject", a)) = {}
         /\ Having(Claims("memory", q)) = {}
    BY <1>1, NoClaims
  <1>11. ASSUME NEW r \in Managed, NEW b \in Addr
         PROVE  StartsWell(p, r, b)
    <2>1. /\ Has(p, OwnFrees(r, b)) <=> r = "memory" /\ b = a /\ ~x
          /\ Has(p, ExtFrees(r, b)) <=> r = "memory" /\ b = a /\ x
          /\ Has(p, Takes(r, b)) <=> r = "memory" /\ b = q
          /\ Has(p, Claims(r, b)) <=> b = a \/ (r = "memory" /\ b = q)
      BY <1>4, <1>5, <1>6, <1>8
    <2> Has(p, {Release(a)})
      BY <1>8 DEF s1_
    <2>2. CASE b = a /\ r = "memory"
      BY <1>1, <1>2, <1>3, <1>10, <2>1, <2>2 DEF StartsWell
    <2>3. CASE b = a /\ r = "qobject"
      BY <1>1, <1>3, <1>10, <2>1, <2>3, HeapNames DEF StartsWell
    <2>4. CASE b = q /\ r = "memory"
      BY <1>1, <1>3, <1>10, <2>1, <2>4, GivenOut DEF StartsWell
    <2>5. CASE b # a /\ ~(b = q /\ r = "memory")
      BY <1>3, <2>1, <2>5 DEF StartsWell
    <2> QED
      BY <2>2, <2>3, <2>4, <2>5, HeapNames
  <1> QED
    BY <1>1, <1>3, <1>7, <1>9, <1>11, BeginFacts, GivenOut, HeapBegin

LEMMA ReallocStep ==
    ASSUME HeapInv, NEW t \in Threads, NEW a \in Addr, NEW q \in Addr, Realloc(t, a, q)
    PROVE  HeapInv'
  BY ReallocInPlace, ReallocMoved

Joins(x, y, z, w) ==
    /\ <<x, y>> \o <<z>> = <<x, y, z>>
    /\ <<x>> \o <<y, z>> \o <<w>> = <<x, y, z, w>>

LEMMA Joined ==
    ASSUME NEW x, NEW y, NEW z, NEW w
    PROVE  Joins(x, y, z, w)
  <1> DEFINE S == {x, y, z, w}
  <1>1. /\ <<x>> \in Seq(S) /\ <<z>> \in Seq(S) /\ <<w>> \in Seq(S)
        /\ <<x, y>> \in Seq(S) /\ <<y, z>> \in Seq(S)
        /\ <<x, y, z>> \in Seq(S) /\ <<x, y, z, w>> \in Seq(S)
    OBVIOUS
  <1> HIDE DEF S
  <1>2. <<x, y>> \o <<z>> = <<x, y, z>>
    <2>1. /\ <<x, y>> \o <<z>> \in Seq(S) /\ Len(<<x, y>> \o <<z>>) = 3
          /\ \A i \in 1..3 : (<<x, y>> \o <<z>>)[i] = <<x, y, z>>[i]
      BY <1>1, ConcatProperties
    <2> QED
      BY <1>1, <2>1, SeqEqual
  <1>3. <<x>> \o <<y, z>> = <<x, y, z>>
    <2>1. /\ <<x>> \o <<y, z>> \in Seq(S) /\ Len(<<x>> \o <<y, z>>) = 3
          /\ \A i \in 1..3 : (<<x>> \o <<y, z>>)[i] = <<x, y, z>>[i]
      BY <1>1, ConcatProperties
    <2> QED
      BY <1>1, <2>1, SeqEqual
  <1>4. <<x, y, z>> \o <<w>> = <<x, y, z, w>>
    <2>1. /\ <<x, y, z>> \o <<w>> \in Seq(S) /\ Len(<<x, y, z>> \o <<w>>) = 4
          /\ \A i \in 1..4 : (<<x, y, z>> \o <<w>>)[i] = <<x, y, z, w>>[i]
      BY <1>1, ConcatProperties
    <2> QED
      BY <1>1, <2>1, SeqEqual
  <1> QED
    BY <1>2, <1>3, <1>4 DEF Joins

LEMMA DestructFacts ==
    ASSUME HeapInv, NEW t \in Threads, NEW a \in Addr, DestructDeleting(t, a)
    PROVE  /\ status["memory"][a] \in {"owned", "early"}
           /\ status["qobject"][a] \in {"owned", "early"}
           /\ status' \in [Managed -> [Addr -> Statuses]]
           /\ \A r \in Managed, b \in Addr :
                status'[r][b] = IF b = a THEN "busy" ELSE status[r][b]
           /\ Having(Claims("memory", a)) = {} /\ Having(Claims("qobject", a)) = {}
           /\ KeepRaces
  <1> DEFINE S1 == [status EXCEPT !["qobject"][a] = "busy"]
  <1>1. /\ status \in [Managed -> [Addr -> Statuses]]
        /\ status["memory"][a] \in {"owned", "early"}
        /\ status["qobject"][a] \in {"owned", "early"}
        /\ status' = [status EXCEPT !["qobject"][a] = "busy", !["memory"][a] = "busy"]
        /\ KeepRaces
    BY DEF DestructDeleting, Destructible, HeapInv, HeapTypes
  <1> HIDE DEF S1
  <1>2. /\ status' \in [Managed -> [Addr -> Statuses]]
        /\ \A r \in Managed, b \in Addr :
             status'[r][b] = IF b = a THEN "busy" ELSE status[r][b]
    <2>1. status' = [S1 EXCEPT !["memory"][a] = "busy"]
      BY <1>1 DEF S1
    <2>2. /\ S1 \in [Managed -> [Addr -> Statuses]]
          /\ \A r \in Managed, b \in Addr :
                S1[r][b] = IF r = "qobject" /\ b = a THEN "busy" ELSE status[r][b]
      BY <1>1, HeapNames, StatusSet DEF S1
    <2>3. /\ [S1 EXCEPT !["memory"][a] = "busy"] \in [Managed -> [Addr -> Statuses]]
          /\ \A r \in Managed, b \in Addr :
                [S1 EXCEPT !["memory"][a] = "busy"][r][b] =
                    IF r = "memory" /\ b = a THEN "busy" ELSE S1[r][b]
      BY <2>2, HeapNames, StatusSet
    <2> QED
      BY <2>1, <2>2, <2>3, HeapNames
  <1>3. Having(Claims("memory", a)) = {} /\ Having(Claims("qobject", a)) = {}
    BY <1>1, NoClaims
  <1> QED
    BY <1>1, <1>2, <1>3

LEMMA DestructPlain ==
    ASSUME HeapInv, NEW t \in Threads, NEW a \in Addr, DestructDeleting(t, a), ~Interposed
    PROVE  HeapInv'
  <1> DEFINE x == Extra("memory", a)
             y == Extra("qobject", a)
             s1_ == Release(a)
             s2_ == Report(Free("memory", a), x)
             s3_ == Report(Free("qobject", a), y)
             p == <<s1_, s2_, s3_>>
  <1>1. Begin(t, p)
    <2>1. Begin(t, <<s1_, s2_>> \o <<s3_>>)
      BY DEF DestructDeleting
    <2> HIDE DEF s1_, s2_, s3_
    <2>2. Joins(s1_, s2_, s3_, s1_)
      BY Joined
    <2>3. <<s1_, s2_>> \o <<s3_>> = p
      BY <2>2 DEF Joins
    <2> QED
      BY <2>1, <2>3
  <1>2. /\ x \in BOOLEAN /\ (x <=> status["memory"][a] = "early")
        /\ y \in BOOLEAN /\ (y <=> status["qobject"][a] = "early")
    BY DEF Extra
  <1> HIDE DEF x, y, s1_, s2_, s3_
  <1>3. /\ s1_ \in HSteps
        /\ \A r \in Managed, b \in Addr :
             /\ s1_ \notin OwnFrees(r, b) /\ s1_ \notin ExtFrees(r, b)
             /\ s1_ \notin Takes(r, b) /\ (s1_ \in Claims(r, b) <=> b = a)
    BY ReleaseKind DEF s1_
  <1>4. /\ s2_ \in HSteps
        /\ \A r \in Managed, b \in Addr :
             /\ s2_ \in OwnFrees(r, b) <=> r = "memory" /\ b = a /\ ~x
             /\ s2_ \in ExtFrees(r, b) <=> r = "memory" /\ b = a /\ x
             /\ s2_ \notin Takes(r, b) /\ s2_ \notin Claims(r, b)
    BY <1>2, FreeKind, HeapNames DEF s2_
  <1>5. /\ s3_ \in HSteps
        /\ \A r \in Managed, b \in Addr :
             /\ s3_ \in OwnFrees(r, b) <=> r = "qobject" /\ b = a /\ ~y
             /\ s3_ \in ExtFrees(r, b) <=> r = "qobject" /\ b = a /\ y
             /\ s3_ \notin Takes(r, b) /\ s3_ \notin Claims(r, b)
    BY <1>2, FreeKind, HeapNames DEF s3_
  <1>6. p \in Seq(HSteps)
    BY <1>3, <1>4, <1>5
  <1>7. \A S, R : /\ Has(p, S) <=> s1_ \in S \/ s2_ \in S \/ s3_ \in S
                  /\ NoneAfter(p, S, R) <=> /\ s1_ \in S => s2_ \notin R /\ s3_ \notin R
                                            /\ s2_ \in S => s3_ \notin R
    BY ThreeSteps
  <1> HIDE DEF p
  <1>8. Good(p)
    <2> SUFFICES ASSUME NEW r \in Managed, NEW b \in Addr
                 PROVE  /\ NoneAfter(p, OwnFrees(r, b) \cup ExtFrees(r, b), OwnFrees(r, b))
                        /\ NoneAfter(p, Takes(r, b), OwnFrees(r, b) \cup ExtFrees(r, b))
                        /\ NoneAfter(p, Claims(r, b), Claims(r, b))
      BY DEF Good
    <2>1. NoneAfter(p, OwnFrees(r, b) \cup ExtFrees(r, b), OwnFrees(r, b))
      BY <1>3, <1>4, <1>5, <1>7, HeapNames
    <2>2. NoneAfter(p, Takes(r, b), OwnFrees(r, b) \cup ExtFrees(r, b))
      BY <1>3, <1>4, <1>7
    <2>3. NoneAfter(p, Claims(r, b), Claims(r, b))
      BY <1>4, <1>5, <1>7
    <2> QED
      BY <2>1, <2>2, <2>3
  <1>9. ASSUME NEW r \in Managed, NEW b \in Addr
        PROVE  StartsWell(p, r, b)
    <2>1. /\ Has(p, OwnFrees(r, b)) <=> b = a /\ ((r = "memory" /\ ~x) \/ (r = "qobject" /\ ~y))
          /\ Has(p, ExtFrees(r, b)) <=> b = a /\ ((r = "memory" /\ x) \/ (r = "qobject" /\ y))
          /\ ~Has(p, Takes(r, b)) /\ (Has(p, Claims(r, b)) <=> b = a)
      BY <1>3, <1>4, <1>5, <1>7
    <2>2. CASE b = a /\ r = "memory"
      BY <1>2, <2>1, <2>2, DestructFacts, HeapNames DEF StartsWell
    <2>3. CASE b = a /\ r = "qobject"
      BY <1>2, <2>1, <2>3, DestructFacts, HeapNames DEF StartsWell
    <2>4. CASE b # a
      BY <2>1, <2>4, DestructFacts DEF StartsWell
    <2> QED
      BY <2>2, <2>3, <2>4, HeapNames
  <1> QED
    BY <1>1, <1>6, <1>8, <1>9, DestructFacts, BeginFacts, RacesKept, HeapBegin

LEMMA DestructTwice ==
    ASSUME HeapInv, NEW t \in Threads, NEW a \in Addr, DestructDeleting(t, a), Interposed
    PROVE  HeapInv'
  <1> DEFINE x == Extra("memory", a)
             y == Extra("qobject", a)
             s0_ == Report(Free("qobject", a), y)
             s1_ == Release(a)
             s2_ == Report(Free("memory", a), x)
             z == TRUE
             s3_ == Report(Free("qobject", a), z)
             p == <<s0_, s1_, s2_, s3_>>
  <1>1. Begin(t, p)
    <2>1. Begin(t, <<s0_>> \o <<s1_, s2_>> \o <<s3_>>)
      BY DEF DestructDeleting
    <2> HIDE DEF s0_, s1_, s2_, s3_
    <2>2. Joins(s0_, s1_, s2_, s3_)
      BY Joined
    <2>3. <<s0_>> \o <<s1_, s2_>> \o <<s3_>> = p
      BY <2>2 DEF Joins
    <2> QED
      BY <2>1, <2>3
  <1>2. /\ x \in BOOLEAN /\ (x <=> status["memory"][a] = "early")
        /\ y \in BOOLEAN /\ (y <=> status["qobject"][a] = "early")
    BY DEF Extra
  <1>15. z \in BOOLEAN
    OBVIOUS
  <1>16. z <=> TRUE
    OBVIOUS
  <1> HIDE DEF x, y, z, s0_, s1_, s2_, s3_
  <1>3. /\ s1_ \in HSteps
        /\ \A r \in Managed, b \in Addr :
             /\ s1_ \notin OwnFrees(r, b) /\ s1_ \notin ExtFrees(r, b)
             /\ s1_ \notin Takes(r, b) /\ (s1_ \in Claims(r, b) <=> b = a)
    BY ReleaseKind DEF s1_
  <1>4. /\ s2_ \in HSteps
        /\ \A r \in Managed, b \in Addr :
             /\ s2_ \in OwnFrees(r, b) <=> r = "memory" /\ b = a /\ ~x
             /\ s2_ \in ExtFrees(r, b) <=> r = "memory" /\ b = a /\ x
             /\ s2_ \notin Takes(r, b) /\ s2_ \notin Claims(r, b)
    BY <1>2, FreeKind, HeapNames DEF s2_
  <1>5. /\ s0_ \in HSteps
        /\ \A r \in Managed, b \in Addr :
             /\ s0_ \in OwnFrees(r, b) <=> r = "qobject" /\ b = a /\ ~y
             /\ s0_ \in ExtFrees(r, b) <=> r = "qobject" /\ b = a /\ y
             /\ s0_ \notin Takes(r, b) /\ s0_ \notin Claims(r, b)
    BY <1>2, FreeKind, HeapNames DEF s0_
  <1>6. /\ s3_ \in HSteps
        /\ \A r \in Managed, b \in Addr :
             /\ s3_ \notin OwnFrees(r, b)
             /\ s3_ \in ExtFrees(r, b) <=> r = "qobject" /\ b = a
             /\ s3_ \notin Takes(r, b) /\ s3_ \notin Claims(r, b)
    <2>1. /\ s3_ \in HSteps
          /\ \A r \in Managed, b \in Addr :
               /\ s3_ \in OwnFrees(r, b) <=> r = "qobject" /\ b = a /\ ~z
               /\ s3_ \in ExtFrees(r, b) <=> r = "qobject" /\ b = a /\ z
               /\ s3_ \notin Takes(r, b) /\ s3_ \notin Claims(r, b)
      BY <1>15, FreeKind, HeapNames DEF s3_
    <2> QED
      BY <2>1, <1>16
  <1>7. p \in Seq(HSteps)
    BY <1>3, <1>4, <1>5, <1>6
  <1>8. \A S, R : /\ Has(p, S) <=> s0_ \in S \/ s1_ \in S \/ s2_ \in S \/ s3_ \in S
                  /\ NoneAfter(p, S, R) <=>
                        /\ s0_ \in S => s1_ \notin R /\ s2_ \notin R /\ s3_ \notin R
                        /\ s1_ \in S => s2_ \notin R /\ s3_ \notin R
                        /\ s2_ \in S => s3_ \notin R
    BY FourSteps
  <1> HIDE DEF p
  <1>9. Good(p)
    <2> SUFFICES ASSUME NEW r \in Managed, NEW b \in Addr
                 PROVE  /\ NoneAfter(p, OwnFrees(r, b) \cup ExtFrees(r, b), OwnFrees(r, b))
                        /\ NoneAfter(p, Takes(r, b), OwnFrees(r, b) \cup ExtFrees(r, b))
                        /\ NoneAfter(p, Claims(r, b), Claims(r, b))
      BY DEF Good
    <2>1. NoneAfter(p, OwnFrees(r, b) \cup ExtFrees(r, b), OwnFrees(r, b))
      BY <1>3, <1>4, <1>5, <1>6, <1>8, HeapNames
    <2>2. NoneAfter(p, Takes(r, b), OwnFrees(r, b) \cup ExtFrees(r, b))
      BY <1>3, <1>4, <1>5, <1>8
    <2>3. NoneAfter(p, Claims(r, b), Claims(r, b))
      BY <1>4, <1>5, <1>6, <1>8
    <2> QED
      BY <2>1, <2>2, <2>3
  <1>10. ASSUME NEW r \in Managed, NEW b \in Addr
         PROVE  StartsWell(p, r, b)
    <2>1. /\ Has(p, OwnFrees(r, b)) <=> b = a /\ ((r = "memory" /\ ~x) \/ (r = "qobject" /\ ~y))
          /\ Has(p, ExtFrees(r, b)) <=> b = a /\ ((r = "memory" /\ x) \/ r = "qobject")
          /\ ~Has(p, Takes(r, b)) /\ (Has(p, Claims(r, b)) <=> b = a)
      BY <1>3, <1>4, <1>5, <1>6, <1>8
    <2>2. CASE b = a /\ r = "memory"
      BY <1>2, <2>1, <2>2, DestructFacts, HeapNames DEF StartsWell
    <2>3. CASE b = a /\ r = "qobject"
      BY <1>2, <2>1, <2>3, DestructFacts, HeapNames DEF StartsWell
    <2>4. CASE b # a
      BY <2>1, <2>4, DestructFacts DEF StartsWell
    <2> QED
      BY <2>2, <2>3, <2>4, HeapNames
  <1> QED
    BY <1>1, <1>7, <1>9, <1>10, DestructFacts, BeginFacts, RacesKept, HeapBegin

LEMMA DestructDeletingStep ==
    ASSUME HeapInv, NEW t \in Threads, NEW a \in Addr, DestructDeleting(t, a)
    PROVE  HeapInv'
  BY DestructPlain, DestructTwice

\* A thread is done with the first step of its program.
LEMMA HavingLess ==
    ASSUME NEW T, NEW t \in Threads, DOMAIN todo = Threads, todo[t] \in Seq(T),
           todo[t] # <<>>, todo' = [todo EXCEPT ![t] = Tail(todo[t])], NEW S
    PROVE  /\ Head(todo[t]) \in S => t \in Having(S)
           /\ Head(todo[t]) \notin S => Having(S)' = Having(S)
           /\ Having(S)' \in {Having(S), Having(S) \ {t}}
  <1>1. Having(S)' = IF Has(Tail(todo[t]), S) THEN Having(S) \cup {t} ELSE Having(S) \ {t}
    BY HavingChanged
  <1>2. Has(todo[t], S) <=> Head(todo[t]) \in S \/ Has(Tail(todo[t]), S)
    BY RestOfProgram
  <1>3. t \in Having(S) <=> Has(todo[t], S)
    BY DEF Having
  <1> QED
    BY <1>1, <1>2, <1>3

LEMMA HavingAfter ==
    ASSUME NEW T, NEW t \in Threads, DOMAIN todo = Threads, todo[t] \in Seq(T),
           todo[t] # <<>>, todo' = [todo EXCEPT ![t] = Tail(todo[t])], NEW S, NEW R,
           NoneAfter(todo[t], S, R), Head(todo[t]) \in S
    PROVE  t \notin Having(R)'
  <1>1. ~Has(Tail(todo[t]), R)
    BY RestOfProgram
  <1>2. Having(R)' = IF Has(Tail(todo[t]), R) THEN Having(R) \cup {t} ELSE Having(R) \ {t}
    BY HavingChanged
  <1> QED
    BY <1>1, <1>2

HeapHeadDone(t, r, a) ==
    /\ Head(todo[t]) \in OwnFrees(r, a) => t \notin Having(OwnFrees(r, a))'
    /\ Head(todo[t]) \in ExtFrees(r, a) => t \notin Having(OwnFrees(r, a))'
    /\ Head(todo[t]) \in Takes(r, a) =>
        t \notin Having(OwnFrees(r, a))' /\ t \notin Having(ExtFrees(r, a))'
    /\ Head(todo[t]) \in Claims(r, a) => t \notin Having(Claims(r, a))'

LEMMA HeapRest ==
    ASSUME HeapInv, NEW t \in Threads, todo[t] # <<>>,
           todo' = [todo EXCEPT ![t] = Tail(todo[t])]
    PROVE  /\ DOMAIN todo = Threads /\ DOMAIN todo' = Threads
           /\ todo[t] \in Seq(HSteps) /\ Head(todo[t]) \in HSteps
           /\ HeapPrograms'
           /\ \A r \in Managed, a \in Addr : HeapHeadDone(t, r, a)
  <1>1. /\ DOMAIN todo = Threads /\ HeapPrograms
        /\ todo[t] \in Seq(HSteps) /\ Good(todo[t])
    BY DEF HeapInv, HeapTypes, HeapPrograms
  <1>2. Head(todo[t]) \in HSteps /\ Tail(todo[t]) \in Seq(HSteps)
    BY <1>1, RestOfProgram
  <1>3. ASSUME NEW S, NEW R, NoneAfter(todo[t], S, R)
        PROVE  NoneAfter(Tail(todo[t]), S, R)
    BY <1>1, <1>3, RestOfProgram
  <1>4. Good(Tail(todo[t]))
    BY <1>1, <1>3 DEF Good
  <1>5. HeapPrograms'
    <2>1. \A u \in Threads : todo'[u] \in Seq(HSteps) /\ Good(todo'[u])
      BY <1>1, <1>2, <1>4 DEF HeapPrograms
    <2> QED
      BY <2>1 DEF HeapPrograms, Good
  <1>6. ASSUME NEW r \in Managed, NEW a \in Addr
        PROVE  HeapHeadDone(t, r, a)
    <2>1. /\ NoneAfter(todo[t], OwnFrees(r, a) \cup ExtFrees(r, a), OwnFrees(r, a))
          /\ NoneAfter(todo[t], Takes(r, a), OwnFrees(r, a) \cup ExtFrees(r, a))
          /\ NoneAfter(todo[t], Claims(r, a), Claims(r, a))
      BY <1>1 DEF Good
    <2>2. ASSUME Head(todo[t]) \in OwnFrees(r, a) \cup ExtFrees(r, a)
          PROVE  t \notin Having(OwnFrees(r, a))'
      BY <1>1, <2>1, <2>2, HavingAfter
    <2>3. ASSUME Head(todo[t]) \in Takes(r, a)
          PROVE  t \notin Having(OwnFrees(r, a))' /\ t \notin Having(ExtFrees(r, a))'
      <3>1. t \notin Having(OwnFrees(r, a) \cup ExtFrees(r, a))'
        BY <1>1, <2>1, <2>3, HavingAfter
      <3>2. /\ Having(OwnFrees(r, a))' \subseteq Having(OwnFrees(r, a) \cup ExtFrees(r, a))'
            /\ Having(ExtFrees(r, a))' \subseteq Having(OwnFrees(r, a) \cup ExtFrees(r, a))'
        BY DEF Having, Has
      <3> QED
        BY <3>1, <3>2
    <2>4. ASSUME Head(todo[t]) \in Claims(r, a)
          PROVE  t \notin Having(Claims(r, a))'
      BY <1>1, <2>1, <2>4, HavingAfter
    <2> QED
      BY <2>2, <2>3, <2>4 DEF HeapHeadDone
  <1> QED
    BY <1>1, <1>2, <1>5, <1>6

\* A resource that a step does not concern.
LEMMA KeyKept ==
    ASSUME NEW r, NEW a,
           Having(OwnFrees(r, a))' = Having(OwnFrees(r, a)),
           Having(ExtFrees(r, a))' = Having(ExtFrees(r, a)),
           Having(Takes(r, a))' = Having(Takes(r, a)),
           Who(r, a)' = Who(r, a), Mark(r, a)' = Mark(r, a)
    PROVE  /\ KeyClash(r, a) => KeyClash(r, a)'
           /\ KeyBooks(r, a) /\ filter'[<<r, a>>] = filter[<<r, a>>] => KeyBooks(r, a)'
  <1>1. KeyClash(r, a) => KeyClash(r, a)'
    <2>1. KeyClash(r, a)' <=>
            Clash(Having(OwnFrees(r, a))', Having(ExtFrees(r, a))', Having(Takes(r, a))',
                  Who(r, a)', Mark(r, a)')
      BY DEF KeyClash, Clash
    <2> QED
      BY <2>1 DEF KeyClash
  <1>2. ASSUME KeyBooks(r, a), filter'[<<r, a>>] = filter[<<r, a>>]
        PROVE  KeyBooks(r, a)'
    <2>1. KeyBooks(r, a)' <=>
            Books(Having(OwnFrees(r, a))', Having(ExtFrees(r, a))',
                  Who(r, a)', Mark(r, a)', filter'[<<r, a>>])
      BY DEF KeyBooks, Books, Two
    <2> QED
      BY <1>2, <2>1 DEF KeyBooks
  <1> QED
    BY <1>1, <1>2

LEMMA ReleaseStepKeeps ==
    ASSUME HeapInv, NEW t \in Threads, ReleaseStep(t)
    PROVE  HeapInv'
  <1> DEFINE h == Head(todo[t])
             b == h.id
  <1>1. /\ todo[t] # <<>> /\ todo' = [todo EXCEPT ![t] = Tail(todo[t])]
        /\ h.do = "release" /\ status' = AfterRelease(b)
        /\ enabled' = enabled /\ filter' = filter /\ raced' = raced /\ stolen' = stolen
    BY DEF ReleaseStep, Idle
  <1>2. /\ DOMAIN todo = Threads /\ DOMAIN todo' = Threads
        /\ todo[t] \in Seq(HSteps) /\ h \in HSteps /\ HeapPrograms'
        /\ \A r \in Managed, a \in Addr : HeapHeadDone(t, r, a)
    BY <1>1, HeapRest
  <1>3. b \in Addr /\ h = Release(b)
    <2>1. h \in [do : {"release"}, id : Addr]
      BY <1>1, <1>2 DEF HSteps
    <2> QED
      BY <2>1 DEF Release
  <1> HIDE DEF h, b
  <1>4. /\ \A r \in Managed, a \in Addr :
             /\ h \notin OwnFrees(r, a) /\ h \notin ExtFrees(r, a) /\ h \notin Takes(r, a)
             /\ h \in Claims(r, a) <=> a = b
    BY <1>3, ReleaseKind
  <1>5. status \in [Managed -> [Addr -> Statuses]] /\ HeapTypes
    BY DEF HeapInv, HeapTypes
  <1>6. /\ status' \in [Managed -> [Addr -> Statuses]]
        /\ \A r \in Managed, a \in Addr : a # b => status'[r][a] = status[r][a]
        /\ status'["memory"][b] = "none"
        /\ status'["qobject"][b] =
                IF status["qobject"][b] = "busy" THEN "none" ELSE status["qobject"][b]
    <2> DEFINE S1 == [status EXCEPT !["memory"][b] = "none"]
               v  == IF status["qobject"][b] = "busy" THEN "none" ELSE status["qobject"][b]
    <2>1. v \in Statuses
      BY <1>3, <1>5, HeapNames
    <2>2. /\ S1 \in [Managed -> [Addr -> Statuses]]
          /\ \A r \in Managed, a \in Addr :
               S1[r][a] = IF r = "memory" /\ a = b THEN "none" ELSE status[r][a]
      BY <1>3, <1>5, HeapNames, StatusSet
    <2>3. status' = [S1 EXCEPT !["qobject"][b] = v]
      <3>1. S1["qobject"][b] = status["qobject"][b]
        BY <1>3, <2>2, HeapNames
      <3>2. status' = [S1 EXCEPT !["qobject"][b] =
                            IF S1["qobject"][b] = "busy" THEN "none" ELSE S1["qobject"][b]]
        BY <1>1 DEF AfterRelease
      <3> QED
        BY <3>1, <3>2
    <2> HIDE DEF S1, v
    <2>4. /\ [S1 EXCEPT !["qobject"][b] = v] \in [Managed -> [Addr -> Statuses]]
          /\ \A r \in Managed, a \in Addr :
               [S1 EXCEPT !["qobject"][b] = v][r][a] =
                    IF r = "qobject" /\ a = b THEN v ELSE S1[r][a]
      BY <1>3, <2>1, <2>2, HeapNames, StatusSet
    <2> QED
      BY <1>3, <2>2, <2>3, <2>4, HeapNames DEF v
  <1>7. HeapTypes'
    BY <1>1, <1>2, <1>5, <1>6 DEF HeapTypes
  <1>8. ASSUME NEW r \in Managed, NEW a \in Addr
        PROVE  KeyClaims(r, a)' /\ KeyClash(r, a)' /\ (enabled => KeyBooks(r, a)')
    <2>1. KeyClaims(r, a) /\ KeyClash(r, a) /\ (enabled => KeyBooks(r, a))
      BY DEF HeapInv
    <2>2. /\ Having(OwnFrees(r, a))' = Having(OwnFrees(r, a))
          /\ Having(ExtFrees(r, a))' = Having(ExtFrees(r, a))
          /\ Having(Takes(r, a))' = Having(Takes(r, a))
      BY <1>1, <1>2, <1>4, HavingLess DEF h
    <2>3. Mark(r, a)' = Mark(r, a)
      BY <1>1 DEF Mark
    <2>4. CASE a # b
      <3>1. Having(Claims(r, a))' = Having(Claims(r, a))
        BY <1>1, <1>2, <1>4, <2>4, HavingLess DEF h
      <3>2. h \notin {Release(a)}
        BY <1>3, <2>4 DEF Release
      <3>3. Having({Release(a)})' = Having({Release(a)})
        BY <1>1, <1>2, <3>2, HavingLess DEF h
      <3>4. status'[r][a] = status[r][a]
        BY <1>6, <2>4
      <3>5. KeyClaims(r, a)'
        BY <2>1, <3>1, <3>3, <3>4 DEF KeyClaims
      <3>6. Who(r, a)' = Who(r, a)
        BY <3>4 DEF Who
      <3> QED
        BY <1>1, <2>1, <2>2, <2>3, <3>5, <3>6, KeyKept
    <2>5. CASE a = b
      <3>1. t \in Having(Claims(r, a)) /\ t \notin Having(Claims(r, a))'
        BY <1>1, <1>2, <1>4, <2>5, HavingLess DEF h, HeapHeadDone
      <3>2. Having(Claims(r, a))' = {}
        <4>1. Having(Claims(r, a))' \in {Having(Claims(r, a)), Having(Claims(r, a)) \ {t}}
          BY <1>1, <1>2, HavingLess
        <4> QED
          BY <2>1, <3>1, <4>1 DEF KeyClaims
      <3>3. KeyClaims(r, a)'
        BY <3>2 DEF KeyClaims
      <3>4. status[r][a] \in {"busy", "none"} /\ status'[r][a] = "none"
        BY <1>6, <2>1, <2>5, <3>1, HeapNames DEF KeyClaims
      <3>5. Who(r, a)' = Who(r, a)
        BY <3>4 DEF Who
      <3> QED
        BY <1>1, <2>1, <2>2, <2>3, <3>3, <3>5, KeyKept
    <2> QED
      BY <2>4, <2>5
  <1> QED
    BY <1>1, <1>2, <1>7, <1>8 DEF HeapInv

LEMMA ReportedAlloc ==
    ASSUME NEW h \in HSteps, h.do = "report", NEW q \in Resources, NEW b \in Addr,
           h.call = Alloc(q, b), NEW r \in Managed, NEW a \in Addr
    PROVE  /\ h \notin OwnFrees(r, a) /\ h \notin ExtFrees(r, a)
           /\ h \in Takes(r, a) <=> r = q /\ a = b
           /\ h \in Claims(r, a) <=> r = q /\ a = b
  <1>1. Alloc(q, b) # Free(r, a) /\ (Alloc(q, b) = Alloc(r, a) <=> r = q /\ a = b)
    BY CallKinds
  <1>2. "report" # "release"
    OBVIOUS
  <1> QED
    BY <1>1, <1>2, Zenon DEF OwnFrees, ExtFrees, Takes, Claims

LEMMA FilterChange ==
    ASSUME DOMAIN filter = Resources \X Addr, NEW q \in Resources, NEW b \in Addr
    PROVE  /\ DOMAIN RemoveFreed(filter, Alloc(q, b)) = Resources \X Addr
           /\ DOMAIN RemoveFreed(filter, Free(q, b)) = Resources \X Addr
           /\ RemoveFreed(filter, Alloc(q, b))[<<q, b>>] = AllocCall(filter[<<q, b>>], FALSE)
           /\ RemoveFreed(filter, Free(q, b))[<<q, b>>] = FreeCall(filter[<<q, b>>], FALSE)
           /\ \A r \in Resources, a \in Addr : ~(r = q /\ a = b) =>
                /\ RemoveFreed(filter, Alloc(q, b))[<<r, a>>] = filter[<<r, a>>]
                /\ RemoveFreed(filter, Free(q, b))[<<r, a>>] = filter[<<r, a>>]
  <1>1. /\ Resource(Alloc(q, b)) = <<q, b>> /\ Resource(Free(q, b)) = <<q, b>>
        /\ Alloc(q, b).type = "alloc" /\ Free(q, b).type = "free"
    BY DEF Resource, Alloc, Free
  <1>2. (Alloc(q, b).res \in {}) = FALSE /\ (Free(q, b).res \in {}) = FALSE
    OBVIOUS
  <1>3. /\ RemoveFreed(filter, Alloc(q, b)) =
                [filter EXCEPT ![<<q, b>>] = AllocCall(filter[<<q, b>>], FALSE)]
        /\ RemoveFreed(filter, Free(q, b)) =
                [filter EXCEPT ![<<q, b>>] = FreeCall(filter[<<q, b>>], FALSE)]
    <2>1. RemoveFreed(filter, Alloc(q, b)) =
                [filter EXCEPT ![<<q, b>>] = AllocCall(filter[<<q, b>>], Alloc(q, b).res \in {})]
      BY <1>1 DEF RemoveFreed
    <2>2. RemoveFreed(filter, Free(q, b)) =
                [filter EXCEPT ![<<q, b>>] = FreeCall(filter[<<q, b>>], Free(q, b).res \in {})]
      BY <1>1 DEF RemoveFreed
    <2> QED
      BY <1>2, <2>1, <2>2, Zenon
  <1>4. <<q, b>> \in DOMAIN filter /\ \A r \in Resources, a \in Addr : <<r, a>> \in DOMAIN filter
    OBVIOUS
  <1> HIDE DEF Resources
  <1>5. \A r, a : <<r, a>> = <<q, b>> => r = q /\ a = b
    OBVIOUS
  <1> QED
    BY <1>3, <1>4, <1>5

LEMMA ReportFacts ==
    ASSUME HeapInv, NEW t \in Threads, ReportStep(t), NEW h, h = Head(todo[t])
    PROVE  /\ todo[t] # <<>> /\ todo' = [todo EXCEPT ![t] = Tail(todo[t])]
           /\ h \in HSteps /\ h.do = "report"
           /\ h.extra \in BOOLEAN /\ h.leaves \in BOOLEAN
           /\ filter' = IF enabled THEN RemoveFreed(filter, h.call) ELSE filter
           /\ status' = IF h.call.res \in Managed /\ (h.call.type = "alloc" \/ h.leaves)
                        THEN [status EXCEPT ![h.call.res][h.call.id] =
                                IF h.call.type = "alloc"
                                THEN (IF enabled THEN "owned" ELSE "early") ELSE "none"]
                        ELSE status
           /\ enabled' = enabled /\ raced' = raced /\ stolen' = stolen
  <1>1. /\ todo[t] # <<>> /\ todo' = [todo EXCEPT ![t] = Tail(todo[t])] /\ h.do = "report"
        /\ filter' = IF enabled THEN RemoveFreed(filter, h.call) ELSE filter
        /\ status' = IF h.call.res \in Managed /\ (h.call.type = "alloc" \/ h.leaves)
                     THEN [status EXCEPT ![h.call.res][h.call.id] =
                             IF h.call.type = "alloc"
                             THEN (IF enabled THEN "owned" ELSE "early") ELSE "none"]
                     ELSE status
        /\ enabled' = enabled /\ raced' = raced /\ stolen' = stolen
    BY DEF ReportStep, Idle
  <1>2. h \in HSteps
    BY <1>1, HeapRest
  <1>3. h \in [do : {"report"}, call : HCalls, extra : BOOLEAN, leaves : BOOLEAN]
    BY <1>1, <1>2 DEF HSteps
  <1>4. h.extra \in BOOLEAN /\ h.leaves \in BOOLEAN
    BY <1>3, Zenon
  <1> QED
    BY <1>1, <1>2, <1>4

\* A report leaves the other resources alone.
LEMMA ReportElsewhere ==
    ASSUME HeapInv, NEW t \in Threads, ReportStep(t), NEW r \in Managed, NEW a \in Addr,
           status'[r][a] = status[r][a], filter'[<<r, a>>] = filter[<<r, a>>],
           Head(todo[t]) \notin OwnFrees(r, a), Head(todo[t]) \notin ExtFrees(r, a),
           Head(todo[t]) \notin Takes(r, a), Head(todo[t]) \notin Claims(r, a)
    PROVE  KeyClaims(r, a)' /\ KeyClash(r, a)' /\ (enabled => KeyBooks(r, a)')
  <1> DEFINE h == Head(todo[t])
  <1>1. /\ todo[t] # <<>> /\ todo' = [todo EXCEPT ![t] = Tail(todo[t])]
        /\ h.do = "report" /\ raced' = raced /\ stolen' = stolen
    BY ReportFacts
  <1>2. DOMAIN todo = Threads /\ todo[t] \in Seq(HSteps)
    BY <1>1, HeapRest
  <1>3. h \notin {Release(a)}
    BY <1>1 DEF Release
  <1>4. /\ Having(OwnFrees(r, a))' = Having(OwnFrees(r, a))
        /\ Having(ExtFrees(r, a))' = Having(ExtFrees(r, a))
        /\ Having(Takes(r, a))' = Having(Takes(r, a))
        /\ Having(Claims(r, a))' = Having(Claims(r, a))
        /\ Having({Release(a)})' = Having({Release(a)})
    BY <1>1, <1>2, <1>3, HavingLess
  <1>5. KeyClaims(r, a) /\ KeyClash(r, a) /\ (enabled => KeyBooks(r, a))
    BY DEF HeapInv
  <1>6. KeyClaims(r, a)'
    BY <1>4, <1>5 DEF KeyClaims
  <1>7. Who(r, a)' = Who(r, a) /\ Mark(r, a)' = Mark(r, a)
    BY <1>1 DEF Who, Mark
  <1> QED
    BY <1>4, <1>5, <1>6, <1>7, KeyKept

\* The step that changes the status of a resource is the last one to do so.
LEMMA ClaimEnds ==
    ASSUME HeapInv, NEW t \in Threads, todo[t] # <<>>,
           todo' = [todo EXCEPT ![t] = Tail(todo[t])], NEW r \in Managed, NEW a \in Addr,
           Head(todo[t]) \in Claims(r, a)
    PROVE  /\ Having(Claims(r, a)) = {t} /\ Having(Claims(r, a))' = {} /\ KeyClaims(r, a)'
           /\ Who(r, a) = "other"
  <1>1. /\ DOMAIN todo = Threads /\ todo[t] \in Seq(HSteps) /\ HeapHeadDone(t, r, a)
    BY HeapRest
  <1>2. t \in Having(Claims(r, a)) /\ t \notin Having(Claims(r, a))'
    BY <1>1, HavingLess DEF HeapHeadDone
  <1>3. KeyClaims(r, a)
    BY DEF HeapInv
  <1>4. Having(Claims(r, a))' = {} /\ Having(Claims(r, a)) = {t}
    <2>1. Having(Claims(r, a))' \in {Having(Claims(r, a)), Having(Claims(r, a)) \ {t}}
      BY <1>1, HavingLess
    <2> QED
      BY <1>2, <1>3, <2>1 DEF KeyClaims
  <1>5. KeyClaims(r, a)'
    BY <1>4 DEF KeyClaims
  <1>6. status[r][a] \in {"busy", "none"}
    BY <1>2, <1>3 DEF KeyClaims
  <1>7. Who(r, a) = "other"
    BY <1>6 DEF Who
  <1> QED
    BY <1>4, <1>5, <1>7

LEMMA ReportAlloc ==
    ASSUME HeapInv, NEW t \in Threads, ReportStep(t), NEW q \in Resources, NEW b \in Addr,
           Head(todo[t]).call = Alloc(q, b)
    PROVE  HeapInv'
  <1> DEFINE h == Head(todo[t])
             v == IF enabled THEN "owned" ELSE "early"
  <1>1. /\ todo[t] # <<>> /\ todo' = [todo EXCEPT ![t] = Tail(todo[t])]
        /\ h \in HSteps /\ h.do = "report" /\ h.call = Alloc(q, b)
        /\ filter' = IF enabled THEN RemoveFreed(filter, Alloc(q, b)) ELSE filter
        /\ enabled' = enabled /\ raced' = raced /\ stolen' = stolen
    BY ReportFacts
  <1>2. status' = IF q \in Managed THEN [status EXCEPT ![q][b] = v] ELSE status
    <2>1. status' = IF h.call.res \in Managed /\ (h.call.type = "alloc" \/ h.leaves)
                   THEN [status EXCEPT ![h.call.res][h.call.id] =
                            IF h.call.type = "alloc"
                            THEN (IF enabled THEN "owned" ELSE "early") ELSE "none"]
                   ELSE status
      BY ReportFacts
    <2>2. Alloc(q, b).res = q /\ Alloc(q, b).id = b /\ Alloc(q, b).type = "alloc"
      BY DEF Alloc
    <2> QED
      BY <1>1, <2>1, <2>2
  <1>3. /\ DOMAIN todo = Threads /\ DOMAIN todo' = Threads
        /\ todo[t] \in Seq(HSteps) /\ HeapPrograms'
        /\ \A r \in Managed, a \in Addr : HeapHeadDone(t, r, a)
    BY <1>1, HeapRest
  <1>4. HeapTypes
    BY DEF HeapInv
  <1>5. /\ DOMAIN filter' = Resources \X Addr
        /\ \A r \in Resources, a \in Addr : ~(r = q /\ a = b) =>
              filter'[<<r, a>>] = filter[<<r, a>>]
        /\ enabled => filter'[<<q, b>>] = AllocCall(filter[<<q, b>>], FALSE)
    BY <1>1, <1>4, FilterChange DEF HeapTypes
  <1> HIDE DEF h, v
  <1>6. /\ status' \in [Managed -> [Addr -> Statuses]]
        /\ \A r \in Managed, a \in Addr :
              status'[r][a] = IF r = q /\ a = b THEN v ELSE status[r][a]
    <2>1. v \in Statuses
      BY HeapNames DEF v
    <2> QED
      BY <1>2, <1>4, <2>1, StatusSet DEF HeapTypes
  <1>7. HeapTypes'
    BY <1>1, <1>3, <1>4, <1>5, <1>6 DEF HeapTypes
  <1>8. ASSUME NEW r \in Managed, NEW a \in Addr
        PROVE  KeyClaims(r, a)' /\ KeyClash(r, a)' /\ (enabled => KeyBooks(r, a)')
    <2>1. /\ h \notin OwnFrees(r, a) /\ h \notin ExtFrees(r, a)
          /\ h \in Takes(r, a) <=> r = q /\ a = b
          /\ h \in Claims(r, a) <=> r = q /\ a = b
      BY <1>1, ReportedAlloc
    <2>2. CASE ~(r = q /\ a = b)
      BY <1>5, <1>6, <2>1, <2>2, ReportElsewhere, HeapNames DEF h
    <2>3. CASE r = q /\ a = b
      <3> DEFINE own  == Having(OwnFrees(r, a))
                 ext  == Having(ExtFrees(r, a))
                 tak  == Having(Takes(r, a))
                 mark == Mark(r, a)
                 e    == filter[<<r, a>>]
                 e2   == AllocCall(e, FALSE)
      <3>1. /\ Having(Claims(r, a)) = {t} /\ Having(Claims(r, a))' = {} /\ KeyClaims(r, a)'
            /\ Who(r, a) = "other"
        BY <1>1, <2>1, <2>3, ClaimEnds DEF h
      <3>2. own' = own /\ ext' = ext /\ t \in tak
        BY <1>1, <1>3, <2>1, <2>3, HavingLess DEF h
      <3>3. t \notin own /\ t \notin ext
        BY <1>3, <2>1, <2>3, <3>2 DEF HeapHeadDone, h
      <3>4. tak' = {}
        <4>1. Having(Takes(r, a))' \subseteq Having(Claims(r, a))'
          BY TakesAreClaims DEF Having, Has
        <4> QED
          BY <3>1, <4>1
      <3>5. mark' = mark /\ mark \in 0..3
        BY <1>1 DEF Mark
      <3>6. Who(r, a)' = IF enabled THEN "held" ELSE "early"
        BY <1>6, <2>3 DEF Who, v
      <3>7. Clash(own, ext, tak, "other", mark) /\ (enabled => Books(own, ext, "other", mark, e))
        BY <3>1 DEF HeapInv, KeyClash, KeyBooks
      <3>8. enabled => filter'[<<r, a>>] = e2
        BY <1>5, <2>3
      <3>9. KeyClash(r, a)' <=> Clash(own', ext', tak', Who(r, a)', mark')
        BY DEF KeyClash, Clash
      <3>10. KeyBooks(r, a)' <=> Books(own', ext', Who(r, a)', mark', filter'[<<r, a>>])
        BY DEF KeyBooks, Books, Two
      <3> HIDE DEF own, ext, tak, mark, e, e2
      <3>11. /\ Clash(own, ext, {}, "held", mark) /\ Clash(own, ext, {}, "early", mark)
             /\ Books(own, ext, "other", mark, e) => Books(own, ext, "held", mark, e2)
        BY <3>2, <3>3, <3>5, <3>7, LedgerAlloc DEF e2
      <3>12. KeyClash(r, a)'
        BY <3>2, <3>4, <3>5, <3>6, <3>9, <3>11
      <3>13. enabled => KeyBooks(r, a)'
        BY <3>2, <3>5, <3>6, <3>7, <3>8, <3>10, <3>11
      <3> QED
        BY <3>1, <3>12, <3>13
    <2> QED
      BY <2>2, <2>3
  <1> QED
    BY <1>1, <1>3, <1>7, <1>8 DEF HeapInv

LEMMA ReportFree ==
    ASSUME HeapInv, NEW t \in Threads, ReportStep(t), NEW q \in Resources, NEW b \in Addr,
           Head(todo[t]).call = Free(q, b)
    PROVE  HeapInv'
  <1> DEFINE h == Head(todo[t])
  <1>1. /\ todo[t] # <<>> /\ todo' = [todo EXCEPT ![t] = Tail(todo[t])]
        /\ h \in HSteps /\ h.do = "report" /\ h.call = Free(q, b)
        /\ filter' = IF enabled THEN RemoveFreed(filter, Free(q, b)) ELSE filter
        /\ enabled' = enabled /\ raced' = raced /\ stolen' = stolen
    BY ReportFacts
  <1>2. h.extra \in BOOLEAN /\ h.leaves \in BOOLEAN
    BY ReportFacts, Zenon
  <1>3. status' = IF q \in Managed /\ h.leaves = TRUE THEN [status EXCEPT ![q][b] = "none"] ELSE status
    <2>1. Free(q, b).res = q /\ Free(q, b).id = b /\ Free(q, b).type # "alloc"
      BY DEF Free
    <2>2. status' = IF h.call.res \in Managed /\ (h.call.type = "alloc" \/ h.leaves)
                   THEN [status EXCEPT ![h.call.res][h.call.id] =
                            IF h.call.type = "alloc"
                            THEN (IF enabled THEN "owned" ELSE "early") ELSE "none"]
                   ELSE status
      BY ReportFacts, Zenon
    <2>3. h.leaves = TRUE \/ h.leaves = FALSE
      BY <1>2, Zenon
    <2>4. CASE h.leaves = TRUE
      BY <1>1, <2>1, <2>2, <2>4
    <2>5. CASE h.leaves = FALSE
      BY <1>1, <2>1, <2>2, <2>5
    <2> QED
      BY <2>3, <2>4, <2>5
  <1>4. /\ DOMAIN todo = Threads /\ DOMAIN todo' = Threads
        /\ todo[t] \in Seq(HSteps) /\ HeapPrograms'
        /\ \A r \in Managed, a \in Addr : HeapHeadDone(t, r, a)
    BY <1>1, HeapRest
  <1>5. HeapTypes
    BY DEF HeapInv
  <1>6. /\ DOMAIN filter' = Resources \X Addr
        /\ \A r \in Resources, a \in Addr : ~(r = q /\ a = b) =>
              filter'[<<r, a>>] = filter[<<r, a>>]
        /\ enabled => filter'[<<q, b>>] = FreeCall(filter[<<q, b>>], FALSE)
    BY <1>1, <1>5, FilterChange DEF HeapTypes
  <1> HIDE DEF h
  <1>7. /\ status' \in [Managed -> [Addr -> Statuses]]
        /\ \A r \in Managed, a \in Addr :
              status'[r][a] = IF r = q /\ a = b /\ h.leaves = TRUE THEN "none" ELSE status[r][a]
    BY <1>3, <1>5, StatusSet, HeapNames DEF HeapTypes
  <1>8. HeapTypes'
    BY <1>1, <1>4, <1>5, <1>6, <1>7 DEF HeapTypes
  <1>9. ASSUME NEW r \in Managed, NEW a \in Addr
        PROVE  KeyClaims(r, a)' /\ KeyClash(r, a)' /\ (enabled => KeyBooks(r, a)')
    <2>1. /\ h \in OwnFrees(r, a) <=> r = q /\ a = b /\ h.extra = FALSE
          /\ h \in ExtFrees(r, a) <=> r = q /\ a = b /\ h.extra = TRUE
          /\ h \notin Takes(r, a)
          /\ h \in Claims(r, a) <=> r = q /\ a = b /\ h.leaves = TRUE
      <3>1. Free(q, b) # Alloc(r, a) /\ (Free(q, b) = Free(r, a) <=> r = q /\ a = b)
        BY CallKinds
      <3>2. "report" # "release"
        OBVIOUS
      <3> QED
        BY <1>1, <3>1, <3>2, Zenon DEF OwnFrees, ExtFrees, Takes, Claims
    <2>2. CASE ~(r = q /\ a = b)
      BY <1>6, <1>7, <2>1, <2>2, ReportElsewhere, HeapNames DEF h
    <2>3. CASE r = q /\ a = b
      <3> DEFINE own  == Having(OwnFrees(r, a))
                 ext  == Having(ExtFrees(r, a))
                 tak  == Having(Takes(r, a))
                 who  == Who(r, a)
                 mark == Mark(r, a)
                 e    == filter[<<r, a>>]
                 e2   == FreeCall(e, FALSE)
      <3>1. tak' = tak /\ own' \in {own, own \ {t}} /\ ext' \in {ext, ext \ {t}}
        BY <1>1, <1>4, <2>1, HavingLess DEF h
      <3>2. \/ t \in own /\ own' = own \ {t} /\ ext' = ext
            \/ t \in ext /\ t \notin own /\ own' = own /\ ext' \in {ext, ext \ {t}}
        <4>1. CASE h \in OwnFrees(r, a)
          <5>1. h \notin ExtFrees(r, a)
            BY <2>1, <4>1
          <5>2. t \in own /\ ext' = ext
            BY <1>1, <1>4, <4>1, <5>1, HavingLess DEF h
          <5>3. t \notin own'
            BY <1>4, <4>1 DEF h, HeapHeadDone
          <5> QED
            BY <3>1, <5>2, <5>3
        <4>2. CASE h \in ExtFrees(r, a) /\ h \notin OwnFrees(r, a)
          <5>1. t \in ext /\ own' = own
            BY <1>1, <1>4, <4>2, HavingLess DEF h
          <5>2. t \notin own'
            BY <1>4, <4>2 DEF h, HeapHeadDone
          <5> QED
            BY <3>1, <5>1, <5>2
        <4> QED
          BY <1>2, <2>1, <2>3, <4>1, <4>2
      <3>3. KeyClaims(r, a)' /\ who' = who
        <4>1. CASE h.leaves = TRUE
          <5>1. h \in Claims(r, a)
            BY <2>1, <2>3, <4>1
          <5>2. KeyClaims(r, a)' /\ who = "other"
            BY <1>1, <5>1, ClaimEnds DEF h
          <5>3. who' = "other"
            BY <1>7, <2>3, <4>1 DEF Who
          <5> QED
            BY <5>2, <5>3
        <4>2. CASE h.leaves # TRUE
          <5>4. Release(a).do # "report"
            BY DEF Release
          <5>1. status'[r][a] = status[r][a] /\ h \notin Claims(r, a) /\ h \notin {Release(a)}
            BY <1>1, <1>7, <2>1, <4>2, <5>4
          <5>2. /\ Having(Claims(r, a))' = Having(Claims(r, a))
                /\ Having({Release(a)})' = Having({Release(a)})
            BY <1>1, <1>4, <5>1, HavingLess DEF h
          <5>3. KeyClaims(r, a)
            BY DEF HeapInv
          <5> QED
            BY <5>1, <5>2, <5>3 DEF KeyClaims, Who
        <4> QED
          BY <4>1, <4>2
      <3>4. mark' = mark /\ mark \in 0..3
        BY <1>1 DEF Mark
      <3>5. Clash(own, ext, tak, who, mark) /\ (enabled => Books(own, ext, who, mark, e))
        BY DEF HeapInv, KeyClash, KeyBooks
      <3>6. enabled => filter'[<<r, a>>] = e2
        BY <1>6, <2>3
      <3>7. KeyClash(r, a)' <=> Clash(own', ext', tak', who', mark')
        BY DEF KeyClash, Clash
      <3>8. KeyBooks(r, a)' <=> Books(own', ext', who', mark', filter'[<<r, a>>])
        BY DEF KeyBooks, Books, Two
      <3> DEFINE own2 == own'
                 ext2 == ext'
      <3> HIDE DEF own, ext, tak, who, mark, e, e2, own2, ext2
      <3>9. \/ t \in own /\ own2 = own \ {t} /\ ext2 = ext
            \/ t \in ext /\ t \notin own /\ own2 = own /\ ext2 \in {ext, ext \ {t}}
        BY <3>2 DEF own2, ext2
      <3>10. /\ Clash(own2, ext2, tak, who, mark)
             /\ Books(own, ext, who, mark, e) => Books(own2, ext2, who, mark, e2)
        BY <3>4, <3>5, <3>9, LedgerFree DEF e2
      <3>11. KeyClash(r, a)'
        BY <3>1, <3>3, <3>4, <3>7, <3>10 DEF own2, ext2
      <3>12. enabled => KeyBooks(r, a)'
        BY <3>3, <3>4, <3>5, <3>6, <3>8, <3>10 DEF own2, ext2
      <3> QED
        BY <3>3, <3>11, <3>12
    <2> QED
      BY <2>2, <2>3
  <1> QED
    BY <1>1, <1>4, <1>8, <1>9 DEF HeapInv

LEMMA ReportStepKeeps ==
    ASSUME HeapInv, NEW t \in Threads, ReportStep(t)
    PROVE  HeapInv'
  <1> DEFINE h == Head(todo[t])
  <1>1. h \in HSteps /\ h.do = "report"
    BY ReportFacts
  <1> HIDE DEF h
  <1>2. h \in [do : {"report"}, call : HCalls, extra : BOOLEAN, leaves : BOOLEAN]
    BY <1>1 DEF HSteps
  <1>3. PICK q \in Resources, b \in Addr : h.call = Alloc(q, b) \/ h.call = Free(q, b)
    BY <1>2 DEF HCalls
  <1> QED
    BY <1>3, ReportAlloc, ReportFree DEF h

\* While tracing is off the program takes and gives up resources without a
\* report.
LEMMA StatusMoves ==
    ASSUME HeapInv, ~enabled, enabled' = enabled, todo' = todo, filter' = filter,
           NEW q \in Managed, NEW b \in Addr, NEW v \in {"none", "early"},
           status' = [status EXCEPT ![q][b] = v], Having(Claims(q, b)) = {},
           raced \subseteq raced', stolen \subseteq stolen', stolen' \subseteq raced',
           v = "early" =>
             /\ Having(OwnFrees(q, b)) \cup Having(ExtFrees(q, b)) # {} => <<q, b>> \in raced'
             /\ Having(ExtFrees(q, b)) # {} => <<q, b>> \in stolen'
    PROVE  HeapInv'
  <1>1. HeapTypes /\ HeapPrograms
    BY DEF HeapInv
  <1>2. /\ status' \in [Managed -> [Addr -> Statuses]]
        /\ \A r \in Managed, a \in Addr :
              status'[r][a] = IF r = q /\ a = b THEN v ELSE status[r][a]
    <2>1. v \in Statuses
      BY HeapNames
    <2> QED
      BY <1>1, <2>1, StatusSet DEF HeapTypes
  <1>3. HeapTypes' /\ HeapPrograms'
    BY <1>1, <1>2 DEF HeapTypes, HeapPrograms, Good
  <1>4. ASSUME NEW S
        PROVE  Having(S)' = Having(S)
    BY DEF Having, Has
  <1>5. ASSUME NEW r \in Managed, NEW a \in Addr
        PROVE  KeyClaims(r, a)' /\ KeyClash(r, a)'
    <2> DEFINE own  == Having(OwnFrees(r, a))
               ext  == Having(ExtFrees(r, a))
               tak  == Having(Takes(r, a))
    <2>1. KeyClaims(r, a) /\ KeyClash(r, a)
      BY DEF HeapInv
    <2>2. /\ Having(Claims(r, a))' = Having(Claims(r, a))
          /\ Having({Release(a)})' = Having({Release(a)})
          /\ own' = own /\ ext' = ext /\ tak' = tak
      BY <1>4
    <2>3. Mark(r, a)' >= Mark(r, a) /\ Mark(r, a)' \in 0..3 /\ Mark(r, a) \in 0..3
      BY <1>1, <1>3 DEF Mark, HeapTypes
    <2>4. KeyClash(r, a)' <=> Clash(own', ext', tak', Who(r, a)', Mark(r, a)')
      BY DEF KeyClash, Clash
    <2>5. CASE ~(r = q /\ a = b)
      <3>1. status'[r][a] = status[r][a]
        BY <1>2, <2>5
      <3>2. KeyClaims(r, a)'
        BY <2>1, <2>2, <3>1 DEF KeyClaims
      <3>3. Who(r, a)' = Who(r, a)
        BY <3>1 DEF Who
      <3>4. Clash(own, ext, tak, Who(r, a), Mark(r, a)')
        BY <2>1, <2>3 DEF KeyClash, Clash
      <3> QED
        BY <2>2, <2>4, <3>2, <3>3, <3>4
    <2>6. CASE r = q /\ a = b
      <3>1. KeyClaims(r, a)'
        BY <2>2, <2>6 DEF KeyClaims
      <3>2. tak = {}
        <4>1. tak \subseteq Having(Claims(r, a))
          BY TakesAreClaims, PartOfProgram DEF Having
        <4> QED
          BY <2>6, <4>1
      <3>3. Who(r, a)' = IF v = "early" THEN "early" ELSE "other"
        BY <1>2, <2>6 DEF Who
      <3>4. v = "early" => /\ own \cup ext # {} => Mark(r, a)' >= 2
                           /\ ext # {} => Mark(r, a)' = 3
        BY <2>6 DEF Mark
      <3>5. Clash(own, ext, {}, Who(r, a)', Mark(r, a)')
        BY <3>3, <3>4 DEF Clash
      <3> QED
        BY <2>2, <2>4, <3>1, <3>2, <3>5
    <2> QED
      BY <2>5, <2>6
  <1> QED
    BY <1>3, <1>5 DEF HeapInv

LEMMA UntracedKeeps ==
    ASSUME HeapInv, NEW a \in Addr, Untraced(a)
    PROVE  HeapInv'
  <1>1. ~enabled /\ enabled' = enabled /\ todo' = todo /\ filter' = filter
    BY DEF Untraced
  <1>2. CASE /\ status["memory"][a] = "none"
             /\ status' = [status EXCEPT !["memory"][a] = "early"]
             /\ GiveOut("memory", a)
    BY <1>1, <1>2, HeapNames, NoClaims, GivenOut, StatusMoves
  <1>3. CASE /\ Disposable(a)
             /\ status' = [status EXCEPT !["memory"][a] = "none"]
             /\ KeepRaces
    <2>1. status["memory"][a] # "busy"
      BY <1>3 DEF Disposable
    <2> QED
      BY <1>1, <1>3, <2>1, HeapNames, NoClaims, RacesKept, StatusMoves
  <1>4. CASE /\ Disposable(a)
             /\ status' = [status EXCEPT !["qobject"][a] = "early"]
             /\ GiveOut("qobject", a)
    <2>1. status["memory"][a] # "busy" /\ status["qobject"][a] # "busy"
      BY <1>4 DEF Disposable
    <2> QED
      BY <1>1, <1>4, <2>1, HeapNames, NoClaims, GivenOut, StatusMoves
  <1>5. CASE /\ Destructible(a)
             /\ status' = [status EXCEPT !["qobject"][a] = "none"]
             /\ KeepRaces
    <2>1. status["memory"][a] # "busy" /\ status["qobject"][a] # "busy"
      BY <1>5 DEF Destructible
    <2> QED
      BY <1>1, <1>5, <2>1, HeapNames, NoClaims, RacesKept, StatusMoves
  <1> QED
    BY <1>2, <1>3, <1>4, <1>5 DEF Untraced

\* A step of a program that tracing catches under way.
Outlived(s) == IF s.do = "report" THEN [s EXCEPT !.extra = TRUE] ELSE s

LEMMA OutlivedKinds ==
    ASSUME NEW s \in HSteps, NEW r, NEW a
    PROVE  /\ Outlived(s) \in HSteps
           /\ Outlived(s) \notin OwnFrees(r, a)
           /\ Outlived(s) \in ExtFrees(r, a) <=> s \in OwnFrees(r, a) \cup ExtFrees(r, a)
           /\ Outlived(s) \in Takes(r, a) <=> s \in Takes(r, a)
           /\ Outlived(s) \in Claims(r, a) <=> s \in Claims(r, a)
           /\ Outlived(s) \in {Release(a)} <=> s \in {Release(a)}
  <1>1. CASE s \in [do : {"release"}, id : Addr]
    <2>1. s.do = "release" /\ Outlived(s) = s /\ s.do # "report"
      BY <1>1 DEF Outlived
    <2> QED
      BY <2>1, Zenon DEF OwnFrees, ExtFrees
  <1>2. CASE s \in [do : {"report"}, call : HCalls, extra : BOOLEAN, leaves : BOOLEAN]
    <2> DEFINE m == [s EXCEPT !.extra = TRUE]
    <2>1. s.do = "report" /\ s.call \in HCalls
      BY <1>2
    <2>2. s.extra \in BOOLEAN /\ s.leaves \in BOOLEAN
      BY <1>2, Zenon
    <2>3. Outlived(s) = m
      BY <2>1 DEF Outlived
    <2>4. m \in HSteps
      <3>1. m \in [do : {"report"}, call : HCalls, extra : BOOLEAN, leaves : BOOLEAN]
        BY <1>2
      <3> QED
        BY <3>1 DEF HSteps
    <2>5. m.do = "report" /\ m.call = s.call
      BY <1>2
    <2>12. m.extra = TRUE
      BY <1>2
    <2>13. m.leaves = s.leaves
      BY <1>2
    <2> HIDE DEF m
    <2>6. "report" # "release" /\ Release(a).do = "release"
      BY DEF Release
    <2>7. s.extra = TRUE \/ s.extra = FALSE
      BY <2>2, Zenon
    <2>8. m \notin OwnFrees(r, a) /\ (m \in ExtFrees(r, a) <=> s.call = Free(r, a))
      BY <2>4, <2>5, <2>12, Zenon DEF OwnFrees, ExtFrees
    <2>9. s \in OwnFrees(r, a) \cup ExtFrees(r, a) <=> s.call = Free(r, a)
      BY <2>1, <2>7, Zenon DEF OwnFrees, ExtFrees
    <2>10. /\ m \in Takes(r, a) <=> s \in Takes(r, a)
           /\ m \in Claims(r, a) <=> s \in Claims(r, a)
      BY <2>1, <2>4, <2>5, <2>6, <2>13, Zenon DEF Takes, Claims
    <2>11. m # Release(a) /\ s # Release(a)
      BY <2>1, <2>5, <2>6
    <2> QED
      BY <2>3, <2>4, <2>8, <2>9, <2>10, <2>11
  <1> QED
    BY <1>1, <1>2 DEF HSteps

LEMMA OutlivedProgram ==
    ASSUME NEW p \in Seq(HSteps), Good(p), NEW p2, p2 = [i \in DOMAIN p |-> Outlived(p[i])]
    PROVE  /\ p2 \in Seq(HSteps) /\ Good(p2)
           /\ \A r, a : /\ ~Has(p2, OwnFrees(r, a))
                        /\ Has(p2, ExtFrees(r, a)) <=> Has(p, OwnFrees(r, a)) \/ Has(p, ExtFrees(r, a))
                        /\ Has(p2, Takes(r, a)) <=> Has(p, Takes(r, a))
                        /\ Has(p2, Claims(r, a)) <=> Has(p, Claims(r, a))
                        /\ Has(p2, {Release(a)}) <=> Has(p, {Release(a)})
  <1>1. /\ DOMAIN p = 1..Len(p) /\ Len(p) \in Nat /\ \A i \in DOMAIN p : p[i] \in HSteps
    BY ElementOfSeq
  <1>2. DOMAIN p2 = DOMAIN p /\ \A i \in DOMAIN p : p2[i] = Outlived(p[i])
    OBVIOUS
  <1>3. ASSUME NEW i \in DOMAIN p, NEW r, NEW a
        PROVE  /\ p2[i] \in HSteps
               /\ p2[i] \notin OwnFrees(r, a)
               /\ p2[i] \in ExtFrees(r, a) <=> p[i] \in OwnFrees(r, a) \cup ExtFrees(r, a)
               /\ p2[i] \in Takes(r, a) <=> p[i] \in Takes(r, a)
               /\ p2[i] \in Claims(r, a) <=> p[i] \in Claims(r, a)
               /\ p2[i] \in {Release(a)} <=> p[i] \in {Release(a)}
    BY <1>1, <1>2, OutlivedKinds
  <1>4. p2 \in Seq(HSteps)
    <2>1. p2 \in [1..Len(p) -> HSteps]
      BY <1>1, <1>2, <1>3
    <2> QED
      BY <1>1, <2>1
  <1>5. Good(p2)
    <2> SUFFICES ASSUME NEW r \in Managed, NEW a \in Addr
                 PROVE  /\ NoneAfter(p2, OwnFrees(r, a) \cup ExtFrees(r, a), OwnFrees(r, a))
                        /\ NoneAfter(p2, Takes(r, a), OwnFrees(r, a) \cup ExtFrees(r, a))
                        /\ NoneAfter(p2, Claims(r, a), Claims(r, a))
      BY DEF Good
    <2>1. /\ NoneAfter(p, Takes(r, a), OwnFrees(r, a) \cup ExtFrees(r, a))
          /\ NoneAfter(p, Claims(r, a), Claims(r, a))
      BY DEF Good
    <2>2. NoneAfter(p2, OwnFrees(r, a) \cup ExtFrees(r, a), OwnFrees(r, a))
      BY <1>2, <1>3 DEF NoneAfter
    <2>3. NoneAfter(p2, Takes(r, a), OwnFrees(r, a) \cup ExtFrees(r, a))
      BY <1>2, <1>3, <2>1 DEF NoneAfter
    <2>4. NoneAfter(p2, Claims(r, a), Claims(r, a))
      BY <1>2, <1>3, <2>1 DEF NoneAfter
    <2> QED
      BY <2>2, <2>3, <2>4
  <1>6. ASSUME NEW r, NEW a
        PROVE  /\ ~Has(p2, OwnFrees(r, a))
               /\ Has(p2, ExtFrees(r, a)) <=> Has(p, OwnFrees(r, a)) \/ Has(p, ExtFrees(r, a))
               /\ Has(p2, Takes(r, a)) <=> Has(p, Takes(r, a))
               /\ Has(p2, Claims(r, a)) <=> Has(p, Claims(r, a))
               /\ Has(p2, {Release(a)}) <=> Has(p, {Release(a)})
    <2>1. ~Has(p2, OwnFrees(r, a))
      BY <1>2, <1>3 DEF Has
    <2>2. Has(p2, ExtFrees(r, a)) <=> Has(p, OwnFrees(r, a)) \/ Has(p, ExtFrees(r, a))
      BY <1>2, <1>3 DEF Has
    <2>3. Has(p2, Takes(r, a)) <=> Has(p, Takes(r, a))
      BY <1>2, <1>3 DEF Has
    <2>4. Has(p2, Claims(r, a)) <=> Has(p, Claims(r, a))
      BY <1>2, <1>3 DEF Has
    <2>5. Has(p2, {Release(a)}) <=> Has(p, {Release(a)})
      BY <1>2, <1>3 DEF Has
    <2> QED
      BY <2>1, <2>2, <2>3, <2>4, <2>5
  <1> QED
    BY <1>4, <1>5, <1>6

LEMMA EnableKeeps ==
    ASSUME HeapInv, EnableTracing
    PROVE  HeapInv'
  <1>1. HeapTypes /\ HeapPrograms
    BY DEF HeapInv
  <1>2. /\ enabled' = TRUE /\ filter' = [k \in Resources \X Addr |-> NoCalls]
        /\ stolen' = raced /\ raced' = raced
        /\ status' = [r \in Managed |-> [a \in Addr |->
                        IF status[r][a] = "owned" THEN "early" ELSE status[r][a]]]
    BY DEF EnableTracing
  <1>3. todo' = [t \in Threads |-> [i \in DOMAIN todo[t] |-> Outlived(todo[t][i])]]
    BY DEF EnableTracing, Outlived
  <1>4. /\ status' \in [Managed -> [Addr -> Statuses]]
        /\ \A r \in Managed, a \in Addr :
              status'[r][a] = IF status[r][a] = "owned" THEN "early" ELSE status[r][a]
    BY <1>1, <1>2, HeapNames DEF HeapTypes
  <1>5. HeapTypes'
    BY <1>2, <1>3, <1>4 DEF HeapTypes
  <1>6. ASSUME NEW t \in Threads
        PROVE  /\ todo'[t] \in Seq(HSteps) /\ Good(todo'[t])
               /\ \A r, a :
                    /\ ~Has(todo'[t], OwnFrees(r, a))
                    /\ Has(todo'[t], ExtFrees(r, a)) <=>
                            Has(todo[t], OwnFrees(r, a)) \/ Has(todo[t], ExtFrees(r, a))
                    /\ Has(todo'[t], Takes(r, a)) <=> Has(todo[t], Takes(r, a))
                    /\ Has(todo'[t], Claims(r, a)) <=> Has(todo[t], Claims(r, a))
                    /\ Has(todo'[t], {Release(a)}) <=> Has(todo[t], {Release(a)})
    <2>1. todo[t] \in Seq(HSteps) /\ Good(todo[t])
      BY <1>1 DEF HeapPrograms
    <2>2. todo'[t] = [i \in DOMAIN todo[t] |-> Outlived(todo[t][i])]
      BY <1>3
    <2> QED
      BY <2>1, <2>2, OutlivedProgram
  <1>7. HeapPrograms'
    <2>1. \A t \in Threads : todo'[t] \in Seq(HSteps) /\ Good(todo'[t])
      BY <1>6
    <2> QED
      BY <2>1 DEF HeapPrograms, Good
  <1>8. ASSUME NEW S
        PROVE  Having(S)' = {t \in Threads : Has(todo'[t], S)}
    BY DEF Having, Has
  <1>9. ASSUME NEW r \in Managed, NEW a \in Addr
        PROVE  KeyClaims(r, a)' /\ KeyClash(r, a)' /\ KeyBooks(r, a)'
    <2> DEFINE own  == Having(OwnFrees(r, a))
               ext  == Having(ExtFrees(r, a))
               tak  == Having(Takes(r, a))
    <2>1. KeyClaims(r, a) /\ KeyClash(r, a)
      BY DEF HeapInv
    <2>2. /\ own' = {} /\ ext' = own \cup ext /\ tak' = tak
          /\ Having(Claims(r, a))' = Having(Claims(r, a))
          /\ Having({Release(a)})' = Having({Release(a)})
      BY <1>6, <1>8 DEF Having
    <2>3. KeyClaims(r, a)'
      BY <1>4, <2>1, <2>2 DEF KeyClaims
    <2>4. Who(r, a)' = IF Who(r, a) = "held" THEN "early" ELSE Who(r, a)
      BY <1>4 DEF Who
    <2>5. /\ Mark(r, a)' = (IF <<r, a>> \in raced THEN 3 ELSE 0)
          /\ Mark(r, a) >= 2 => Mark(r, a)' = 3
      BY <1>1, <1>2 DEF Mark, HeapTypes
    <2>6. KeyClash(r, a)' <=> Clash(own', ext', tak', Who(r, a)', Mark(r, a)')
      BY DEF KeyClash, Clash
    <2>7. KeyBooks(r, a)' <=> Books(own', ext', Who(r, a)', Mark(r, a)', filter'[<<r, a>>])
      BY DEF KeyBooks, Books, Two
    <2>8. Clash(own, ext, tak, Who(r, a), Mark(r, a))
      BY <2>1 DEF KeyClash
    <2>9. filter'[<<r, a>>] = NoCalls
      BY <1>2, HeapNames
    <2> DEFINE who2 == Who(r, a)'
               mark2 == Mark(r, a)'
    <2>10. who2 # "held" /\ (who2 # "other" => Who(r, a) # "other")
      BY <2>4 DEF Who
    <2>11. Clash({}, own \cup ext, tak, who2, mark2)
      <3>1. Mark(r, a) >= 2 => mark2 = 3
        BY <2>5
      <3> HIDE DEF who2, mark2, own, ext, tak
      <3> QED
        BY <2>8, <2>10, <3>1 DEF Clash
    <2>12. Books({}, own \cup ext, who2, mark2, NoCalls)
      <3>1. NoCalls.left = 0 /\ NoCalls.refs = 0
        BY DEF NoCalls
      <3>2. ~Two({}, who2)
        BY DEF Two
      <3> HIDE DEF who2, mark2, own, ext, tak
      <3> QED
        BY <2>10, <3>1, <3>2 DEF Books
    <2> QED
      BY <2>2, <2>3, <2>6, <2>7, <2>9, <2>11, <2>12
  <1> QED
    BY <1>2, <1>5, <1>7, <1>9 DEF HeapInv

LEMMA DisableKeeps ==
    ASSUME HeapInv, DisableTracing
    PROVE  HeapInv'
  <1>1. /\ enabled' = FALSE /\ status' = status /\ todo' = todo /\ filter' = filter
        /\ raced' = raced /\ stolen' = stolen
    BY DEF DisableTracing
  <1>2. HeapTypes' /\ HeapPrograms'
    BY <1>1 DEF HeapInv, HeapTypes, HeapPrograms, Good
  <1>3. ASSUME NEW S
        PROVE  Having(S)' = Having(S)
    BY <1>1 DEF Having, Has
  <1>4. ASSUME NEW r \in Managed, NEW a \in Addr
        PROVE  KeyClaims(r, a)' /\ KeyClash(r, a)'
    <2>1. KeyClaims(r, a) /\ KeyClash(r, a)
      BY DEF HeapInv
    <2>2. KeyClaims(r, a)'
      BY <1>1, <1>3, <2>1 DEF KeyClaims
    <2>3. Who(r, a)' = Who(r, a) /\ Mark(r, a)' = Mark(r, a)
      BY <1>1 DEF Who, Mark
    <2> QED
      BY <1>3, <2>1, <2>2, <2>3, KeyKept
  <1> QED
    BY <1>1, <1>2, <1>4 DEF HeapInv

LEMMA HeapInit == Init => HeapInv
  <1> SUFFICES ASSUME Init
               PROVE  HeapInv
    OBVIOUS
  <1>1. /\ enabled = FALSE /\ status = [r \in Managed |-> [a \in Addr |-> "none"]]
        /\ todo = [t \in Threads |-> <<>>] /\ filter = [k \in Resources \X Addr |-> NoCalls]
        /\ raced = {} /\ stolen = {}
    BY DEF Init
  <1>2. HeapTypes
    BY <1>1, HeapNames DEF HeapTypes
  <1>3. \A S, R : ~Has(<<>>, S) /\ NoneAfter(<<>>, S, R)
    BY NoSteps
  <1>4. HeapPrograms
    BY <1>1, <1>3 DEF HeapPrograms, Good
  <1>5. ASSUME NEW S
        PROVE  Having(S) = {}
    BY <1>1, <1>3 DEF Having
  <1>6. ASSUME NEW r \in Managed, NEW a \in Addr
        PROVE  KeyClaims(r, a) /\ KeyClash(r, a)
    BY <1>5 DEF KeyClaims, KeyClash, Clash
  <1> QED
    BY <1>1, <1>2, <1>4, <1>6 DEF HeapInv

LEMMA HeapStep == HeapInv /\ Next => HeapInv'
  <1> SUFFICES ASSUME HeapInv, Next
               PROVE  HeapInv'
    OBVIOUS
  <1>1. CASE EnableTracing \/ DisableTracing \/ \E a \in Addr : Untraced(a)
    BY <1>1, EnableKeeps, DisableKeeps, UntracedKeeps
  <1>2. ASSUME NEW t \in Threads, ReleaseStep(t) \/ ReportStep(t)
        PROVE  HeapInv'
    BY <1>2, ReleaseStepKeeps, ReportStepKeeps
  <1>3. ASSUME NEW t \in Threads, NEW a \in Addr,
               \/ Malloc(t, a) \/ PosixMemalign(t, a) \/ FreeBlock(t, a)
               \/ Construct(t, a) \/ DestructBase(t, a) \/ DestructDeleting(t, a)
        PROVE  HeapInv'
    BY <1>3, MallocStep, FreeBlockStep, ConstructStep, DestructBaseStep, DestructDeletingStep
       DEF PosixMemalign
  <1>4. ASSUME NEW t \in Threads, NEW a \in Addr,
               \/ Transfer(t, a) \/ DuplicateString(t, a) \/ WideTransfer(t, a)
               \/ \E q \in Addr : Realloc(t, a, q)
        PROVE  HeapInv'
    BY <1>4, TransferStep, ReallocStep DEF DuplicateString, WideTransfer
  <1> QED
    BY <1>1, <1>2, <1>3, <1>4 DEF Next

LEMMA HeapKept == HeapInv => NoMissedLeak /\ ExactReport
  <1> SUFFICES ASSUME HeapInv, enabled, NEW r \in Managed, NEW a \in Addr
               PROVE  /\ (status[r][a] = "owned" /\ <<r, a>> \notin stolen)
                            => filter[<<r, a>>].left >= 1
                      /\ <<r, a>> \notin raced =>
                            filter[<<r, a>>].left =
                                IF \/ status[r][a] = "owned"
                                   \/ \E t \in Threads : Frees(t, r, a, FALSE)
                                THEN 1 ELSE 0
    BY DEF NoMissedLeak, ExactReport
  <1>1. KeyBooks(r, a) /\ HeapPrograms /\ stolen \subseteq raced
    BY DEF HeapInv, HeapTypes
  <1>2. status[r][a] = "owned" <=> Who(r, a) = "held"
    BY DEF Who
  <1>3. (\E t \in Threads : Frees(t, r, a, FALSE)) <=> Having(OwnFrees(r, a)) # {}
    <2>1. \A t \in Threads : Frees(t, r, a, FALSE) <=> t \in Having(OwnFrees(r, a))
      BY <1>1, FreesAreHad
    <2>2. Having(OwnFrees(r, a)) \subseteq Threads
      BY DEF Having
    <2> QED
      BY <2>1, <2>2
  <1>4. /\ <<r, a>> \notin stolen => Mark(r, a) < 3
        /\ <<r, a>> \notin raced => Mark(r, a) = 0
    BY <1>1 DEF Mark
  <1> QED
    BY <1>1, <1>2, <1>3, <1>4 DEF KeyBooks, Books

-----------------------------------------------------------------------------
(***************************************************************************)
(* Descriptors and streams.                                                *)
(*                                                                         *)
(* The steps of the wrappers of the file library, and those that write the *)
(* type of one descriptor to rt_fds or read a type for it.                 *)
(***************************************************************************)
OwnF(x) == F!F(x, FALSE)
ExtF(x) == F!F(x, TRUE)

FSteps == {F!A(x) : x \in F!Things}
            \cup {OwnF(x) : x \in F!Things} \cup {ExtF(x) : x \in F!Things \cup {F!AllFps}}
            \cup {F!SetFd(f, ty) : f \in F!FD, ty \in F!Types}
            \cup {F!GetFd(f, g) : f \in F!FD, g \in F!FD} \cup {F!CopyFd(f) : f \in F!FD}

\* close writes FD_TYPE_CLOSED to the entry of descriptor 0, which may be
\* anybody's; every other write is one by the wrapper that has the descriptor.
Stray(f, ty) == f = 0 /\ ty = "closed"
Puts(f)      == {F!SetFd(f, ty) : ty \in {u \in F!Types : ~Stray(f, u)}} \cup {F!CopyFd(f)}
Wrong(f, k)  == {F!SetFd(f, ty) : ty \in {u \in F!Types : ~Stray(f, u) /\ u # k}}
Gets(g)      == {F!GetFd(f, g) : f \in F!FD}

\* A wrapper reports one release of a resource at most and its allocation after
\* that; it reads a type for the one descriptor that it then writes.
FGood(p) ==
    /\ \A x \in F!Things :
        /\ NoneAfter(p, {OwnF(x), ExtF(x)}, {OwnF(x)})
        /\ NoneAfter(p, {F!A(x)}, {OwnF(x), ExtF(x), F!A(x)})
    /\ \A f \in F!FD : /\ NoneAfter(p, Puts(f), Gets(f))
                       /\ Has(p, Gets(f)) => Has(p, {F!CopyFd(f)})
    /\ \A f, g \in F!FD : Has(p, Puts(f)) /\ Has(p, Gets(g)) => f = g

LEMMA AllocStep ==
    ASSUME NEW x \in F!Things
    PROVE  /\ F!A(x) \in FSteps
           /\ \A y : F!A(x) # OwnF(y) /\ F!A(x) # ExtF(y) /\ (F!A(x) = F!A(y) <=> x = y)
           /\ \A f : F!A(x) \notin Puts(f) /\ F!A(x) \notin Gets(f) /\ F!A(x) # F!CopyFd(f)
           /\ \A f, k : F!A(x) \notin Wrong(f, k)
  <1>1. F!A(x) \in FSteps
    BY DEF FSteps
  <1>2. \A y : F!A(x) # OwnF(y) /\ F!A(x) # ExtF(y) /\ (F!A(x) = F!A(y) <=> x = y)
    BY DEF F!A, OwnF, ExtF, F!F
  <1>3. /\ \A f : F!A(x) \notin Puts(f) /\ F!A(x) \notin Gets(f) /\ F!A(x) # F!CopyFd(f)
        /\ \A f, k : F!A(x) \notin Wrong(f, k)
    BY DEF F!A, F!SetFd, F!CopyFd, F!GetFd, Puts, Gets, Wrong
  <1> QED
    BY <1>1, <1>2, <1>3

LEMMA OwnStep ==
    ASSUME NEW x \in F!Things
    PROVE  /\ OwnF(x) \in FSteps
           /\ \A y : OwnF(x) # F!A(y) /\ OwnF(x) # ExtF(y) /\ (OwnF(x) = OwnF(y) <=> x = y)
           /\ \A f : OwnF(x) \notin Puts(f) /\ OwnF(x) \notin Gets(f) /\ OwnF(x) # F!CopyFd(f)
           /\ \A f, k : OwnF(x) \notin Wrong(f, k)
  <1>1. OwnF(x) \in FSteps
    BY DEF FSteps
  <1>2. ASSUME NEW y
        PROVE  OwnF(x) # F!A(y) /\ OwnF(x) # ExtF(y) /\ (OwnF(x) = OwnF(y) <=> x = y)
    <2>1. /\ OwnF(x).do = "free" /\ F!A(y).do = "alloc" /\ OwnF(x).of = x /\ OwnF(y).of = y
      BY DEF F!A, OwnF, F!F
    <2>2. OwnF(x).extra = FALSE /\ ExtF(y).extra = TRUE
      BY Zenon DEF OwnF, ExtF, F!F
    <2>3. OwnF(x) # ExtF(y)
      BY <2>2, Zenon
    <2> QED
      BY <2>1, <2>3
  <1>3. /\ \A f : OwnF(x) \notin Puts(f) /\ OwnF(x) \notin Gets(f) /\ OwnF(x) # F!CopyFd(f)
        /\ \A f, k : OwnF(x) \notin Wrong(f, k)
    BY DEF OwnF, F!F, F!SetFd, F!CopyFd, F!GetFd, Puts, Gets, Wrong
  <1> QED
    BY <1>1, <1>2, <1>3

LEMMA ExtStep ==
    ASSUME NEW x \in F!Things \cup {F!AllFps}
    PROVE  /\ ExtF(x) \in FSteps
           /\ \A y : ExtF(x) # F!A(y) /\ ExtF(x) # OwnF(y) /\ (ExtF(x) = ExtF(y) <=> x = y)
           /\ \A f : ExtF(x) \notin Puts(f) /\ ExtF(x) \notin Gets(f) /\ ExtF(x) # F!CopyFd(f)
           /\ \A f, k : ExtF(x) \notin Wrong(f, k)
  <1>1. ExtF(x) \in FSteps
    BY DEF FSteps
  <1>2. ASSUME NEW y
        PROVE  ExtF(x) # F!A(y) /\ ExtF(x) # OwnF(y) /\ (ExtF(x) = ExtF(y) <=> x = y)
    <2>1. /\ ExtF(x).do = "free" /\ F!A(y).do = "alloc" /\ ExtF(x).of = x /\ ExtF(y).of = y
      BY DEF F!A, ExtF, F!F
    <2>2. ExtF(x).extra = TRUE /\ OwnF(y).extra = FALSE
      BY Zenon DEF OwnF, ExtF, F!F
    <2>3. ExtF(x) # OwnF(y)
      BY <2>2, Zenon
    <2> QED
      BY <2>1, <2>3
  <1>3. /\ \A f : ExtF(x) \notin Puts(f) /\ ExtF(x) \notin Gets(f) /\ ExtF(x) # F!CopyFd(f)
        /\ \A f, k : ExtF(x) \notin Wrong(f, k)
    BY DEF ExtF, F!F, F!SetFd, F!CopyFd, F!GetFd, Puts, Gets, Wrong
  <1> QED
    BY <1>1, <1>2, <1>3

LEMMA SetStep ==
    ASSUME NEW g \in F!FD, NEW ty \in F!Types
    PROVE  /\ F!SetFd(g, ty) \in FSteps
           /\ \A y : /\ F!SetFd(g, ty) # F!A(y) /\ F!SetFd(g, ty) # OwnF(y)
                     /\ F!SetFd(g, ty) # ExtF(y)
           /\ \A f : /\ F!SetFd(g, ty) \in Puts(f) <=> f = g /\ ~Stray(g, ty)
                     /\ F!SetFd(g, ty) \notin Gets(f) /\ F!SetFd(g, ty) # F!CopyFd(f)
           /\ \A f, k : F!SetFd(g, ty) \in Wrong(f, k) <=> f = g /\ ~Stray(g, ty) /\ k # ty
  <1>1. F!SetFd(g, ty) \in FSteps
    BY DEF FSteps
  <1>2. ASSUME NEW y
        PROVE  /\ F!SetFd(g, ty) # F!A(y) /\ F!SetFd(g, ty) # OwnF(y)
               /\ F!SetFd(g, ty) # ExtF(y)
    BY DEF F!SetFd, F!A, OwnF, ExtF, F!F
  <1>3. \A f, u : F!SetFd(g, ty) = F!SetFd(f, u) <=> f = g /\ u = ty
    BY DEF F!SetFd
  <1>4. ASSUME NEW f
        PROVE  F!SetFd(g, ty) \notin Gets(f) /\ F!SetFd(g, ty) # F!CopyFd(f)
    BY DEF F!SetFd, F!CopyFd, F!GetFd, Gets
  <1> QED
    BY <1>1, <1>2, <1>3, <1>4 DEF Puts, Wrong

LEMMA CopyStep ==
    ASSUME NEW g \in F!FD
    PROVE  /\ F!CopyFd(g) \in FSteps
           /\ \A y : F!CopyFd(g) # F!A(y) /\ F!CopyFd(g) # OwnF(y) /\ F!CopyFd(g) # ExtF(y)
           /\ \A f : /\ F!CopyFd(g) \in Puts(f) <=> f = g
                     /\ F!CopyFd(g) \notin Gets(f) /\ (F!CopyFd(g) = F!CopyFd(f) <=> f = g)
           /\ \A f, k : F!CopyFd(g) \notin Wrong(f, k)
  <1>1. F!CopyFd(g) \in FSteps
    BY DEF FSteps
  <1>2. ASSUME NEW y
        PROVE  F!CopyFd(g) # F!A(y) /\ F!CopyFd(g) # OwnF(y) /\ F!CopyFd(g) # ExtF(y)
    BY DEF F!CopyFd, F!A, OwnF, ExtF, F!F
  <1>3. \A f, u : F!CopyFd(g) # F!SetFd(f, u)
    BY DEF F!SetFd, F!CopyFd
  <1>4. ASSUME NEW f
        PROVE  F!CopyFd(g) \notin Gets(f) /\ (F!CopyFd(g) = F!CopyFd(f) <=> f = g)
    BY DEF F!CopyFd, F!GetFd, Gets
  <1> QED
    BY <1>1, <1>2, <1>3, <1>4 DEF Puts, Wrong

LEMMA GetStep ==
    ASSUME NEW o \in F!FD, NEW g \in F!FD
    PROVE  /\ F!GetFd(o, g) \in FSteps
           /\ \A y : F!GetFd(o, g) # F!A(y) /\ F!GetFd(o, g) # OwnF(y) /\ F!GetFd(o, g) # ExtF(y)
           /\ \A f : /\ F!GetFd(o, g) \in Gets(f) <=> f = g
                     /\ F!GetFd(o, g) \notin Puts(f) /\ F!GetFd(o, g) # F!CopyFd(f)
           /\ \A f, k : F!GetFd(o, g) \notin Wrong(f, k)
  <1>1. F!GetFd(o, g) \in FSteps
    BY DEF FSteps
  <1>2. ASSUME NEW y
        PROVE  F!GetFd(o, g) # F!A(y) /\ F!GetFd(o, g) # OwnF(y) /\ F!GetFd(o, g) # ExtF(y)
    BY DEF F!GetFd, F!A, OwnF, ExtF, F!F
  <1>3. ASSUME NEW f
        PROVE  F!GetFd(o, g) \in Gets(f) <=> f = g
    BY DEF F!GetFd, Gets
  <1>4. ASSUME NEW f
        PROVE  /\ F!GetFd(o, g) \notin Puts(f) /\ F!GetFd(o, g) # F!CopyFd(f)
               /\ \A k : F!GetFd(o, g) \notin Wrong(f, k)
    BY DEF F!CopyFd, F!GetFd, F!SetFd, Puts, Wrong
  <1> QED
    BY <1>1, <1>2, <1>3, <1>4

FWho(x) ==
    IF status[x] = "early" THEN "early"
    ELSE IF status[x] \in {"owned"} \cup Threads /\ Having({F!A(x)}) = {} THEN "held" ELSE "other"
FMark(x) ==
    IF x \in stolen THEN 3 ELSE IF x \in raced THEN 2 ELSE IF x \in silent THEN 1 ELSE 0

FClash(x) ==
    Clash(Having({OwnF(x)}), Having({ExtF(x)}), Having({F!A(x)}), FWho(x), FMark(x))
FBooks(x) ==
    Books(Having({OwnF(x)}), Having({ExtF(x)}), FWho(x), FMark(x), filter[x])

FStatuses == {"none", "owned", "early", "stream"} \cup Threads

FileTypes ==
    /\ DOMAIN rtfds = F!FD /\ DOMAIN noted = Threads
    /\ DOMAIN todo = Threads /\ todo = [t \in Threads |-> todo[t]]
    /\ DOMAIN filter = F!Things \cup {F!AllFps}
    /\ stolen \subseteq raced

\* What is free in the kernel (K) is nobody's (S), and the descriptor under an
\* open stream (M) is the stream's.
KernelOf(K, S, M) ==
    /\ K \in [F!FD -> F!Kinds \cup {"free", "std"}]
    /\ M \in [Streams -> F!FD \cup {F!NoFd}]
    /\ S \in [F!Things -> FStatuses]
    /\ \A f \in F!FD : S[F!Fd(f)] = "none" <=> K[f] = "free"
    /\ \A s \in Streams :
        /\ S[F!Fp(s)] \in {"none", "owned"} \cup Threads
        /\ S[F!Fp(s)] = "none" <=> M[s] = F!NoFd
        /\ M[s] # F!NoFd => S[F!Fd(M[s])] = "stream"
    /\ \A s, r \in Streams : M[s] # F!NoFd /\ M[s] = M[r] => s = r
Kernel == KernelOf(kfd, status, stream)

FilePrograms == \A t \in Threads : todo[t] \in Seq(FSteps) /\ FGood(todo[t])

\* A wrapper that has still to report what it opened, or to note its type, has
\* it; what a wrapper has stays with it until it returns.
Taken ==
    \A t \in Threads :
        /\ \A x \in F!Things : /\ t \in Having({F!A(x)}) => status[x] = t
                               /\ status[x] = t => todo[t] # <<>>
        /\ \A f \in F!FD : t \in Having(Gets(f)) => status[F!Fd(f)] = t
        /\ \A f \in F!FD : t \in Having(Puts(f)) =>
            \/ status[F!Fd(f)] = t
            \/ /\ status[F!Fd(f)] = "stream"
               /\ \E s \in Streams : stream[s] = f /\ status[F!Fp(s)] = t

\* ty is no wrong type for what is open at f.
Right(f, ty) == ty \in {kfd[f], "unknown"} \/ f \in mixed \/ Stray(f, ty)

Typed(f) ==
    /\ status[F!Fd(f)] \in {"owned", "early"} => Right(f, rtfds[f])
    /\ \A t \in Threads : status[F!Fd(f)] = t =>
        /\ t \in Having(Puts(f)) \/ Right(f, rtfds[f])
        /\ t \notin Having(Wrong(f, kfd[f]))
        /\ t \in Having({F!CopyFd(f)}) => t \in Having(Gets(f)) \/ Right(f, noted[t])

FileInv ==
    /\ FileTypes /\ Kernel /\ FilePrograms /\ Taken
    /\ \A x \in F!Things : FClash(x) /\ FBooks(x)
    /\ \A f \in F!FD : F!Tracked(f) => Typed(f)

\* What a wrapper has to meet when it starts, for a resource and a descriptor.
FStartsWell(t, p, x) ==
    /\ status'[x] \in {status[x], "none", "stream", t}
    /\ status'[x] # status[x] => status[x] \notin Threads
    /\ status'[x] = t => Has(p, {F!A(x)})
    /\ Has(p, {F!A(x)}) => status'[x] = t /\ status[x] \in {"none", "owned", "early"}
    /\ Has(p, {OwnF(x)}) => status[x] = "owned" /\ status'[x] # status[x]
    /\ Has(p, {ExtF(x)}) =>
        /\ status'[x] # status[x]
        /\ \/ status[x] = "early"
           \/ status[x] = "none" /\ (Having({OwnF(x)}) # {} => x \in stolen')
    /\ status[x] = "owned" /\ status'[x] # status[x] => Has(p, {OwnF(x)}) \/ x \in silent'
    /\ Has(p, {F!A(x)}) /\ status[x] = "none" =>
        /\ Having({OwnF(x)}) \cup Having({ExtF(x)}) # {} => x \in raced'
        /\ Having({ExtF(x)}) # {} => x \in stolen'

FTypedWell(t, p, f) ==
    /\ status'[F!Fd(f)] = status[F!Fd(f)] => kfd'[f] = kfd[f]
    /\ Has(p, Gets(f)) => status'[F!Fd(f)] = t
    /\ Has(p, Puts(f)) =>
        \/ status'[F!Fd(f)] = t
        \/ /\ status'[F!Fd(f)] = "stream"
           /\ \E s \in Streams : stream'[s] = f /\ status'[F!Fp(s)] = t
    /\ status'[F!Fd(f)] = t =>
        /\ Has(p, Puts(f)) /\ ~Has(p, Wrong(f, kfd'[f]))
        /\ Has(p, {F!CopyFd(f)}) => Has(p, Gets(f))

StreamsKept ==
    \A s \in Streams : status[F!Fp(s)] \in Threads =>
        /\ stream'[s] = stream[s]
        /\ stream[s] \in F!FD => status'[F!Fd(stream[s])] = status[F!Fd(stream[s])]

FStarts(t, p) ==
    /\ todo[t] = <<>> /\ todo' = [todo EXCEPT ![t] = p]
    /\ p \in Seq(FSteps) /\ FGood(p)
    /\ filter' = filter /\ rtfds' = rtfds /\ noted' = noted /\ mixed' = mixed
    /\ raced \subseteq raced' /\ stolen \subseteq stolen' /\ silent \subseteq silent'
    /\ FileTypes' /\ Kernel' /\ StreamsKept
    /\ \A x \in F!Things : FStartsWell(t, p, x)
    /\ \A f \in F!FD : FTypedWell(t, p, f)

LEMMA FileNames ==
    /\ \A f \in F!FD : F!Fd(f) \in F!Things
    /\ \A s \in Streams : F!Fp(s) \in F!Things
    /\ \A f, g : F!Fd(f) = F!Fd(g) <=> f = g
    /\ \A s, r : F!Fp(s) = F!Fp(r) <=> s = r
    /\ \A f, s : F!Fd(f) # F!Fp(s)
    /\ \A t \in Threads : t \notin {"none", "owned", "early", "stream"}
    /\ F!AllFps \notin F!Things
    /\ F!NoFd \notin F!FD /\ 0 \in F!FD
    /\ \A x \in F!Things : (\E f \in F!FD : x = F!Fd(f)) \/ (\E s \in Streams : x = F!Fp(s))
  <1>1. \A t \in Threads : t \notin {"none", "owned", "early", "stream"}
    BY FilesAssumption
  <1>2. F!NoFd \notin F!FD /\ 0 \in F!FD
    BY FilesAssumption DEF F!NoFd, F!FD
  <1>3. F!AllFps \notin F!Things
    BY FilesAssumption DEF F!AllFps, F!Things, F!Fds, F!Fps
  <1>4. /\ \A f \in F!FD : F!Fd(f) \in F!Things
        /\ \A s \in Streams : F!Fp(s) \in F!Things
    BY DEF F!Fd, F!Fp, F!Things, F!Fds, F!Fps
  <1>5. /\ \A f, g : F!Fd(f) = F!Fd(g) <=> f = g
        /\ \A s, r : F!Fp(s) = F!Fp(r) <=> s = r
        /\ \A f, s : F!Fd(f) # F!Fp(s)
    BY DEF F!Fd, F!Fp
  <1>6. \A x \in F!Things : (\E f \in F!FD : x = F!Fd(f)) \/ (\E s \in Streams : x = F!Fp(s))
    <2> SUFFICES ASSUME NEW x \in F!Things
                 PROVE  (\E f \in F!FD : x = F!Fd(f)) \/ (\E s \in Streams : x = F!Fp(s))
      OBVIOUS
    <2>1. CASE x \in F!Fds
      BY <2>1 DEF F!Fds, F!Fd
    <2>2. CASE x \in F!Fps
      BY <2>2 DEF F!Fps, F!Fp
    <2> QED
      BY <2>1, <2>2 DEF F!Things
  <1> QED
    BY <1>1, <1>2, <1>3, <1>4, <1>5, <1>6

LEMMA FileBegins ==
    ASSUME FileInv, NEW t \in Threads, NEW p, FStarts(t, p)
    PROVE  FileInv'
  <1>1. /\ FileTypes /\ Kernel /\ FilePrograms /\ Taken
        /\ DOMAIN todo = Threads
    BY DEF FileInv, FileTypes
  <1>2. /\ todo[t] = <<>> /\ todo' = [todo EXCEPT ![t] = p]
        /\ p \in Seq(FSteps) /\ FGood(p)
        /\ filter' = filter /\ rtfds' = rtfds /\ noted' = noted /\ mixed' = mixed
        /\ raced \subseteq raced' /\ stolen \subseteq stolen' /\ silent \subseteq silent'
        /\ FileTypes' /\ Kernel' /\ StreamsKept
        /\ \A x \in F!Things : FStartsWell(t, p, x)
        /\ \A f \in F!FD : FTypedWell(t, p, f)
    BY DEF FStarts
  <1>3. FilePrograms'
    <2>1. \A u \in Threads : todo'[u] \in Seq(FSteps) /\ FGood(todo'[u])
      BY <1>1, <1>2 DEF FilePrograms
    <2> QED
      BY <2>1 DEF FilePrograms, FGood
  <1>4. ASSUME NEW S
        PROVE  /\ t \notin Having(S)
               /\ Having(S)' = IF Has(p, S) THEN Having(S) \cup {t} ELSE Having(S)
    <2>1. t \notin Having(S)
      BY <1>2, NoSteps DEF Having
    <2>2. Having(S)' = IF Has(p, S) THEN Having(S) \cup {t} ELSE Having(S) \ {t}
      BY <1>1, <1>2, HavingChanged
    <2> QED
      BY <2>1, <2>2
  <1>5. ASSUME NEW S
        PROVE  t \in Having(S)' <=> Has(p, S)
    BY <1>4
  <1>6. ASSUME NEW S, NEW u \in Threads, u # t
        PROVE  u \in Having(S)' <=> u \in Having(S)
    BY <1>4, <1>6
  <1>7. \A x \in F!Things : status[x] # t
    BY <1>1, <1>2 DEF Taken
  <1>8. Taken'
    <2>1. ASSUME NEW u \in Threads, NEW x \in F!Things
          PROVE  /\ u \in Having({F!A(x)})' => status'[x] = u
                 /\ status'[x] = u => todo'[u] # <<>>
      <3>1. FStartsWell(t, p, x)
        BY <1>2
      <3>2. CASE u = t
        <4>1. t \in Having({F!A(x)})' => status'[x] = t
          BY <1>5, <3>1 DEF FStartsWell
        <4>2. status'[x] = t => p # <<>>
          BY <3>1, NoSteps DEF FStartsWell
        <4> QED
          BY <1>1, <1>2, <3>2, <4>1, <4>2
      <3>3. CASE u # t
        <4>1. u \in Having({F!A(x)}) => status[x] = u
          BY <1>1 DEF Taken
        <4>2. status[x] = u => status'[x] = u
          BY <3>1 DEF FStartsWell
        <4>3. status'[x] = u => status[x] = u
          BY <3>1, <3>3, FileNames DEF FStartsWell
        <4>4. status[x] = u => todo[u] # <<>>
          BY <1>1 DEF Taken
        <4>5. todo'[u] = todo[u]
          BY <1>1, <1>2, <3>3
        <4> QED
          BY <1>6, <3>3, <4>1, <4>2, <4>3, <4>4, <4>5
      <3> QED
        BY <3>2, <3>3
    <2>2. ASSUME NEW u \in Threads, NEW f \in F!FD
          PROVE  u \in Having(Gets(f))' => status'[F!Fd(f)] = u
      <3>1. FTypedWell(t, p, f) /\ FStartsWell(t, p, F!Fd(f))
        BY <1>2, FileNames
      <3>2. CASE u = t
        BY <1>5, <3>1, <3>2 DEF FTypedWell
      <3>3. CASE u # t
        <4>1. u \in Having(Gets(f)) => status[F!Fd(f)] = u
          BY <1>1 DEF Taken
        <4>2. status[F!Fd(f)] = u => status'[F!Fd(f)] = u
          BY <3>1 DEF FStartsWell
        <4> QED
          BY <1>6, <3>3, <4>1, <4>2
      <3> QED
        BY <3>2, <3>3
    <2>3. ASSUME NEW u \in Threads, NEW f \in F!FD, u \in Having(Puts(f))'
          PROVE  \/ status'[F!Fd(f)] = u
                 \/ /\ status'[F!Fd(f)] = "stream"
                    /\ \E s \in Streams : stream'[s] = f /\ status'[F!Fp(s)] = u
      <3>1. FTypedWell(t, p, f) /\ FStartsWell(t, p, F!Fd(f))
        BY <1>2, FileNames
      <3>2. CASE u = t
        <4>1. Has(p, Puts(f))
          BY <1>5, <2>3, <3>2
        <4> QED
          BY <3>1, <3>2, <4>1 DEF FTypedWell
      <3>3. CASE u # t
        <4>1. u \in Having(Puts(f))
          BY <1>6, <2>3, <3>3
        <4>2. \/ status[F!Fd(f)] = u
              \/ /\ status[F!Fd(f)] = "stream"
                 /\ \E s \in Streams : stream[s] = f /\ status[F!Fp(s)] = u
          BY <1>1, <4>1 DEF Taken
        <4>3. CASE status[F!Fd(f)] = u
          BY <3>1, <4>3 DEF FStartsWell
        <4>4. ASSUME status[F!Fd(f)] = "stream", NEW s \in Streams, stream[s] = f,
                     status[F!Fp(s)] = u
              PROVE  status'[F!Fd(f)] = "stream" /\ stream'[s] = f /\ status'[F!Fp(s)] = u
          <5>1. stream'[s] = f /\ status'[F!Fd(f)] = "stream"
            BY <1>2, <4>4 DEF StreamsKept
          <5>2. FStartsWell(t, p, F!Fp(s))
            BY <1>2, FileNames
          <5>3. status'[F!Fp(s)] = u
            BY <4>4, <5>2 DEF FStartsWell
          <5> QED
            BY <5>1, <5>3
        <4> QED
          BY <4>2, <4>3, <4>4
      <3> QED
        BY <3>2, <3>3
    <2> QED
      BY <2>1, <2>2, <2>3 DEF Taken
  <1>9. ASSUME NEW x \in F!Things
        PROVE  FClash(x)' /\ FBooks(x)'
    <2> DEFINE own  == Having({OwnF(x)})
               ext  == Having({ExtF(x)})
               tak  == Having({F!A(x)})
               who  == FWho(x)
               mark == FMark(x)
               own2  == Having({OwnF(x)})'
               ext2  == Having({ExtF(x)})'
               tak2  == Having({F!A(x)})'
               who2  == FWho(x)'
               mark2 == FMark(x)'
    <2>1. FStartsWell(t, p, x)
      BY <1>2
    <2>2. /\ own2 \in {own, own \cup {t}} /\ (t \in own2 <=> Has(p, {OwnF(x)})) /\ t \notin own
          /\ ext2 \in {ext, ext \cup {t}} /\ (t \in ext2 <=> Has(p, {ExtF(x)})) /\ t \notin ext
          /\ tak2 \in {tak, tak \cup {t}} /\ (t \in tak2 <=> Has(p, {F!A(x)})) /\ t \notin tak
      BY <1>4
    <2>3. mark \in 0..3 /\ mark2 \in mark..3
      BY <1>2 DEF FMark, FileTypes
    <2>4. /\ \A u \in tak : status[x] = u
          /\ tak \subseteq Threads
      BY <1>1 DEF Taken, Having
    <2>5. who2 \in {who, "other"} /\ (status'[x] # status[x] => who2 = "other" /\ tak = {})
      <3>1. CASE status'[x] = status[x]
        <4>1. ~Has(p, {F!A(x)})
          BY <1>7, <2>1, <3>1 DEF FStartsWell
        <4>2. tak2 = tak
          BY <2>2, <4>1
        <4> QED
          BY <3>1, <4>2 DEF FWho
      <3>2. CASE status'[x] # status[x]
        <4>1. tak = {}
          BY <2>1, <2>4, <3>2 DEF FStartsWell
        <4>2. status'[x] \in {"none", "stream"} \/ (status'[x] = t /\ t \in tak2)
          BY <2>1, <2>2, <3>2 DEF FStartsWell
        <4>3. t # "early" /\ "none" \notin Threads /\ "stream" \notin Threads
          BY FileNames
        <4>4. who2 = "other"
          BY <4>2, <4>3 DEF FWho
        <4> QED
          BY <3>2, <4>1, <4>4
      <3> QED
        BY <3>1, <3>2
    <2>6. t \in own2 \/ t \in ext2 \/ t \in tak2 => status'[x] # status[x]
      BY <1>7, <2>1, <2>2 DEF FStartsWell
    <2>7. /\ status[x] = "owned" => tak = {} /\ who = "held"
          /\ status[x] = "early" <=> who = "early"
      <3>1. "owned" \notin Threads /\ "early" # "owned"
        BY FileNames
      <3> QED
        BY <2>4, <3>1 DEF FWho
    <2>8. /\ t \in own2 => who = "held"
          /\ t \in ext2 => who = "early" \/ t \in own2 \/ own = {} \/ mark2 = 3
      BY <2>1, <2>2, <2>7 DEF FStartsWell, FMark
    <2>9. who = "held" /\ who2 = "other" => t \in own2 \/ mark2 >= 1
      <3>1. CASE status'[x] = status[x]
        <4>1. ~Has(p, {F!A(x)})
          BY <1>7, <2>1, <3>1 DEF FStartsWell
        <4>2. tak2 = tak
          BY <2>2, <4>1
        <4>3. who2 = who
          BY <3>1, <4>2 DEF FWho
        <4> QED
          BY <4>3
      <3>2. CASE status'[x] # status[x]
        <4>1. who = "held" => status[x] = "owned"
          BY <2>1, <3>2 DEF FWho, FStartsWell
        <4>2. status[x] = "owned" => t \in own2 \/ x \in silent'
          BY <2>1, <2>2, <3>2 DEF FStartsWell
        <4>3. x \in silent' => mark2 >= 1
          BY DEF FMark
        <4> QED
          BY <4>1, <4>2, <4>3
      <3> QED
        BY <3>1, <3>2
    <2>10. t \in tak2 /\ who = "other" => /\ own \cup ext # {} => mark2 >= 2
                                          /\ ext # {} => mark2 = 3
      <3>1. t \in tak2 /\ who = "other" => status[x] = "none"
        BY <2>1, <2>2, <2>7 DEF FStartsWell
      <3>2. t \in tak2 /\ who = "other" => /\ own \cup ext # {} => x \in raced'
                                           /\ ext # {} => x \in stolen'
        BY <2>1, <2>2, <3>1 DEF FStartsWell
      <3>3. (x \in raced' => mark2 >= 2) /\ (x \in stolen' => mark2 = 3)
        BY DEF FMark
      <3> QED
        BY <3>2, <3>3
    <2>11. Clash(own, ext, tak, who, mark) /\ Books(own, ext, who, mark, filter[x])
      BY DEF FileInv, FClash, FBooks
    <2>12. FClash(x)' <=> Clash(own2, ext2, tak2, who2, mark2)
      BY DEF FClash, Clash
    <2>13. FBooks(x)' <=> Books(own2, ext2, who2, mark2, filter'[x])
      BY DEF FBooks, Books, Two
    <2> HIDE DEF own, ext, tak, who, mark, own2, ext2, tak2, who2, mark2
    <2>14. LedgerStarts(own, ext, tak, who, mark, t, own2, ext2, tak2, who2, mark2)
      BY <2>2, <2>3, <2>5, <2>6, <2>8, <2>9, <2>10 DEF LedgerStarts
    <2>15. /\ Clash(own2, ext2, tak2, who2, mark2)
           /\ Books(own, ext, who, mark, filter[x]) => Books(own2, ext2, who2, mark2, filter[x])
      BY <2>11, <2>14, LedgerBegin
    <2> QED
      BY <1>2, <2>11, <2>12, <2>13, <2>15
  <1>10. ASSUME NEW f \in F!FD, F!Tracked(f)
         PROVE  Typed(f)'
    <2>1. Typed(f)
      BY <1>10 DEF FileInv
    <2>2. FTypedWell(t, p, f) /\ FStartsWell(t, p, F!Fd(f))
      BY <1>2, FileNames
    <2>3. CASE status'[F!Fd(f)] = status[F!Fd(f)]
      <3>1. kfd'[f] = kfd[f]
        BY <2>2, <2>3 DEF FTypedWell
      <3>2. ASSUME NEW ty
            PROVE  Right(f, ty)' <=> Right(f, ty)
        BY <1>2, <3>1 DEF Right
      <3>3. Right(f, rtfds[f])' <=> Right(f, rtfds[f])
        BY <1>2, <3>1 DEF Right
      <3>4. ASSUME NEW u \in Threads, status'[F!Fd(f)] = u
            PROVE  /\ u \in Having(Puts(f))' \/ Right(f, rtfds[f])'
                   /\ u \notin Having(Wrong(f, kfd[f]))'
                   /\ u \in Having({F!CopyFd(f)})' =>
                        u \in Having(Gets(f))' \/ Right(f, noted[u])'
        <4>1. u # t
          BY <1>7, <2>3, <3>4, FileNames
        <4>2. /\ u \in Having(Puts(f))' <=> u \in Having(Puts(f))
              /\ u \in Having({F!CopyFd(f)})' <=> u \in Having({F!CopyFd(f)})
              /\ u \in Having(Gets(f))' <=> u \in Having(Gets(f))
          BY <1>6, <4>1
        <4>3. Right(f, noted[u])' <=> Right(f, noted[u])
          BY <1>2, <3>1 DEF Right
        <4>4. u \in Having(Wrong(f, kfd[f]))' <=> u \in Having(Wrong(f, kfd[f]))
          <5> DEFINE W == Wrong(f, kfd[f])
          <5>1. W' = W
            BY <3>1 DEF Wrong
          <5>2. Having(W)' = {v \in Threads : Has(todo'[v], W)}
            BY <5>1 DEF Having, Has
          <5>3. todo'[u] = todo[u]
            BY <1>1, <1>2, <4>1
          <5> QED
            BY <5>2, <5>3 DEF Having
        <4> QED
          BY <2>1, <2>3, <3>3, <3>4, <4>2, <4>3, <4>4 DEF Typed
      <3> QED
        BY <1>2, <2>1, <2>3, <3>3, <3>4 DEF Typed
    <2>4. CASE status'[F!Fd(f)] # status[F!Fd(f)]
      <3>1. status'[F!Fd(f)] \in {"none", "stream", t}
        BY <2>2, <2>4 DEF FStartsWell
      <3>2. CASE status'[F!Fd(f)] \in {"none", "stream"}
        <4>1. \A u \in Threads : status'[F!Fd(f)] # u
          BY <3>2, FileNames
        <4>2. status'[F!Fd(f)] # "early" /\ status'[F!Fd(f)] # "owned"
          BY <3>2
        <4> QED
          BY <4>1, <4>2 DEF Typed
      <3>3. CASE status'[F!Fd(f)] = t
        <4>1. t # "early" /\ t # "owned"
          BY FileNames
        <4>2. /\ Has(p, Puts(f)) /\ ~Has(p, Wrong(f, kfd'[f]))
              /\ Has(p, {F!CopyFd(f)}) => Has(p, Gets(f))
          BY <2>2, <3>3 DEF FTypedWell
        <4>3. t \in Having(Puts(f))' /\ (t \in Having({F!CopyFd(f)})' => t \in Having(Gets(f))')
          BY <1>5, <4>2
        <4>4. t \notin Having(Wrong(f, kfd[f]))'
          <5>1. Having(Wrong(f, kfd[f]))' = {v \in Threads : Has(todo'[v], Wrong(f, kfd'[f]))}
            BY DEF Having, Has, Wrong
          <5>2. todo'[t] = p
            BY <1>1, <1>2
          <5> QED
            BY <4>2, <5>1, <5>2
        <4> QED
          BY <3>3, <4>1, <4>3, <4>4 DEF Typed
      <3> QED
        BY <3>1, <3>2, <3>3
    <2> QED
      BY <2>3, <2>4
  <1> QED
    BY <1>2, <1>3, <1>8, <1>9, <1>10 DEF FileInv

LEMMA KernelFd ==
    ASSUME NEW K, NEW S, NEW M, KernelOf(K, S, M), NEW f \in F!FD,
           NEW k \in F!Kinds \cup {"free", "std"}, NEW v \in FStatuses,
           v = "none" <=> k = "free", S[F!Fd(f)] # "stream"
    PROVE  KernelOf([K EXCEPT ![f] = k], [S EXCEPT ![F!Fd(f)] = v], M)
  <1> DEFINE K2 == [K EXCEPT ![f] = k]
             S2 == [S EXCEPT ![F!Fd(f)] = v]
  <1> HIDE DEF FStatuses
  <1>1. /\ K \in [F!FD -> F!Kinds \cup {"free", "std"}]
        /\ M \in [Streams -> F!FD \cup {F!NoFd}]
        /\ S \in [F!Things -> FStatuses]
    BY DEF KernelOf
  <1>2. /\ K2 \in [F!FD -> F!Kinds \cup {"free", "std"}]
        /\ \A g \in F!FD : K2[g] = IF g = f THEN k ELSE K[g]
    BY <1>1
  <1>3. S2 \in [F!Things -> FStatuses] /\ \A x \in F!Things : S2[x] = IF x = F!Fd(f) THEN v ELSE S[x]
    BY <1>1, FileNames
  <1>4. \A g \in F!FD : S2[F!Fd(g)] = IF g = f THEN v ELSE S[F!Fd(g)]
    BY <1>3, FileNames
  <1>5. \A s \in Streams : S2[F!Fp(s)] = S[F!Fp(s)]
    BY <1>3, FileNames
  <1> HIDE DEF K2, S2
  <1>6. \A g \in F!FD : S2[F!Fd(g)] = "none" <=> K2[g] = "free"
    BY <1>2, <1>4, FileNames DEF KernelOf
  <1>7. ASSUME NEW s \in Streams
        PROVE  /\ S2[F!Fp(s)] \in {"none", "owned"} \cup Threads
               /\ S2[F!Fp(s)] = "none" <=> M[s] = F!NoFd
               /\ M[s] # F!NoFd => S2[F!Fd(M[s])] = "stream"
    BY <1>1, <1>4, <1>5 DEF KernelOf
  <1>8. \A s, r \in Streams : M[s] # F!NoFd /\ M[s] = M[r] => s = r
    BY DEF KernelOf
  <1>9. KernelOf(K2, S2, M)
    BY <1>1, <1>2, <1>3, <1>6, <1>7, <1>8 DEF KernelOf
  <1> QED
    BY <1>9 DEF K2, S2

\* A program that does not concern a resource or a descriptor.
Quiet(p, x)   == ~Has(p, {OwnF(x)}) /\ ~Has(p, {ExtF(x)}) /\ ~Has(p, {F!A(x)})
QuietFd(p, f) == ~Has(p, Gets(f)) /\ ~Has(p, Puts(f))

\* A wrapper that changes the owner of one descriptor.
OneFd(t, p, f, v, k) ==
    /\ todo[t] = <<>> /\ todo' = [todo EXCEPT ![t] = p]
    /\ p \in Seq(FSteps) /\ FGood(p)
    /\ filter' = filter /\ rtfds' = rtfds /\ noted' = noted /\ mixed' = mixed
    /\ raced \subseteq raced' /\ stolen \subseteq stolen' /\ silent \subseteq silent'
    /\ stolen' \subseteq raced'
    /\ status' = [status EXCEPT ![F!Fd(f)] = v]
    /\ kfd' = [kfd EXCEPT ![f] = k]
    /\ stream' = stream
    /\ k \in F!Kinds \cup {"free", "std"} /\ v \in FStatuses /\ (v = "none" <=> k = "free")
    /\ status[F!Fd(f)] # "stream"
    /\ \A x \in F!Things : x # F!Fd(f) => Quiet(p, x)
    /\ \A g \in F!FD : g # f => QuietFd(p, g)

LEMMA OneFdBegins ==
    ASSUME FileInv, NEW t \in Threads, NEW p, NEW f \in F!FD, NEW v, NEW k,
           OneFd(t, p, f, v, k), FStartsWell(t, p, F!Fd(f)), FTypedWell(t, p, f)
    PROVE  FileInv'
  <1>1. FileTypes /\ Kernel /\ Taken
    BY DEF FileInv
  <1>2. Kernel'
    <2>1. KernelOf([kfd EXCEPT ![f] = k], [status EXCEPT ![F!Fd(f)] = v], stream)
      BY <1>1, KernelFd DEF OneFd, Kernel
    <2>2. KernelOf(kfd', status', stream')
      BY <2>1 DEF OneFd
    <2> QED
      BY <2>2 DEF Kernel, KernelOf, FStatuses
  <1>3. FileTypes'
    BY <1>1 DEF FileTypes, OneFd
  <1>4. status \in [F!Things -> FStatuses] /\ kfd \in [F!FD -> F!Kinds \cup {"free", "std"}]
    BY <1>1 DEF Kernel, KernelOf
  <1>5. \A x \in F!Things : x # F!Fd(f) => status'[x] = status[x]
    BY <1>4 DEF OneFd
  <1>6. \A g \in F!FD : g # f => kfd'[g] = kfd[g] /\ status'[F!Fd(g)] = status[F!Fd(g)]
    BY <1>4, <1>5, FileNames DEF OneFd
  <1>7. StreamsKept
    <2> SUFFICES ASSUME NEW s \in Streams, stream[s] \in F!FD
                 PROVE  status'[F!Fd(stream[s])] = status[F!Fd(stream[s])]
      BY DEF StreamsKept, OneFd
    <2>1. status[F!Fd(stream[s])] = "stream"
      BY <1>1, FileNames DEF Kernel, KernelOf
    <2>2. stream[s] # f
      BY <2>1 DEF OneFd
    <2> QED
      BY <1>6, <2>2
  <1>8. \A x \in F!Things : status[x] # t
    BY <1>1 DEF Taken, OneFd
  <1>9. ASSUME NEW x \in F!Things
        PROVE  FStartsWell(t, p, x)
    <2>1. CASE x # F!Fd(f)
      <3>1. Quiet(p, x) /\ status'[x] = status[x]
        BY <1>5, <2>1 DEF OneFd
      <3> QED
        BY <1>8, <3>1 DEF Quiet, FStartsWell
    <2> QED
      BY <2>1
  <1>10. ASSUME NEW g \in F!FD
         PROVE  FTypedWell(t, p, g)
    <2>1. CASE g # f
      <3>1. QuietFd(p, g) /\ status'[F!Fd(g)] = status[F!Fd(g)] /\ kfd'[g] = kfd[g]
        BY <1>6, <2>1 DEF OneFd
      <3>2. status[F!Fd(g)] # t
        BY <1>8, FileNames
      <3> QED
        BY <3>1, <3>2 DEF QuietFd, FTypedWell
    <2> QED
      BY <2>1
  <1>11. FStarts(t, p)
    BY <1>2, <1>3, <1>7, <1>9, <1>10 DEF FStarts, OneFd
  <1> QED
    BY <1>11, FileBegins

LEMMA FreeOf ==
    ASSUME NEW x
    PROVE  F!F(x, F!Extra(x)) = IF status[x] \in {"early", "none"} THEN ExtF(x) ELSE OwnF(x)
  <1>1. CASE F!Extra(x)
    <2>1. F!Extra(x) = TRUE
      BY <1>1 DEF F!Extra
    <2> QED
      BY <1>1, <2>1, Zenon DEF F!Extra, ExtF
  <1>2. CASE ~F!Extra(x)
    <2>1. F!Extra(x) = FALSE
      BY <1>2 DEF F!Extra
    <2> QED
      BY <1>2, <2>1, Zenon DEF F!Extra, OwnF
  <1> QED
    BY <1>1, <1>2

LEMMA LowestIsIn ==
    ASSUME NEW S, S \subseteq F!FD, S # {}
    PROVE  F!Lowest(S) \in S
  <1>1. S \in SUBSET Nat
    BY DEF F!FD
  <1>2. \E x \in S : \A y \in S : x <= y
    BY <1>1, LeastElement
  <1> QED
    BY <1>2, Zenon DEF F!Lowest

LEMMA FreeFd ==
    ASSUME Kernel, NEW from, F!FreeFds(from) # {}
    PROVE  LET f == F!Lowest(F!FreeFds(from))
           IN  f \in F!FD /\ kfd[f] = "free" /\ status[F!Fd(f)] = "none"
  <1>1. F!FreeFds(from) \subseteq F!FD
    BY DEF F!FreeFds
  <1>2. F!Lowest(F!FreeFds(from)) \in F!FreeFds(from)
    BY <1>1, LowestIsIn
  <1> QED
    BY <1>2 DEF F!FreeFds, Kernel, KernelOf

LEMMA FileFrees ==
    ASSUME NEW t \in Threads, NEW x
    PROVE  /\ F!Frees(t, x, FALSE) <=> t \in Having({OwnF(x)})
           /\ F!Frees(t, x, TRUE) <=> t \in Having({ExtF(x)})
  BY Zenon DEF F!Frees, Having, Has, OwnF, ExtF

LEMMA FileGivenOut ==
    ASSUME FileInv, NEW xs, NEW unowned, F!GiveOut(xs, unowned)
    PROVE  /\ raced \subseteq raced' /\ stolen \subseteq stolen' /\ stolen' \subseteq raced'
           /\ \A x \in xs :
                /\ Having({OwnF(x)}) \cup Having({ExtF(x)}) # {} =>
                        x \in raced' /\ (x \in unowned => x \in stolen')
                /\ Having({ExtF(x)}) # {} => x \in stolen'
  <1>1. stolen \subseteq raced
    BY DEF FileInv, FileTypes
  <1>2. ASSUME NEW x
        PROVE  /\ F!PendingFrees(x) = Having({OwnF(x)}) \cup Having({ExtF(x)})
               /\ (\E t \in Threads : F!Frees(t, x, TRUE)) <=> Having({ExtF(x)}) # {}
    <2>1. \A t \in Threads : /\ F!Frees(t, x, FALSE) <=> t \in Having({OwnF(x)})
                             /\ F!Frees(t, x, TRUE) <=> t \in Having({ExtF(x)})
      BY FileFrees
    <2>2. Having({OwnF(x)}) \subseteq Threads /\ Having({ExtF(x)}) \subseteq Threads
      BY DEF Having
    <2> QED
      BY <2>1, <2>2 DEF F!PendingFrees
  <1> DEFINE again == {x \in xs : F!PendingFrees(x) # {}}
             taken == {x \in again : x \in unowned \/ \E t \in Threads : F!Frees(t, x, TRUE)}
  <1>3. raced' = raced \cup again /\ stolen' = stolen \cup taken
    BY DEF F!GiveOut
  <1>4. ASSUME NEW x \in xs
        PROVE  /\ Having({OwnF(x)}) \cup Having({ExtF(x)}) # {} =>
                        x \in raced' /\ (x \in unowned => x \in stolen')
               /\ Having({ExtF(x)}) # {} => x \in stolen'
    BY <1>2, <1>3
  <1> QED
    BY <1>1, <1>3, <1>4

LEMMA KindNames ==
    /\ "file" \in F!Kinds /\ "socket" \in F!Kinds
    /\ Single \subseteq F!Kinds /\ Paired \subseteq F!Kinds
    /\ \A k \in F!Kinds : k # "free" /\ k \in F!Types /\ \A f : ~Stray(f, k)
    /\ "closed" \in F!Types /\ Stray(0, "closed")
  BY FilesAssumption DEF F!Kinds, F!Types, Stray

LEMMA FileBeginFacts ==
    ASSUME NEW t, NEW p, F!Begin(t, p)
    PROVE  /\ todo[t] = <<>> /\ todo' = [todo EXCEPT ![t] = p]
           /\ filter' = filter /\ rtfds' = rtfds /\ noted' = noted /\ mixed' = mixed
  BY DEF F!Begin, F!Idle

LEMMA OpenOneStep ==
    ASSUME FileInv, NEW t \in Threads, NEW kind \in F!Kinds, F!OpenOne(t, kind)
    PROVE  FileInv'
  <1> DEFINE f == F!Lowest(F!FreeFds(0))
             x == F!Fd(f)
             p1 == F!A(x)
             p2 == F!SetFd(f, kind)
             p == <<p1, p2>>
  <1>1. f \in F!FD /\ kfd[f] = "free" /\ status[x] = "none"
    <2>1. Kernel /\ F!FreeFds(0) # {}
      BY DEF FileInv, F!OpenOne
    <2> QED
      BY <2>1, FreeFd
  <1>2. /\ F!Begin(t, p) /\ kfd' = [kfd EXCEPT ![f] = kind]
        /\ status' = [status EXCEPT ![x] = t] /\ F!GiveOut({x}, {})
        /\ stream' = stream /\ silent' = silent
    BY DEF F!OpenOne
  <1> HIDE DEF f
  <1>3. x \in F!Things /\ \A y : x = y <=> y = F!Fd(f)
    BY <1>1, FileNames
  <1>4. /\ p1 \in FSteps
        /\ \A y : p1 # OwnF(y) /\ p1 # ExtF(y) /\ (p1 = F!A(y) <=> x = y)
        /\ \A g : p1 \notin Puts(g) /\ p1 \notin Gets(g) /\ p1 # F!CopyFd(g)
        /\ \A g, k : p1 \notin Wrong(g, k)
    BY <1>3, AllocStep
  <1>5. /\ p2 \in FSteps
        /\ \A y : p2 # F!A(y) /\ p2 # OwnF(y) /\ p2 # ExtF(y)
        /\ \A g : (p2 \in Puts(g) <=> g = f) /\ p2 \notin Gets(g) /\ p2 # F!CopyFd(g)
        /\ \A g, k : p2 \in Wrong(g, k) <=> g = f /\ k # kind
    BY <1>1, KindNames, SetStep
  <1> HIDE DEF p1, p2, x
  <1>6. p \in Seq(FSteps)
    BY <1>4, <1>5
  <1>7. \A S, R : (Has(p, S) <=> p1 \in S \/ p2 \in S)
                    /\ (NoneAfter(p, S, R) <=> (p1 \in S => p2 \notin R))
    BY TwoSteps
  <1> HIDE DEF p
  <1>8. FGood(p)
    BY <1>4, <1>5, <1>7 DEF FGood
  <1>9. /\ \A y \in F!Things : y # x => Quiet(p, y)
        /\ \A g \in F!FD : g # f => QuietFd(p, g)
    BY <1>4, <1>5, <1>7 DEF Quiet, QuietFd
  <1>10. /\ raced \subseteq raced' /\ stolen \subseteq stolen' /\ stolen' \subseteq raced'
         /\ Having({OwnF(x)}) \cup Having({ExtF(x)}) # {} => x \in raced'
         /\ Having({ExtF(x)}) # {} => x \in stolen'
    BY <1>2, FileGivenOut
  <1>11. /\ kind \in F!Kinds \cup {"free", "std"} /\ t \in FStatuses
         /\ t = "none" <=> kind = "free"
    BY KindNames, FileNames DEF FStatuses
  <1>12. OneFd(t, p, f, t, kind)
    BY <1>1, <1>2, <1>6, <1>8, <1>9, <1>10, <1>11, FileBeginFacts DEF OneFd, x
  <1>13. status'[x] = t /\ kfd'[f] = kind
    BY <1>1, <1>2, <1>3 DEF FileInv, Kernel, KernelOf
  <1>14. FStartsWell(t, p, x)
    <2>1. Has(p, {F!A(x)}) /\ ~Has(p, {OwnF(x)}) /\ ~Has(p, {ExtF(x)})
      BY <1>4, <1>5, <1>7
    <2>2. t # "none" /\ "none" \notin Threads
      BY FileNames
    <2> QED
      BY <1>1, <1>10, <1>13, <2>1, <2>2 DEF FStartsWell
  <1>15. FTypedWell(t, p, f)
    <2>1. /\ ~Has(p, Gets(f)) /\ Has(p, Puts(f)) /\ ~Has(p, Wrong(f, kind))
          /\ ~Has(p, {F!CopyFd(f)})
      BY <1>4, <1>5, <1>7
    <2>2. status'[x] # status[x]
      BY <1>1, <1>13, FileNames
    <2> QED
      BY <1>13, <2>1, <2>2 DEF FTypedWell, x
  <1> QED
    BY <1>1, <1>12, <1>14, <1>15, OneFdBegins DEF x

LEMMA BindStep ==
    ASSUME FileInv, NEW t \in Threads, NEW f \in F!FD, F!BindCommon(t, f)
    PROVE  FileInv'
  <1> DEFINE x == F!Fd(f)
             p1 == F!F(x, F!Extra(x))
             p2 == F!A(x)
             p3 == F!SetFd(f, "socket")
             p == <<p1, p2, p3>>
  <1>1. /\ status[x] \in {"owned", "early"} /\ kfd[f] = "socket"
        /\ F!Begin(t, p) /\ status' = [status EXCEPT ![x] = t]
        /\ kfd' = kfd /\ stream' = stream /\ raced' = raced /\ stolen' = stolen /\ silent' = silent
    BY DEF F!BindCommon, F!Held
  <1>2. /\ f \in F!FD /\ stolen \subseteq raced
        /\ status \in [F!Things -> FStatuses] /\ kfd \in [F!FD -> F!Kinds \cup {"free", "std"}]
    BY <1>1 DEF FileInv, Kernel, KernelOf, FileTypes
  <1>3. x \in F!Things
    BY FileNames
  <1>4. p1 = IF status[x] = "early" THEN ExtF(x) ELSE OwnF(x)
    BY <1>1, FreeOf
  <1>5. /\ p1 \in FSteps
        /\ \A y : /\ p1 # F!A(y)
                  /\ p1 = OwnF(y) <=> x = y /\ status[x] = "owned"
                  /\ p1 = ExtF(y) <=> x = y /\ status[x] = "early"
        /\ \A g : p1 \notin Puts(g) /\ p1 \notin Gets(g) /\ p1 # F!CopyFd(g)
        /\ \A g, k : p1 \notin Wrong(g, k)
    BY <1>1, <1>3, <1>4, OwnStep, ExtStep
  <1>6. /\ p2 \in FSteps
        /\ \A y : p2 # OwnF(y) /\ p2 # ExtF(y) /\ (p2 = F!A(y) <=> x = y)
        /\ \A g : p2 \notin Puts(g) /\ p2 \notin Gets(g) /\ p2 # F!CopyFd(g)
        /\ \A g, k : p2 \notin Wrong(g, k)
    BY <1>3, AllocStep
  <1>7. /\ p3 \in FSteps
        /\ \A y : p3 # F!A(y) /\ p3 # OwnF(y) /\ p3 # ExtF(y)
        /\ \A g : (p3 \in Puts(g) <=> g = f) /\ p3 \notin Gets(g) /\ p3 # F!CopyFd(g)
        /\ \A g, k : p3 \in Wrong(g, k) <=> g = f /\ k # "socket"
    BY <1>2, KindNames, SetStep
  <1> HIDE DEF p1, p2, p3, x
  <1>8. p \in Seq(FSteps)
    BY <1>5, <1>6, <1>7
  <1>9. \A S, R : /\ Has(p, S) <=> p1 \in S \/ p2 \in S \/ p3 \in S
                  /\ NoneAfter(p, S, R) <=> /\ p1 \in S => p2 \notin R /\ p3 \notin R
                                            /\ p2 \in S => p3 \notin R
    BY ThreeSteps
  <1> HIDE DEF p
  <1>10. FGood(p)
    BY <1>5, <1>6, <1>7, <1>9 DEF FGood
  <1>11. /\ \A y \in F!Things : y # x => Quiet(p, y)
         /\ \A g \in F!FD : g # f => QuietFd(p, g)
    BY <1>5, <1>6, <1>7, <1>9 DEF Quiet, QuietFd
  <1>12. t \in FStatuses /\ t # "none" /\ kfd' = [kfd EXCEPT ![f] = "socket"]
    BY <1>1, <1>2, FileNames DEF FStatuses
  <1>13. "socket" \in F!Kinds \cup {"free", "std"} /\ "socket" # "free"
    BY KindNames
  <1>14. OneFd(t, p, f, t, "socket")
    BY <1>1, <1>2, <1>8, <1>10, <1>11, <1>12, <1>13, FileBeginFacts DEF OneFd, x
  <1>15. status'[x] = t
    BY <1>1, <1>2, <1>3
  <1>16. FStartsWell(t, p, x)
    <2>1. /\ Has(p, {F!A(x)}) /\ (Has(p, {OwnF(x)}) <=> status[x] = "owned")
          /\ Has(p, {ExtF(x)}) <=> status[x] = "early"
      BY <1>5, <1>6, <1>7, <1>9
    <2>2. /\ t \notin {"none", "owned", "early", "stream"}
          /\ "owned" \notin Threads /\ "early" \notin Threads
      BY FileNames
    <2> QED
      BY <1>1, <1>15, <2>1, <2>2 DEF FStartsWell
  <1>17. FTypedWell(t, p, f)
    <2>1. /\ ~Has(p, Gets(f)) /\ Has(p, Puts(f)) /\ ~Has(p, Wrong(f, "socket"))
          /\ ~Has(p, {F!CopyFd(f)})
      BY <1>5, <1>6, <1>7, <1>9
    <2> QED
      BY <1>1, <1>15, <2>1 DEF FTypedWell, x
  <1> QED
    BY <1>2, <1>14, <1>16, <1>17, OneFdBegins DEF x

LEMMA CloseStep ==
    ASSUME FileInv, NEW t \in Threads, NEW f \in F!FD, F!Close(t, f)
    PROVE  FileInv'
  <1> DEFINE x == F!Fd(f)
             p1 == F!F(x, F!Extra(x))
             p2 == F!SetFd(0, "closed")
             p == <<p1, p2>>
  <1>1. /\ status[x] \in {"owned", "early"} /\ f \in F!FD
        /\ F!Begin(t, p) /\ status' = [status EXCEPT ![x] = "none"]
        /\ kfd' = [kfd EXCEPT ![f] = "free"]
        /\ stream' = stream /\ raced' = raced /\ stolen' = stolen /\ silent' = silent
    BY DEF F!Close, F!Held
  <1>2. /\ stolen \subseteq raced /\ status \in [F!Things -> FStatuses]
    BY DEF FileInv, Kernel, KernelOf, FileTypes
  <1>3. x \in F!Things
    BY FileNames
  <1>4. p1 = IF status[x] = "early" THEN ExtF(x) ELSE OwnF(x)
    BY <1>1, FreeOf
  <1>5. /\ p1 \in FSteps
        /\ \A y : /\ p1 # F!A(y)
                  /\ p1 = OwnF(y) <=> x = y /\ status[x] = "owned"
                  /\ p1 = ExtF(y) <=> x = y /\ status[x] = "early"
        /\ \A g : p1 \notin Puts(g) /\ p1 \notin Gets(g) /\ p1 # F!CopyFd(g)
        /\ \A g, k : p1 \notin Wrong(g, k)
    BY <1>1, <1>3, <1>4, OwnStep, ExtStep
  <1>6. /\ p2 \in FSteps
        /\ \A y : p2 # F!A(y) /\ p2 # OwnF(y) /\ p2 # ExtF(y)
        /\ \A g : p2 \notin Puts(g) /\ p2 \notin Gets(g) /\ p2 # F!CopyFd(g)
    BY FileNames, KindNames, SetStep
  <1> HIDE DEF p1, p2, x
  <1>7. p \in Seq(FSteps)
    BY <1>5, <1>6
  <1>8. \A S, R : (Has(p, S) <=> p1 \in S \/ p2 \in S)
                    /\ (NoneAfter(p, S, R) <=> (p1 \in S => p2 \notin R))
    BY TwoSteps
  <1> HIDE DEF p
  <1>9. FGood(p)
    BY <1>5, <1>6, <1>8 DEF FGood
  <1>10. /\ \A y \in F!Things : y # x => Quiet(p, y)
         /\ \A g \in F!FD : g # f => QuietFd(p, g)
    BY <1>5, <1>6, <1>8 DEF Quiet, QuietFd
  <1>11. "free" \in F!Kinds \cup {"free", "std"} /\ "none" \in FStatuses
    BY DEF FStatuses
  <1>12. OneFd(t, p, f, "none", "free")
    BY <1>1, <1>2, <1>7, <1>9, <1>10, <1>11, FileBeginFacts DEF OneFd, x
  <1>13. status'[x] = "none"
    BY <1>1, <1>2, <1>3
  <1>14. FStartsWell(t, p, x)
    <2>1. /\ ~Has(p, {F!A(x)}) /\ (Has(p, {OwnF(x)}) <=> status[x] = "owned")
          /\ Has(p, {ExtF(x)}) <=> status[x] = "early"
      BY <1>5, <1>6, <1>8
    <2>2. /\ t \notin {"none", "owned", "early", "stream"}
          /\ "owned" \notin Threads /\ "early" \notin Threads
      BY FileNames
    <2> QED
      BY <1>1, <1>13, <2>1, <2>2 DEF FStartsWell
  <1>15. FTypedWell(t, p, f)
    <2>1. ~Has(p, Gets(f)) /\ ~Has(p, Puts(f))
      BY <1>1, <1>5, <1>6, <1>8
    <2>2. t # "none" /\ status'[x] # status[x]
      BY <1>1, <1>13, FileNames
    <2> QED
      BY <1>13, <2>1, <2>2 DEF FTypedWell, x
  <1> QED
    BY <1>1, <1>12, <1>14, <1>15, OneFdBegins DEF x

LEMMA NoProgram ==
    ASSUME FileInv, NEW t \in Threads, todo[t] = <<>>, todo' = todo
    PROVE  /\ todo' = [todo EXCEPT ![t] = <<>>] /\ <<>> \in Seq(FSteps) /\ FGood(<<>>)
           /\ \A x : Quiet(<<>>, x)
           /\ \A f : QuietFd(<<>>, f) /\ ~Has(<<>>, Puts(f))
  <1>1. DOMAIN todo = Threads
    BY DEF FileInv, FileTypes
  <1>2. [todo EXCEPT ![t] = <<>>] = todo
    <2>1. todo = [u \in Threads |-> todo[u]]
      BY <1>1 DEF FileInv, FileTypes
    <2> QED
      BY <1>1, <2>1
  <1>3. \A S, R : ~Has(<<>>, S) /\ NoneAfter(<<>>, S, R)
    BY NoSteps
  <1>4. <<>> \in Seq(FSteps)
    OBVIOUS
  <1> DEFINE p == <<>>
  <1>5. \A S, R : ~Has(p, S) /\ NoneAfter(p, S, R)
    BY <1>3
  <1> HIDE DEF p
  <1>6. FGood(p)
    BY <1>5 DEF FGood
  <1>7. /\ \A x : Quiet(p, x)
        /\ \A f : QuietFd(p, f) /\ ~Has(p, Puts(f))
    BY <1>5 DEF Quiet, QuietFd
  <1> QED
    BY <1>2, <1>4, <1>6, <1>7 DEF p

LEMMA CloseFailsStep ==
    ASSUME FileInv, NEW t \in Threads, NEW f \in F!FD, F!CloseFails(t, f)
    PROVE  FileInv'
  <1> DEFINE x == F!Fd(f)
             p == <<>>
  <1>1. /\ status[x] \in {"owned", "early"} /\ f \in F!FD /\ todo[t] = <<>> /\ todo' = todo
        /\ status' = [status EXCEPT ![x] = "none"] /\ kfd' = [kfd EXCEPT ![f] = "free"]
        /\ silent' = silent \cup {x}
        /\ stream' = stream /\ raced' = raced /\ stolen' = stolen
        /\ filter' = filter /\ rtfds' = rtfds /\ noted' = noted /\ mixed' = mixed
    BY DEF F!CloseFails, F!Held, F!Idle
  <1>2. /\ stolen \subseteq raced /\ status \in [F!Things -> FStatuses]
    BY DEF FileInv, Kernel, KernelOf, FileTypes
  <1>3. /\ todo' = [todo EXCEPT ![t] = p] /\ p \in Seq(FSteps) /\ FGood(p)
        /\ \A y : Quiet(p, y)
        /\ \A g : QuietFd(p, g) /\ ~Has(p, Puts(g))
    BY <1>1, NoProgram
  <1>4. x \in F!Things
    BY FileNames
  <1> HIDE DEF p, x
  <1>5. "free" \in F!Kinds \cup {"free", "std"} /\ "none" \in FStatuses
    BY DEF FStatuses
  <1>6. OneFd(t, p, f, "none", "free")
    BY <1>1, <1>2, <1>3, <1>5 DEF OneFd, x
  <1>7. status'[x] = "none"
    BY <1>1, <1>2, <1>4
  <1>8. FStartsWell(t, p, x)
    <2>1. /\ t \notin {"none", "owned", "early", "stream"}
          /\ "owned" \notin Threads /\ "early" \notin Threads
      BY FileNames
    <2> QED
      BY <1>1, <1>3, <1>7, <2>1 DEF FStartsWell, Quiet
  <1>9. FTypedWell(t, p, f)
    <2>1. t # "none" /\ status'[x] # status[x]
      BY <1>1, <1>7, FileNames
    <2> QED
      BY <1>3, <1>7, <2>1 DEF FTypedWell, QuietFd, x
  <1> QED
    BY <1>1, <1>6, <1>8, <1>9, OneFdBegins DEF x

LEMMA JoinedThree ==
    ASSUME NEW x, NEW y, NEW z, NEW w
    PROVE  /\ <<>> \o <<y, z, w>> = <<y, z, w>>
           /\ <<x>> \o <<y, z, w>> = <<x, y, z, w>>
  <1> DEFINE S == {x, y, z, w}
  <1>1. /\ <<>> \in Seq(S) /\ <<x>> \in Seq(S) /\ <<y, z, w>> \in Seq(S)
        /\ <<x, y, z, w>> \in Seq(S)
    OBVIOUS
  <1> HIDE DEF S
  <1>2. <<>> \o <<y, z, w>> = <<y, z, w>>
    <2>1. /\ <<>> \o <<y, z, w>> \in Seq(S) /\ Len(<<>> \o <<y, z, w>>) = 3
          /\ \A i \in 1..3 : (<<>> \o <<y, z, w>>)[i] = <<y, z, w>>[i]
      BY <1>1, ConcatProperties
    <2> QED
      BY <1>1, <2>1, SeqEqual
  <1>3. <<x>> \o <<y, z, w>> = <<x, y, z, w>>
    <2>1. /\ <<x>> \o <<y, z, w>> \in Seq(S) /\ Len(<<x>> \o <<y, z, w>>) = 4
          /\ \A i \in 1..4 : (<<x>> \o <<y, z, w>>)[i] = <<x, y, z, w>>[i]
      BY <1>1, ConcatProperties
    <2> QED
      BY <1>1, <2>1, SeqEqual
  <1> QED
    BY <1>2, <1>3

DupFacts(t, old, new, f) ==
    /\ F!Begin(t, F!DupCommon(old, new, f))
    /\ kfd' = [kfd EXCEPT ![f] = kfd[old]]
    /\ kfd[old] \in F!Kinds \cup {"free", "std"} /\ kfd[old] # "free"
    /\ status' = [status EXCEPT ![F!Fd(f)] = t] /\ status'[F!Fd(f)] = t
    /\ stream' = stream /\ silent' = silent
    /\ t \in FStatuses /\ t # "none"
    /\ raced \subseteq raced' /\ stolen \subseteq stolen' /\ stolen' \subseteq raced'
    /\ Having({OwnF(F!Fd(f))}) \cup Having({ExtF(F!Fd(f))}) # {} =>
         /\ F!Fd(f) \in raced'
         /\ new = f /\ status[F!Fd(f)] = "none" => F!Fd(f) \in stolen'
    /\ Having({ExtF(F!Fd(f))}) # {} => F!Fd(f) \in stolen'

LEMMA DuplicateFacts ==
    ASSUME FileInv, NEW t \in Threads, NEW old \in F!FD, NEW new, NEW f \in F!FD,
           F!Duplicate(t, old, new, f)
    PROVE  DupFacts(t, old, new, f)
  <1> DEFINE x == F!Fd(f)
  <1>1. /\ status[F!Fd(old)] \in {"owned", "early", "stream"}
        /\ F!Begin(t, F!DupCommon(old, new, f))
        /\ kfd' = [kfd EXCEPT ![f] = kfd[old]] /\ status' = [status EXCEPT ![x] = t]
        /\ F!GiveOut({x}, IF new = f /\ F!Extra(x) THEN {x} ELSE {})
        /\ stream' = stream /\ silent' = silent
    BY DEF F!Duplicate
  <1>2. /\ kfd \in [F!FD -> F!Kinds \cup {"free", "std"}] /\ status \in [F!Things -> FStatuses]
        /\ status[F!Fd(old)] = "none" <=> kfd[old] = "free"
    BY DEF FileInv, Kernel, KernelOf
  <1>3. x \in F!Things
    BY FileNames
  <1>4. t \in FStatuses /\ t # "none"
    BY FileNames DEF FStatuses
  <1>5. status[x] = "none" => F!Extra(x)
    BY DEF F!Extra
  <1> HIDE DEF x
  <1>6. /\ raced \subseteq raced' /\ stolen \subseteq stolen' /\ stolen' \subseteq raced'
        /\ Having({OwnF(x)}) \cup Having({ExtF(x)}) # {} =>
                /\ x \in raced'
                /\ new = f /\ F!Extra(x) => x \in stolen'
        /\ Having({ExtF(x)}) # {} => x \in stolen'
    BY <1>1, FileGivenOut
  <1>7. status'[x] = t /\ kfd[old] \in F!Kinds \cup {"free", "std"} /\ kfd[old] # "free"
    BY <1>1, <1>2, <1>3
  <1> QED
    BY <1>1, <1>4, <1>5, <1>6, <1>7 DEF x, DupFacts

LEMMA DuplicateToFree ==
    ASSUME FileInv, NEW t \in Threads, NEW old \in F!FD, NEW new, NEW f \in F!FD,
           F!Duplicate(t, old, new, f), new # f, status[F!Fd(f)] = "none"
    PROVE  FileInv'
  <1>0. DupFacts(t, old, new, f)
    BY DuplicateFacts
  <1> DEFINE x == F!Fd(f)
             p1 == F!GetFd(old, f)
             p2 == F!A(x)
             p3 == F!CopyFd(f)
             p == <<p1, p2, p3>>
  <1>1. F!Begin(t, p)
    <2>1. F!DupCommon(old, new, f) = <<>> \o <<p1, p2, p3>>
      BY DEF F!DupCommon
    <2> HIDE DEF p1, p2, p3
    <2>2. F!DupCommon(old, new, f) = p
      BY <2>1, JoinedThree
    <2> QED
      BY <1>0, <2>2 DEF DupFacts
  <1>3. x \in F!Things
    BY FileNames
  <1>5. /\ p1 \in FSteps
        /\ \A y : p1 # F!A(y) /\ p1 # OwnF(y) /\ p1 # ExtF(y)
        /\ \A g : (p1 \in Gets(g) <=> g = f) /\ p1 \notin Puts(g) /\ p1 # F!CopyFd(g)
        /\ \A g, k : p1 \notin Wrong(g, k)
    BY GetStep
  <1>6. /\ p2 \in FSteps
        /\ \A y : p2 # OwnF(y) /\ p2 # ExtF(y) /\ (p2 = F!A(y) <=> x = y)
        /\ \A g : p2 \notin Puts(g) /\ p2 \notin Gets(g) /\ p2 # F!CopyFd(g)
        /\ \A g, k : p2 \notin Wrong(g, k)
    BY <1>3, AllocStep
  <1>7. /\ p3 \in FSteps
        /\ \A y : p3 # F!A(y) /\ p3 # OwnF(y) /\ p3 # ExtF(y)
        /\ \A g : (p3 \in Puts(g) <=> g = f) /\ p3 \notin Gets(g) /\ (p3 = F!CopyFd(g) <=> g = f)
        /\ \A g, k : p3 \notin Wrong(g, k)
    BY CopyStep
  <1> HIDE DEF p1, p2, p3, x
  <1>8. p \in Seq(FSteps)
    BY <1>5, <1>6, <1>7
  <1>9. \A S, R : /\ Has(p, S) <=> p1 \in S \/ p2 \in S \/ p3 \in S
                  /\ NoneAfter(p, S, R) <=> /\ p1 \in S => p2 \notin R /\ p3 \notin R
                                            /\ p2 \in S => p3 \notin R
    BY ThreeSteps
  <1> HIDE DEF p
  <1>10. FGood(p)
    <2>1. ASSUME NEW y \in F!Things
          PROVE  /\ NoneAfter(p, {OwnF(y), ExtF(y)}, {OwnF(y)})
                 /\ NoneAfter(p, {F!A(y)}, {OwnF(y), ExtF(y), F!A(y)})
      BY <1>5, <1>6, <1>7, <1>9
    <2>2. ASSUME NEW g \in F!FD
          PROVE  /\ NoneAfter(p, Puts(g), Gets(g)) /\ (Has(p, Gets(g)) => Has(p, {F!CopyFd(g)}))
                 /\ Has(p, Puts(g)) \/ Has(p, Gets(g)) => g = f
      BY <1>5, <1>6, <1>7, <1>9
    <2> QED
      BY <2>1, <2>2 DEF FGood
  <1>11. /\ \A y \in F!Things : y # x => Quiet(p, y)
         /\ \A g \in F!FD : g # f => QuietFd(p, g)
    BY <1>5, <1>6, <1>7, <1>9 DEF Quiet, QuietFd
  <1>14. OneFd(t, p, f, t, kfd[old])
    BY <1>1, <1>8, <1>10, <1>11, <1>0, FileBeginFacts DEF DupFacts, OneFd, x
  <1>15. status'[x] = t /\ status[x] = "none"
    BY <1>0 DEF DupFacts, x
  <1>16. FStartsWell(t, p, x)
    <2>1. Has(p, {F!A(x)}) /\ ~Has(p, {OwnF(x)}) /\ ~Has(p, {ExtF(x)})
      BY <1>5, <1>6, <1>7, <1>9
    <2>2. t # "none" /\ "none" \notin Threads
      BY FileNames
    <2>3. /\ Having({OwnF(x)}) \cup Having({ExtF(x)}) # {} => x \in raced'
          /\ Having({ExtF(x)}) # {} => x \in stolen'
      BY <1>0 DEF DupFacts, x
    <2> QED
      BY <1>15, <2>1, <2>2, <2>3 DEF FStartsWell
  <1>17. FTypedWell(t, p, f)
    <2>1. /\ Has(p, Gets(f)) /\ Has(p, Puts(f)) /\ \A k : ~Has(p, Wrong(f, k))
      BY <1>5, <1>6, <1>7, <1>9
    <2>2. status'[x] # status[x]
      BY <1>15, FileNames
    <2> QED
      BY <1>15, <2>1, <2>2 DEF FTypedWell, x
  <1> QED
    BY <1>14, <1>16, <1>17, OneFdBegins DEF x

LEMMA DuplicateOver ==
    ASSUME FileInv, NEW t \in Threads, NEW old \in F!FD, NEW f \in F!FD,
           F!Duplicate(t, old, f, f), status[F!Fd(f)] \in {"none", "owned", "early"}
    PROVE  FileInv'
  <1>0. DupFacts(t, old, f, f)
    BY DuplicateFacts
  <1> DEFINE x == F!Fd(f)
             p0 == F!F(x, F!Extra(x))
             p1 == F!GetFd(old, f)
             p2 == F!A(x)
             p3 == F!CopyFd(f)
             p == <<p0, p1, p2, p3>>
  <1>1. F!Begin(t, p)
    <2>1. F!DupCommon(old, f, f) = <<p0>> \o <<p1, p2, p3>>
      BY DEF F!DupCommon
    <2> HIDE DEF p0, p1, p2, p3
    <2>2. F!DupCommon(old, f, f) = p
      BY <2>1, JoinedThree
    <2> QED
      BY <1>0, <2>2 DEF DupFacts
  <1>3. x \in F!Things
    BY FileNames
  <1>2. p0 = IF status[x] = "owned" THEN OwnF(x) ELSE ExtF(x)
    BY FreeOf
  <1>4. /\ p0 \in FSteps
        /\ \A y : /\ p0 # F!A(y)
                  /\ p0 = OwnF(y) <=> x = y /\ status[x] = "owned"
                  /\ p0 = ExtF(y) <=> x = y /\ status[x] # "owned"
        /\ \A g : p0 \notin Puts(g) /\ p0 \notin Gets(g) /\ p0 # F!CopyFd(g)
        /\ \A g, k : p0 \notin Wrong(g, k)
    BY <1>2, <1>3, OwnStep, ExtStep
  <1>5. /\ p1 \in FSteps
        /\ \A y : p1 # F!A(y) /\ p1 # OwnF(y) /\ p1 # ExtF(y)
        /\ \A g : (p1 \in Gets(g) <=> g = f) /\ p1 \notin Puts(g) /\ p1 # F!CopyFd(g)
        /\ \A g, k : p1 \notin Wrong(g, k)
    BY GetStep
  <1>6. /\ p2 \in FSteps
        /\ \A y : p2 # OwnF(y) /\ p2 # ExtF(y) /\ (p2 = F!A(y) <=> x = y)
        /\ \A g : p2 \notin Puts(g) /\ p2 \notin Gets(g) /\ p2 # F!CopyFd(g)
        /\ \A g, k : p2 \notin Wrong(g, k)
    BY <1>3, AllocStep
  <1>7. /\ p3 \in FSteps
        /\ \A y : p3 # F!A(y) /\ p3 # OwnF(y) /\ p3 # ExtF(y)
        /\ \A g : (p3 \in Puts(g) <=> g = f) /\ p3 \notin Gets(g) /\ (p3 = F!CopyFd(g) <=> g = f)
        /\ \A g, k : p3 \notin Wrong(g, k)
    BY CopyStep
  <1> HIDE DEF p0, p1, p2, p3, x
  <1>8. p \in Seq(FSteps)
    BY <1>4, <1>5, <1>6, <1>7
  <1>9. \A S, R : /\ Has(p, S) <=> p0 \in S \/ p1 \in S \/ p2 \in S \/ p3 \in S
                  /\ NoneAfter(p, S, R) <=>
                        /\ p0 \in S => p1 \notin R /\ p2 \notin R /\ p3 \notin R
                        /\ p1 \in S => p2 \notin R /\ p3 \notin R
                        /\ p2 \in S => p3 \notin R
    BY FourSteps
  <1> HIDE DEF p
  <1>10. FGood(p)
    BY <1>4, <1>5, <1>6, <1>7, <1>9 DEF FGood
  <1>11. /\ \A y \in F!Things : y # x => Quiet(p, y)
         /\ \A g \in F!FD : g # f => QuietFd(p, g)
    <2>1. ASSUME NEW y \in F!Things, y # x
          PROVE  Quiet(p, y)
      BY <1>4, <1>5, <1>6, <1>7, <1>9, <2>1 DEF Quiet
    <2>2. ASSUME NEW g \in F!FD, g # f
          PROVE  QuietFd(p, g)
      BY <1>4, <1>5, <1>6, <1>7, <1>9, <2>2 DEF QuietFd
    <2> QED
      BY <2>1, <2>2
  <1>12. status[F!Fd(f)] # "stream"
    OBVIOUS
  <1>14. OneFd(t, p, f, t, kfd[old])
    BY <1>1, <1>8, <1>10, <1>11, <1>12, <1>0, FileBeginFacts DEF DupFacts, OneFd, x
  <1>15. status'[x] = t /\ status[x] \in {"none", "owned", "early"}
    BY <1>0 DEF DupFacts, x
  <1>16. FStartsWell(t, p, x)
    <2>1. /\ Has(p, {F!A(x)}) /\ (Has(p, {OwnF(x)}) <=> status[x] = "owned")
          /\ Has(p, {ExtF(x)}) <=> status[x] # "owned"
      BY <1>4, <1>5, <1>6, <1>7, <1>9
    <2>2. /\ t \notin {"none", "owned", "early", "stream"}
          /\ \A u \in Threads : u \notin {"none", "owned", "early", "stream"}
      BY FileNames
    <2>3. /\ Having({OwnF(x)}) \cup Having({ExtF(x)}) # {} =>
                x \in raced' /\ (status[x] = "none" => x \in stolen')
          /\ Having({ExtF(x)}) # {} => x \in stolen'
      BY <1>0 DEF DupFacts, x
    <2> QED
      BY <1>15, <2>1, <2>2, <2>3 DEF FStartsWell
  <1>17. FTypedWell(t, p, f)
    <2>1. /\ Has(p, Gets(f)) /\ Has(p, Puts(f)) /\ \A k : ~Has(p, Wrong(f, k))
      BY <1>4, <1>5, <1>6, <1>7, <1>9
    <2>2. status'[x] # status[x]
      BY <1>15, FileNames
    <2> QED
      BY <1>15, <2>1, <2>2 DEF FTypedWell, x
  <1> QED
    BY <1>14, <1>16, <1>17, OneFdBegins DEF x

LEMMA DupSteps ==
    ASSUME FileInv, NEW t \in Threads, NEW old \in F!FD, NEW g \in F!FD,
           F!Dup(t, old) \/ F!Dup2(t, old, g) \/ F!FcntlDup(t, old, g)
    PROVE  FileInv'
  <1>1. Kernel
    BY DEF FileInv
  <1>2. CASE F!Dup(t, old)
    <2> DEFINE f == F!Lowest(F!FreeFds(0))
    <2>1. F!FreeFds(0) # {} /\ F!Duplicate(t, old, F!NoFd, f)
      BY <1>2 DEF F!Dup
    <2>2. f \in F!FD /\ status[F!Fd(f)] = "none"
      BY <1>1, <2>1, FreeFd
    <2> HIDE DEF f
    <2>3. F!NoFd # f
      BY <2>2, FileNames
    <2> QED
      BY <2>1, <2>2, <2>3, DuplicateToFree
  <1>3. CASE F!Dup2(t, old, g)
    <2>1. /\ g \in F!FD /\ status[F!Fd(g)] \in {"none", "owned", "early"}
          /\ F!Duplicate(t, old, g, g)
      BY <1>3 DEF F!Dup2
    <2> QED
      BY <2>1, DuplicateOver
  <1>4. CASE F!FcntlDup(t, old, g)
    <2> DEFINE f == F!Lowest(F!FreeFds(g))
    <2>1. F!FreeFds(g) # {} /\ F!Duplicate(t, old, g, f)
      BY <1>4 DEF F!FcntlDup
    <2>2. f \in F!FD /\ status[F!Fd(f)] = "none"
      BY <1>1, <2>1, FreeFd
    <2> HIDE DEF f
    <2> QED
      BY <2>1, <2>2, DuplicateToFree, DuplicateOver
  <1> QED
    BY <1>2, <1>3, <1>4

\* What the start of a wrapper leaves alone.
FBegun(t, p) ==
    /\ todo[t] = <<>> /\ todo' = [todo EXCEPT ![t] = p]
    /\ p \in Seq(FSteps) /\ FGood(p)
    /\ filter' = filter /\ rtfds' = rtfds /\ noted' = noted /\ mixed' = mixed
    /\ raced \subseteq raced' /\ stolen \subseteq stolen' /\ silent \subseteq silent'
    /\ stolen' \subseteq raced'

LEMMA KernelNext ==
    ASSUME KernelOf(kfd', status', stream')
    PROVE  Kernel'
  BY DEF Kernel, KernelOf, FStatuses

LEMMA BegunWell ==
    ASSUME FileInv, NEW t \in Threads, NEW p, FBegun(t, p), Kernel', StreamsKept,
           \A x \in F!Things : FStartsWell(t, p, x), \A f \in F!FD : FTypedWell(t, p, f)
    PROVE  FileInv'
  <1>1. FileTypes
    BY DEF FileInv
  <1>2. FileTypes'
    BY <1>1 DEF FileTypes, FBegun
  <1>3. FStarts(t, p)
    BY <1>2 DEF FStarts, FBegun
  <1> QED
    BY <1>3, FileBegins

LEMMA ElsewhereWell ==
    ASSUME FileInv, NEW t \in Threads, NEW p, todo[t] = <<>>, NEW x \in F!Things, Quiet(p, x),
           status'[x] = status[x]
    PROVE  FStartsWell(t, p, x)
  <1>1. status[x] # t
    BY DEF FileInv, Taken
  <1> QED
    BY <1>1 DEF Quiet, FStartsWell

LEMMA ElsewhereTyped ==
    ASSUME FileInv, NEW t \in Threads, NEW p, todo[t] = <<>>, NEW f \in F!FD, QuietFd(p, f),
           status'[F!Fd(f)] = status[F!Fd(f)], kfd'[f] = kfd[f]
    PROVE  FTypedWell(t, p, f)
  <1>1. F!Fd(f) \in F!Things
    BY FileNames
  <1>2. status[F!Fd(f)] # t
    BY <1>1 DEF FileInv, Taken
  <1> QED
    BY <1>2 DEF QuietFd, FTypedWell

LEMMA SameStreams ==
    ASSUME FileInv, stream' = stream,
           \A f \in F!FD : status[F!Fd(f)] = "stream" => status'[F!Fd(f)] = status[F!Fd(f)]
    PROVE  StreamsKept
  <1> SUFFICES ASSUME NEW s \in Streams, stream[s] \in F!FD
               PROVE  status'[F!Fd(stream[s])] = status[F!Fd(stream[s])]
    BY DEF StreamsKept
  <1>1. status[F!Fd(stream[s])] = "stream"
    BY FileNames DEF FileInv, Kernel, KernelOf
  <1> QED
    BY <1>1

\* A descriptor or stream that was free, taken by a program that only reports it.
LEMMA TakenWell ==
    ASSUME FileInv, NEW t \in Threads, NEW p, NEW x \in F!Things,
           status[x] = "none", status'[x] = t,
           Has(p, {F!A(x)}), ~Has(p, {OwnF(x)}), ~Has(p, {ExtF(x)}),
           Having({OwnF(x)}) \cup Having({ExtF(x)}) # {} => x \in raced',
           Having({ExtF(x)}) # {} => x \in stolen'
    PROVE  FStartsWell(t, p, x)
  <1>1. t # "none" /\ "none" \notin Threads
    BY FileNames
  <1> QED
    BY <1>1 DEF FStartsWell

LEMMA OpenPairStep ==
    ASSUME FileInv, NEW t \in Threads, NEW kind \in F!Kinds, F!OpenPair(t, kind)
    PROVE  FileInv'
  <1> DEFINE f == F!Lowest(F!FreeFds(0))
             g == F!Lowest(F!FreeFds(0) \ {f})
             x == F!Fd(f)
             y == F!Fd(g)
             p1 == F!A(x)
             p2 == F!SetFd(f, kind)
             p3 == F!A(y)
             p4 == F!SetFd(g, kind)
             p == <<p1, p2, p3, p4>>
  <1>1. /\ f \in F!FD /\ kfd[f] = "free" /\ status[x] = "none"
        /\ g \in F!FD /\ kfd[g] = "free" /\ status[y] = "none" /\ f # g
    <2>1. Kernel /\ F!FreeFds(0) # {} /\ F!FreeFds(0) \subseteq F!FD
      BY DEF FileInv, F!OpenPair, F!FreeFds
    <2>2. f \in F!FD /\ kfd[f] = "free" /\ status[x] = "none"
      BY <2>1, FreeFd
    <2>3. F!FreeFds(0) \ {f} # {}
      BY DEF F!OpenPair
    <2> HIDE DEF f
    <2>4. g \in F!FreeFds(0) \ {f}
      BY <2>1, <2>3, LowestIsIn
    <2> HIDE DEF g
    <2>5. g \in F!FD /\ kfd[g] = "free" /\ status[y] = "none"
      BY <2>1, <2>4 DEF F!FreeFds, Kernel, KernelOf
    <2> QED
      BY <2>2, <2>4, <2>5
  <1>2. /\ F!Begin(t, p) /\ kfd' = [kfd EXCEPT ![f] = kind, ![g] = kind]
        /\ status' = [status EXCEPT ![x] = t, ![y] = t] /\ F!GiveOut({x, y}, {})
        /\ stream' = stream /\ silent' = silent
    BY DEF F!OpenPair
  <1> HIDE DEF f, g
  <1>3. x \in F!Things /\ y \in F!Things /\ x # y
    BY <1>1, FileNames
  <1>4. /\ p1 \in FSteps /\ p3 \in FSteps
        /\ \A z : /\ p1 # OwnF(z) /\ p1 # ExtF(z) /\ (p1 = F!A(z) <=> z = x)
                  /\ p3 # OwnF(z) /\ p3 # ExtF(z) /\ (p3 = F!A(z) <=> z = y)
        /\ \A h : /\ p1 \notin Puts(h) /\ p1 \notin Gets(h) /\ p1 # F!CopyFd(h)
                  /\ p3 \notin Puts(h) /\ p3 \notin Gets(h) /\ p3 # F!CopyFd(h)
        /\ \A h, k : p1 \notin Wrong(h, k) /\ p3 \notin Wrong(h, k)
    BY <1>3, AllocStep
  <1>5. /\ p2 \in FSteps /\ p4 \in FSteps
        /\ \A z : /\ p2 # F!A(z) /\ p2 # OwnF(z) /\ p2 # ExtF(z)
                  /\ p4 # F!A(z) /\ p4 # OwnF(z) /\ p4 # ExtF(z)
        /\ \A h : /\ (p2 \in Puts(h) <=> h = f) /\ p2 \notin Gets(h) /\ p2 # F!CopyFd(h)
                  /\ (p4 \in Puts(h) <=> h = g) /\ p4 \notin Gets(h) /\ p4 # F!CopyFd(h)
        /\ \A h, k : /\ p2 \in Wrong(h, k) <=> h = f /\ k # kind
                     /\ p4 \in Wrong(h, k) <=> h = g /\ k # kind
    BY <1>1, KindNames, SetStep
  <1> HIDE DEF p1, p2, p3, p4, x, y
  <1>6. p \in Seq(FSteps)
    BY <1>4, <1>5
  <1>7. \A S, R : /\ Has(p, S) <=> p1 \in S \/ p2 \in S \/ p3 \in S \/ p4 \in S
                  /\ NoneAfter(p, S, R) <=>
                        /\ p1 \in S => p2 \notin R /\ p3 \notin R /\ p4 \notin R
                        /\ p2 \in S => p3 \notin R /\ p4 \notin R
                        /\ p3 \in S => p4 \notin R
    BY FourSteps
  <1> HIDE DEF p
  <1>8. FGood(p)
    <2>1. ASSUME NEW z \in F!Things
          PROVE  /\ NoneAfter(p, {OwnF(z), ExtF(z)}, {OwnF(z)})
                 /\ NoneAfter(p, {F!A(z)}, {OwnF(z), ExtF(z), F!A(z)})
      BY <1>3, <1>4, <1>5, <1>7
    <2>2. ASSUME NEW h \in F!FD
          PROVE  NoneAfter(p, Puts(h), Gets(h)) /\ ~Has(p, Gets(h))
      BY <1>4, <1>5, <1>7
    <2> QED
      BY <2>1, <2>2 DEF FGood
  <1>9. /\ \A z \in F!Things : z # x /\ z # y => Quiet(p, z)
        /\ \A h \in F!FD : h # f /\ h # g => QuietFd(p, h)
    BY <1>4, <1>5, <1>7 DEF Quiet, QuietFd
  <1>10. /\ raced \subseteq raced' /\ stolen \subseteq stolen' /\ stolen' \subseteq raced'
         /\ \A z \in {x, y} :
              /\ Having({OwnF(z)}) \cup Having({ExtF(z)}) # {} => z \in raced'
              /\ Having({ExtF(z)}) # {} => z \in stolen'
    BY <1>2, FileGivenOut
  <1>11. FBegun(t, p)
    BY <1>2, <1>6, <1>8, <1>10, FileBeginFacts DEF FBegun
  <1>12. /\ kfd \in [F!FD -> F!Kinds \cup {"free", "std"}] /\ status \in [F!Things -> FStatuses]
         /\ KernelOf(kfd, status, stream)
    BY DEF FileInv, Kernel, KernelOf
  <1>13. /\ kfd'[f] = kind /\ kfd'[g] = kind
         /\ \A h \in F!FD : h # f /\ h # g => kfd'[h] = kfd[h]
    BY <1>1, <1>2, <1>12
  <1>14. /\ status'[x] = t /\ status'[y] = t
         /\ \A z \in F!Things : z # x /\ z # y => status'[z] = status[z]
    BY <1>2, <1>3, <1>12
  <1>15. Kernel'
    <2> DEFINE K1 == [kfd EXCEPT ![f] = kind]
               S1 == [status EXCEPT ![F!Fd(f)] = t]
    <2>1. /\ kind \in F!Kinds \cup {"free", "std"} /\ kind # "free"
          /\ t \in FStatuses /\ t # "none"
      BY KindNames, FileNames DEF FStatuses
    <2>2. KernelOf(K1, S1, stream)
      BY <1>1, <1>12, <2>1, KernelFd DEF x
    <2>3. S1[F!Fd(g)] # "stream"
      BY <1>1, <1>3, <1>12 DEF x, y
    <2>4. kfd' = [K1 EXCEPT ![g] = kind] /\ status' = [S1 EXCEPT ![F!Fd(g)] = t]
      BY <1>2 DEF x, y
    <2> HIDE DEF K1, S1
    <2>5. KernelOf([K1 EXCEPT ![g] = kind], [S1 EXCEPT ![F!Fd(g)] = t], stream)
      BY <1>1, <2>1, <2>2, <2>3, KernelFd
    <2> QED
      BY <1>2, <2>4, <2>5, KernelNext
  <1>16. \A h \in F!FD : h # f /\ h # g => status'[F!Fd(h)] = status[F!Fd(h)]
    BY <1>14, FileNames DEF x, y
  <1>17. StreamsKept
    <2>1. \A h \in F!FD : status[F!Fd(h)] = "stream" => status'[F!Fd(h)] = status[F!Fd(h)]
      BY <1>1, <1>16 DEF x, y
    <2> QED
      BY <1>2, <2>1, SameStreams
  <1>18. ASSUME NEW z \in F!Things
         PROVE  FStartsWell(t, p, z)
    <2>1. CASE z # x /\ z # y
      BY <1>9, <1>11, <1>14, <2>1, ElsewhereWell DEF FBegun
    <2>2. CASE z \in {x, y}
      <3>1. Has(p, {F!A(z)}) /\ ~Has(p, {OwnF(z)}) /\ ~Has(p, {ExtF(z)})
        BY <1>4, <1>5, <1>7, <2>2
      <3> QED
        BY <1>1, <1>10, <1>14, <2>2, <3>1, TakenWell
    <2> QED
      BY <2>1, <2>2
  <1>19. ASSUME NEW h \in F!FD
         PROVE  FTypedWell(t, p, h)
    <2>1. CASE h # f /\ h # g
      BY <1>9, <1>11, <1>13, <1>16, <2>1, ElsewhereTyped DEF FBegun
    <2>2. CASE h \in {f, g}
      <3>1. /\ ~Has(p, Gets(h)) /\ Has(p, Puts(h)) /\ ~Has(p, Wrong(h, kind))
            /\ ~Has(p, {F!CopyFd(h)})
        BY <1>4, <1>5, <1>7, <2>2
      <3>2. status'[F!Fd(h)] = t /\ status[F!Fd(h)] = "none" /\ kfd'[h] = kind /\ t # "none"
        BY <1>1, <1>13, <1>14, <2>2, FileNames DEF x, y
      <3> QED
        BY <3>1, <3>2 DEF FTypedWell
    <2> QED
      BY <2>1, <2>2
  <1> QED
    BY <1>11, <1>15, <1>17, <1>18, <1>19, BegunWell

LEMMA KernelStream ==
    ASSUME NEW K, NEW S, NEW M, KernelOf(K, S, M), NEW f \in F!FD, NEW s \in Streams,
           NEW k \in F!Kinds \cup {"free", "std"}, k # "free", NEW t \in Threads,
           S[F!Fp(s)] = "none", S[F!Fd(f)] # "stream"
    PROVE  KernelOf([K EXCEPT ![f] = k], [S EXCEPT ![F!Fp(s)] = t, ![F!Fd(f)] = "stream"],
                    [M EXCEPT ![s] = f])
  <1> DEFINE K2 == [K EXCEPT ![f] = k]
             S2 == [S EXCEPT ![F!Fp(s)] = t, ![F!Fd(f)] = "stream"]
             M2 == [M EXCEPT ![s] = f]
  <1>1. /\ K \in [F!FD -> F!Kinds \cup {"free", "std"}]
        /\ M \in [Streams -> F!FD \cup {F!NoFd}]
        /\ S \in [F!Things -> FStatuses]
    BY DEF KernelOf
  <1>2. /\ K2 \in [F!FD -> F!Kinds \cup {"free", "std"}]
        /\ \A g \in F!FD : K2[g] = IF g = f THEN k ELSE K[g]
    BY <1>1
  <1>3. /\ M2 \in [Streams -> F!FD \cup {F!NoFd}]
        /\ \A r \in Streams : M2[r] = IF r = s THEN f ELSE M[r]
    BY <1>1
  <1>4. /\ S2 \in [F!Things -> FStatuses]
        /\ \A g \in F!FD : S2[F!Fd(g)] = IF g = f THEN "stream" ELSE S[F!Fd(g)]
        /\ \A r \in Streams : S2[F!Fp(r)] = IF r = s THEN t ELSE S[F!Fp(r)]
    <2>1. "stream" \in FStatuses /\ t \in FStatuses
      BY DEF FStatuses
    <2> HIDE DEF FStatuses
    <2>2. /\ S2 \in [F!Things -> FStatuses]
          /\ \A x \in F!Things : S2[x] = IF x = F!Fd(f) THEN "stream"
                                         ELSE IF x = F!Fp(s) THEN t ELSE S[x]
      BY <1>1, <2>1, FileNames
    <2> QED
      BY <2>2, FileNames
  <1> HIDE DEF K2, S2, M2
  <1>5. \A g \in F!FD : S2[F!Fd(g)] = "none" <=> K2[g] = "free"
    BY <1>2, <1>4, FileNames DEF KernelOf
  <1>6. \A r \in Streams : M[r] # F!NoFd => M[r] \in F!FD /\ S[F!Fd(M[r])] = "stream" /\ M[r] # f
    BY <1>1 DEF KernelOf
  <1>7. ASSUME NEW r \in Streams
        PROVE  /\ S2[F!Fp(r)] \in {"none", "owned"} \cup Threads
               /\ S2[F!Fp(r)] = "none" <=> M2[r] = F!NoFd
               /\ M2[r] # F!NoFd => S2[F!Fd(M2[r])] = "stream"
    <2>1. CASE r = s
      BY <1>3, <1>4, <2>1, FileNames
    <2>2. CASE r # s
      <3>1. M2[r] = M[r] /\ S2[F!Fp(r)] = S[F!Fp(r)]
        BY <1>3, <1>4, <2>2
      <3>2. M[r] # F!NoFd => S2[F!Fd(M[r])] = "stream"
        BY <1>4, <1>6
      <3> QED
        BY <3>1, <3>2 DEF KernelOf
    <2> QED
      BY <2>1, <2>2
  <1>8. \A r, q \in Streams : M2[r] # F!NoFd /\ M2[r] = M2[q] => r = q
    BY <1>3, <1>6, FileNames DEF KernelOf
  <1>9. KernelOf(K2, S2, M2)
    BY <1>2, <1>3, <1>4, <1>5, <1>7, <1>8 DEF KernelOf
  <1> QED
    BY <1>9 DEF K2, S2, M2

LEMMA KernelOwner ==
    ASSUME NEW K, NEW S, NEW M, KernelOf(K, S, M), NEW s \in Streams, NEW t \in Threads,
           S[F!Fp(s)] # "none"
    PROVE  KernelOf(K, [S EXCEPT ![F!Fp(s)] = t], M)
  <1> DEFINE S2 == [S EXCEPT ![F!Fp(s)] = t]
  <1>1. S \in [F!Things -> FStatuses]
    BY DEF KernelOf
  <1>2. /\ S2 \in [F!Things -> FStatuses]
        /\ \A g \in F!FD : S2[F!Fd(g)] = S[F!Fd(g)]
        /\ \A r \in Streams : S2[F!Fp(r)] = IF r = s THEN t ELSE S[F!Fp(r)]
    <2>1. t \in FStatuses
      BY DEF FStatuses
    <2> HIDE DEF FStatuses
    <2>2. /\ S2 \in [F!Things -> FStatuses]
          /\ \A x \in F!Things : S2[x] = IF x = F!Fp(s) THEN t ELSE S[x]
      BY <1>1, <2>1, FileNames
    <2> QED
      BY <2>2, FileNames
  <1> HIDE DEF S2
  <1>3. t # "none"
    BY FileNames
  <1>4. ASSUME NEW r \in Streams
        PROVE  /\ S2[F!Fp(r)] \in {"none", "owned"} \cup Threads
               /\ S2[F!Fp(r)] = "none" <=> M[r] = F!NoFd
               /\ M[r] # F!NoFd => S2[F!Fd(M[r])] = "stream"
    <2>1. /\ S[F!Fp(r)] \in {"none", "owned"} \cup Threads
          /\ S[F!Fp(r)] = "none" <=> M[r] = F!NoFd
          /\ M[r] # F!NoFd => S[F!Fd(M[r])] = "stream"
          /\ M[r] \in F!FD \cup {F!NoFd}
      BY DEF KernelOf
    <2> QED
      BY <1>2, <1>3, <2>1
  <1>5. KernelOf(K, S2, M)
    BY <1>2, <1>4 DEF KernelOf
  <1> QED
    BY <1>5 DEF S2

LEMMA KernelClose ==
    ASSUME NEW K, NEW S, NEW M, KernelOf(K, S, M), NEW C, C \subseteq Streams,
           \A s \in C : S[F!Fp(s)] = "owned"
    PROVE  KernelOf([f \in F!FD |-> IF \E s \in C : M[s] = f THEN "free" ELSE K[f]],
                    [x \in F!Things |->
                        IF \E s \in C : x = F!Fp(s) \/ x = F!Fd(M[s]) THEN "none" ELSE S[x]],
                    [s \in Streams |-> IF s \in C THEN F!NoFd ELSE M[s]])
  <1> DEFINE K2 == [f \in F!FD |-> IF \E s \in C : M[s] = f THEN "free" ELSE K[f]]
             S2 == [x \in F!Things |->
                        IF \E s \in C : x = F!Fp(s) \/ x = F!Fd(M[s]) THEN "none" ELSE S[x]]
             M2 == [s \in Streams |-> IF s \in C THEN F!NoFd ELSE M[s]]
  <1>1. /\ K \in [F!FD -> F!Kinds \cup {"free", "std"}]
        /\ M \in [Streams -> F!FD \cup {F!NoFd}]
        /\ S \in [F!Things -> FStatuses]
    BY DEF KernelOf
  <1>2. /\ K2 \in [F!FD -> F!Kinds \cup {"free", "std"}]
        /\ \A f \in F!FD : K2[f] = IF \E s \in C : M[s] = f THEN "free" ELSE K[f]
    BY <1>1
  <1>3. /\ M2 \in [Streams -> F!FD \cup {F!NoFd}]
        /\ \A s \in Streams : M2[s] = IF s \in C THEN F!NoFd ELSE M[s]
    BY <1>1
  <1>4. /\ S2 \in [F!Things -> FStatuses]
        /\ \A f \in F!FD :
             S2[F!Fd(f)] = IF \E s \in C : M[s] = f THEN "none" ELSE S[F!Fd(f)]
        /\ \A s \in Streams : S2[F!Fp(s)] = IF s \in C THEN "none" ELSE S[F!Fp(s)]
    <2>1. "none" \in FStatuses
      BY DEF FStatuses
    <2> HIDE DEF FStatuses
    <2>2. S2 \in [F!Things -> FStatuses]
      BY <1>1, <2>1
    <2>3. ASSUME NEW f \in F!FD
          PROVE  S2[F!Fd(f)] = IF \E s \in C : M[s] = f THEN "none" ELSE S[F!Fd(f)]
      BY FileNames
    <2>4. ASSUME NEW s \in Streams
          PROVE  S2[F!Fp(s)] = IF s \in C THEN "none" ELSE S[F!Fp(s)]
      BY FileNames
    <2> QED
      BY <2>2, <2>3, <2>4
  <1> HIDE DEF K2, S2, M2
  <1>5. \A s \in C : M[s] # F!NoFd
    BY DEF KernelOf
  <1>6. \A f \in F!FD : S2[F!Fd(f)] = "none" <=> K2[f] = "free"
    BY <1>2, <1>4, <1>5, FileNames DEF KernelOf
  <1>7. ASSUME NEW r \in Streams
        PROVE  /\ S2[F!Fp(r)] \in {"none", "owned"} \cup Threads
               /\ S2[F!Fp(r)] = "none" <=> M2[r] = F!NoFd
               /\ M2[r] # F!NoFd => S2[F!Fd(M2[r])] = "stream"
    <2>1. CASE r \in C
      BY <1>3, <1>4, <2>1
    <2>2. CASE r \notin C
      <3>1. M2[r] = M[r] /\ S2[F!Fp(r)] = S[F!Fp(r)]
        BY <1>3, <1>4, <2>2
      <3>2. M[r] # F!NoFd => M[r] \in F!FD /\ ~\E s \in C : M[s] = M[r]
        BY <1>1, <2>2 DEF KernelOf
      <3>3. M[r] # F!NoFd => S2[F!Fd(M[r])] = S[F!Fd(M[r])]
        BY <1>4, <3>2
      <3> QED
        BY <3>1, <3>3 DEF KernelOf
    <2> QED
      BY <2>1, <2>2
  <1>8. \A r, q \in Streams : M2[r] # F!NoFd /\ M2[r] = M2[q] => r = q
    BY <1>3 DEF KernelOf
  <1>9. KernelOf(K2, S2, M2)
    BY <1>2, <1>3, <1>4, <1>6, <1>7, <1>8 DEF KernelOf
  <1> QED
    BY <1>9 DEF K2, S2, M2

\* A wrapper that opens stream s over descriptor f.
OneStream(t, p, f, s, k) ==
    /\ FBegun(t, p)
    /\ kfd' = [kfd EXCEPT ![f] = k]
    /\ status' = [status EXCEPT ![F!Fp(s)] = t, ![F!Fd(f)] = "stream"]
    /\ stream' = [stream EXCEPT ![s] = f]
    /\ k \in F!Kinds \cup {"free", "std"} /\ k # "free"
    /\ status[F!Fp(s)] = "none" /\ status[F!Fd(f)] \in {"none", "owned", "early"}
    /\ Has(p, {F!A(F!Fp(s))}) /\ ~Has(p, {OwnF(F!Fp(s))}) /\ ~Has(p, {ExtF(F!Fp(s))})
    /\ Having({OwnF(F!Fp(s))}) \cup Having({ExtF(F!Fp(s))}) # {} => F!Fp(s) \in raced'
    /\ Having({ExtF(F!Fp(s))}) # {} => F!Fp(s) \in stolen'
    /\ ~Has(p, {F!A(F!Fd(f))}) /\ (Has(p, {OwnF(F!Fd(f))}) <=> status[F!Fd(f)] = "owned")
    /\ Has(p, {ExtF(F!Fd(f))}) <=> status[F!Fd(f)] = "early"
    /\ \A x \in F!Things : x # F!Fd(f) /\ x # F!Fp(s) => Quiet(p, x)
    /\ \A g \in F!FD : g # f => QuietFd(p, g)
    /\ ~Has(p, Gets(f))

LEMMA OneStreamBegins ==
    ASSUME FileInv, NEW t \in Threads, NEW p, NEW f \in F!FD, NEW s \in Streams, NEW k,
           OneStream(t, p, f, s, k)
    PROVE  FileInv'
  <1> DEFINE x == F!Fd(f)
             y == F!Fp(s)
  <1>1. /\ FBegun(t, p) /\ kfd' = [kfd EXCEPT ![f] = k]
        /\ status' = [status EXCEPT ![y] = t, ![x] = "stream"]
        /\ stream' = [stream EXCEPT ![s] = f]
        /\ k \in F!Kinds \cup {"free", "std"} /\ k # "free"
        /\ status[y] = "none" /\ status[x] \in {"none", "owned", "early"}
    BY DEF OneStream
  <1>2. /\ KernelOf(kfd, status, stream) /\ status \in [F!Things -> FStatuses]
        /\ stream \in [Streams -> F!FD \cup {F!NoFd}]
        /\ kfd \in [F!FD -> F!Kinds \cup {"free", "std"}]
    BY DEF FileInv, Kernel, KernelOf
  <1>3. x \in F!Things /\ y \in F!Things /\ x # y
    BY FileNames
  <1>4. Kernel'
    <2>1. KernelOf([kfd EXCEPT ![f] = k],
                   [status EXCEPT ![F!Fp(s)] = t, ![F!Fd(f)] = "stream"],
                   [stream EXCEPT ![s] = f])
      BY <1>1, <1>2, KernelStream
    <2> QED
      BY <1>1, <2>1, KernelNext
  <1>5. /\ status'[x] = "stream" /\ status'[y] = t
        /\ \A z \in F!Things : z # x /\ z # y => status'[z] = status[z]
    BY <1>1, <1>2, <1>3
  <1>6. \A g \in F!FD : g # f => kfd'[g] = kfd[g] /\ status'[F!Fd(g)] = status[F!Fd(g)]
    BY <1>1, <1>2, <1>5, FileNames
  <1>7. stream'[s] = f /\ \A r \in Streams : r # s => stream'[r] = stream[r]
    BY <1>1, <1>2
  <1>8. StreamsKept
    <2> SUFFICES ASSUME NEW r \in Streams, status[F!Fp(r)] \in Threads
                 PROVE  /\ stream'[r] = stream[r]
                        /\ stream[r] \in F!FD =>
                                status'[F!Fd(stream[r])] = status[F!Fd(stream[r])]
      BY DEF StreamsKept
    <2>1. r # s
      BY <1>1, FileNames
    <2>2. stream[r] \in F!FD => stream[r] # f
      BY <1>1, <1>2, FileNames DEF KernelOf
    <2> QED
      BY <1>6, <1>7, <2>1, <2>2
  <1>9. ASSUME NEW z \in F!Things
        PROVE  FStartsWell(t, p, z)
    <2>1. CASE z # x /\ z # y
      <3>1. Quiet(p, z) /\ status'[z] = status[z] /\ todo[t] = <<>>
        BY <1>1, <1>5, <2>1 DEF OneStream, FBegun
      <3> QED
        BY <3>1, ElsewhereWell
    <2>2. CASE z = y
      BY <1>3, <1>5, <2>2, TakenWell DEF OneStream
    <2>3. CASE z = x
      <3>1. /\ ~Has(p, {F!A(x)}) /\ (Has(p, {OwnF(x)}) <=> status[x] = "owned")
            /\ Has(p, {ExtF(x)}) <=> status[x] = "early"
        BY DEF OneStream
      <3>2. /\ t \notin {"none", "owned", "early", "stream"}
            /\ "none" \notin Threads /\ "owned" \notin Threads /\ "early" \notin Threads
        BY FileNames
      <3> QED
        BY <1>1, <1>5, <2>3, <3>1, <3>2 DEF FStartsWell
    <2> QED
      BY <2>1, <2>2, <2>3
  <1>10. ASSUME NEW g \in F!FD
         PROVE  FTypedWell(t, p, g)
    <2>1. CASE g # f
      <3>1. QuietFd(p, g) /\ todo[t] = <<>>
        BY <1>1, <2>1 DEF OneStream, FBegun
      <3> QED
        BY <1>6, <2>1, <3>1, ElsewhereTyped
    <2>2. CASE g = f
      <3>1. ~Has(p, Gets(f)) /\ t # "stream"
        BY FileNames DEF OneStream
      <3>2. status'[x] = "stream" /\ status'[x] # status[x]
        BY <1>1, <1>5
      <3>3. \E r \in Streams : stream'[r] = f /\ status'[F!Fp(r)] = t
        BY <1>5, <1>7
      <3> QED
        BY <2>2, <3>1, <3>2, <3>3 DEF FTypedWell
    <2> QED
      BY <2>1, <2>2
  <1> QED
    BY <1>1, <1>4, <1>8, <1>9, <1>10, BegunWell

LEMMA FopenStep ==
    ASSUME FileInv, NEW t \in Threads, NEW s \in Streams, F!Fopen(t, s)
    PROVE  FileInv'
  <1> DEFINE f == F!Lowest(F!FreeFds(0))
             x == F!Fp(s)
             p1 == F!A(x)
             p == <<p1>>
  <1>1. f \in F!FD /\ kfd[f] = "free" /\ status[F!Fd(f)] = "none"
    <2>1. Kernel /\ F!FreeFds(0) # {}
      BY DEF FileInv, F!Fopen
    <2> QED
      BY <2>1, FreeFd
  <1>2. /\ F!Begin(t, p) /\ kfd' = [kfd EXCEPT ![f] = "file"]
        /\ stream' = [stream EXCEPT ![s] = f]
        /\ status' = [status EXCEPT ![x] = t, ![F!Fd(f)] = "stream"]
        /\ F!GiveOut({x}, {}) /\ silent' = silent /\ status[x] = "none"
    BY DEF F!Fopen
  <1> HIDE DEF f
  <1>3. x \in F!Things /\ x # F!Fd(f)
    BY FileNames
  <1>4. /\ p1 \in FSteps
        /\ \A y : p1 # OwnF(y) /\ p1 # ExtF(y) /\ (p1 = F!A(y) <=> x = y)
        /\ \A g : p1 \notin Puts(g) /\ p1 \notin Gets(g) /\ p1 # F!CopyFd(g)
    BY <1>3, AllocStep
  <1> HIDE DEF p1, x
  <1>5. p \in Seq(FSteps)
    BY <1>4
  <1>6. \A S, R : (Has(p, S) <=> p1 \in S) /\ NoneAfter(p, S, R)
    BY OneStep
  <1> HIDE DEF p
  <1>7. FGood(p)
    BY <1>4, <1>6 DEF FGood
  <1>8. /\ \A y \in F!Things : y # x => Quiet(p, y)
        /\ \A g \in F!FD : QuietFd(p, g) /\ ~Has(p, Gets(g))
        /\ Has(p, {F!A(x)}) /\ ~Has(p, {OwnF(x)}) /\ ~Has(p, {ExtF(x)})
    BY <1>4, <1>6 DEF Quiet, QuietFd
  <1>9. /\ raced \subseteq raced' /\ stolen \subseteq stolen' /\ stolen' \subseteq raced'
        /\ Having({OwnF(x)}) \cup Having({ExtF(x)}) # {} => x \in raced'
        /\ Having({ExtF(x)}) # {} => x \in stolen'
    BY <1>2, FileGivenOut
  <1>10. FBegun(t, p)
    BY <1>2, <1>5, <1>7, <1>9, FileBeginFacts DEF FBegun
  <1>11. "file" \in F!Kinds \cup {"free", "std"} /\ "file" # "free"
    BY KindNames
  <1>12. Quiet(p, F!Fd(f))
    BY <1>1, <1>3, <1>8, FileNames
  <1>13. OneStream(t, p, f, s, "file")
    BY <1>1, <1>2, <1>8, <1>9, <1>10, <1>11, <1>12 DEF OneStream, Quiet, x
  <1> QED
    BY <1>1, <1>13, OneStreamBegins

LEMMA FdopenStep ==
    ASSUME FileInv, NEW t \in Threads, NEW f \in F!FD, NEW s \in Streams, F!Fdopen(t, f, s)
    PROVE  FileInv'
  <1> DEFINE x == F!Fd(f)
             y == F!Fp(s)
             p1 == F!F(x, F!Extra(x))
             p2 == F!SetFd(f, "closed")
             p3 == F!A(y)
             p == <<p1, p2, p3>>
  <1>1. /\ f \in F!FD /\ status[x] \in {"owned", "early"} /\ status[y] = "none"
        /\ F!Begin(t, p) /\ stream' = [stream EXCEPT ![s] = f]
        /\ status' = [status EXCEPT ![y] = t, ![x] = "stream"]
        /\ F!GiveOut({y}, {}) /\ kfd' = kfd /\ silent' = silent
    BY DEF F!Fdopen, F!Held
  <1>2. /\ kfd \in [F!FD -> F!Kinds \cup {"free", "std"}]
        /\ kfd[f] # "free" /\ kfd' = [kfd EXCEPT ![f] = kfd[f]]
    BY <1>1 DEF FileInv, Kernel, KernelOf
  <1>3. x \in F!Things /\ y \in F!Things /\ x # y
    BY FileNames
  <1>4. p1 = IF status[x] = "early" THEN ExtF(x) ELSE OwnF(x)
    BY <1>1, FreeOf
  <1>5. /\ p1 \in FSteps
        /\ \A z : /\ p1 # F!A(z)
                  /\ p1 = OwnF(z) <=> x = z /\ status[x] = "owned"
                  /\ p1 = ExtF(z) <=> x = z /\ status[x] = "early"
        /\ \A g : p1 \notin Puts(g) /\ p1 \notin Gets(g) /\ p1 # F!CopyFd(g)
    BY <1>1, <1>3, <1>4, OwnStep, ExtStep
  <1>6. /\ p2 \in FSteps
        /\ \A z : p2 # F!A(z) /\ p2 # OwnF(z) /\ p2 # ExtF(z)
        /\ \A g : (p2 \in Puts(g) => g = f) /\ p2 \notin Gets(g) /\ p2 # F!CopyFd(g)
    BY <1>1, KindNames, SetStep
  <1>7. /\ p3 \in FSteps
        /\ \A z : p3 # OwnF(z) /\ p3 # ExtF(z) /\ (p3 = F!A(z) <=> y = z)
        /\ \A g : p3 \notin Puts(g) /\ p3 \notin Gets(g) /\ p3 # F!CopyFd(g)
    BY <1>3, AllocStep
  <1> HIDE DEF p1, p2, p3, x, y
  <1>8. p \in Seq(FSteps)
    BY <1>5, <1>6, <1>7
  <1>9. \A S, R : /\ Has(p, S) <=> p1 \in S \/ p2 \in S \/ p3 \in S
                  /\ NoneAfter(p, S, R) <=> /\ p1 \in S => p2 \notin R /\ p3 \notin R
                                            /\ p2 \in S => p3 \notin R
    BY ThreeSteps
  <1> HIDE DEF p
  <1>10. FGood(p)
    <2>1. ASSUME NEW z \in F!Things
          PROVE  /\ NoneAfter(p, {OwnF(z), ExtF(z)}, {OwnF(z)})
                 /\ NoneAfter(p, {F!A(z)}, {OwnF(z), ExtF(z), F!A(z)})
      BY <1>5, <1>6, <1>7, <1>9
    <2>2. ASSUME NEW g \in F!FD
          PROVE  NoneAfter(p, Puts(g), Gets(g)) /\ ~Has(p, Gets(g))
      BY <1>5, <1>6, <1>7, <1>9
    <2> QED
      BY <2>1, <2>2 DEF FGood
  <1>11. /\ \A z \in F!Things : z # x /\ z # y => Quiet(p, z)
         /\ \A g \in F!FD : ~Has(p, Gets(g)) /\ (g # f => QuietFd(p, g))
    BY <1>5, <1>6, <1>7, <1>9 DEF Quiet, QuietFd
  <1>12. /\ Has(p, {F!A(y)}) /\ ~Has(p, {OwnF(y)}) /\ ~Has(p, {ExtF(y)}) /\ ~Has(p, {F!A(x)})
         /\ Has(p, {OwnF(x)}) <=> status[x] = "owned"
         /\ Has(p, {ExtF(x)}) <=> status[x] = "early"
    BY <1>3, <1>5, <1>6, <1>7, <1>9
  <1>13. /\ raced \subseteq raced' /\ stolen \subseteq stolen' /\ stolen' \subseteq raced'
         /\ Having({OwnF(y)}) \cup Having({ExtF(y)}) # {} => y \in raced'
         /\ Having({ExtF(y)}) # {} => y \in stolen'
    BY <1>1, FileGivenOut
  <1>14. FBegun(t, p)
    BY <1>1, <1>8, <1>10, <1>13, FileBeginFacts DEF FBegun
  <1>15. kfd[f] \in F!Kinds \cup {"free", "std"}
    BY <1>2
  <1>16. OneStream(t, p, f, s, kfd[f])
    BY <1>1, <1>2, <1>11, <1>12, <1>13, <1>14, <1>15 DEF OneStream, x, y
  <1> QED
    BY <1>1, <1>16, OneStreamBegins

LEMMA FreopenStep ==
    ASSUME FileInv, NEW t \in Threads, NEW s \in Streams, F!Freopen(t, s)
    PROVE  FileInv'
  <1> DEFINE x == F!Fp(s)
             p1 == F!F(x, FALSE)
             p2 == F!A(x)
             p == <<p1, p2>>
  <1>1. /\ status[x] = "owned" /\ F!Begin(t, p) /\ status' = [status EXCEPT ![x] = t]
        /\ kfd' = kfd /\ stream' = stream /\ raced' = raced /\ stolen' = stolen /\ silent' = silent
    BY DEF F!Freopen
  <1>2. /\ KernelOf(kfd, status, stream) /\ status \in [F!Things -> FStatuses]
        /\ stolen \subseteq raced
    BY DEF FileInv, FileTypes, Kernel, KernelOf
  <1>3. x \in F!Things /\ \A f : F!Fd(f) # x
    BY FileNames
  <1>4. /\ p1 \in FSteps
        /\ \A y : p1 # F!A(y) /\ p1 # ExtF(y) /\ (p1 = OwnF(y) <=> x = y)
        /\ \A g : p1 \notin Puts(g) /\ p1 \notin Gets(g) /\ p1 # F!CopyFd(g)
    <2>1. p1 = OwnF(x)
      BY DEF OwnF
    <2> HIDE DEF p1
    <2> QED
      BY <1>3, <2>1, OwnStep
  <1>5. /\ p2 \in FSteps
        /\ \A y : p2 # OwnF(y) /\ p2 # ExtF(y) /\ (p2 = F!A(y) <=> x = y)
        /\ \A g : p2 \notin Puts(g) /\ p2 \notin Gets(g) /\ p2 # F!CopyFd(g)
    BY <1>3, AllocStep
  <1>6. Kernel'
    <2>1. KernelOf(kfd, [status EXCEPT ![F!Fp(s)] = t], stream)
      BY <1>1, <1>2, KernelOwner
    <2> QED
      BY <1>1, <2>1, KernelNext
  <1> HIDE DEF p1, p2, x
  <1>7. p \in Seq(FSteps)
    BY <1>4, <1>5
  <1>8. \A S, R : (Has(p, S) <=> p1 \in S \/ p2 \in S)
                    /\ (NoneAfter(p, S, R) <=> (p1 \in S => p2 \notin R))
    BY TwoSteps
  <1> HIDE DEF p
  <1>9. FGood(p)
    BY <1>4, <1>5, <1>8 DEF FGood
  <1>10. /\ \A y \in F!Things : y # x => Quiet(p, y)
         /\ \A g \in F!FD : QuietFd(p, g)
         /\ Has(p, {F!A(x)}) /\ Has(p, {OwnF(x)}) /\ ~Has(p, {ExtF(x)})
    BY <1>4, <1>5, <1>8 DEF Quiet, QuietFd
  <1>11. FBegun(t, p)
    BY <1>1, <1>2, <1>7, <1>9, FileBeginFacts DEF FBegun
  <1>12. status'[x] = t /\ \A y \in F!Things : y # x => status'[y] = status[y]
    BY <1>1, <1>2, <1>3
  <1>13. \A g \in F!FD : status'[F!Fd(g)] = status[F!Fd(g)]
    BY <1>3, <1>12, FileNames
  <1>14. StreamsKept
    BY <1>1, <1>13, SameStreams
  <1>15. ASSUME NEW y \in F!Things
         PROVE  FStartsWell(t, p, y)
    <2>1. CASE y # x
      BY <1>10, <1>11, <1>12, <2>1, ElsewhereWell DEF FBegun
    <2>2. CASE y = x
      <3>1. t \notin {"none", "owned", "early", "stream"} /\ "owned" \notin Threads
        BY FileNames
      <3> QED
        BY <1>1, <1>10, <1>12, <2>2, <3>1 DEF FStartsWell
    <2> QED
      BY <2>1, <2>2
  <1>16. ASSUME NEW g \in F!FD
         PROVE  FTypedWell(t, p, g)
    <2>1. kfd'[g] = kfd[g]
      BY <1>1
    <2> QED
      BY <1>10, <1>11, <1>13, <2>1, ElsewhereTyped DEF FBegun
  <1> QED
    BY <1>6, <1>11, <1>14, <1>15, <1>16, BegunWell

\* A wrapper that closes the streams in C: it reports the release of each or
\* the release is a silent one.
ClosesAll(t, p, C) ==
    /\ FBegun(t, p) /\ F!CloseStreams(C)
    /\ C \subseteq Streams /\ \A s \in C : status[F!Fp(s)] = "owned"
    /\ \A s \in C : /\ Has(p, {OwnF(F!Fp(s))}) \/ F!Fp(s) \in silent'
                    /\ ~Has(p, {F!A(F!Fp(s))}) /\ ~Has(p, {ExtF(F!Fp(s))})
    /\ \A x \in F!Things : (\A s \in C : x # F!Fp(s)) => Quiet(p, x)
    /\ \A f \in F!FD : ~Has(p, Gets(f)) /\ ~Has(p, Puts(f))

LEMMA ClosesAllBegins ==
    ASSUME FileInv, NEW t \in Threads, NEW p, NEW C, ClosesAll(t, p, C)
    PROVE  FileInv'
  <1>1. /\ FBegun(t, p) /\ C \subseteq Streams /\ \A s \in C : status[F!Fp(s)] = "owned"
    BY DEF ClosesAll
  <1>2. /\ kfd' = [f \in F!FD |-> IF \E s \in C : stream[s] = f THEN "free" ELSE kfd[f]]
        /\ stream' = [s \in Streams |-> IF s \in C THEN F!NoFd ELSE stream[s]]
        /\ status' = [x \in F!Things |->
                        IF \E s \in C : x = F!Fp(s) \/ x = F!Fd(stream[s])
                        THEN "none" ELSE status[x]]
    BY DEF ClosesAll, F!CloseStreams
  <1>3. KernelOf(kfd, status, stream)
    BY DEF FileInv, Kernel
  <1>4. Kernel'
    <2>1. KernelOf(
            [f \in F!FD |-> IF \E s \in C : stream[s] = f THEN "free" ELSE kfd[f]],
            [x \in F!Things |-> IF \E s \in C : x = F!Fp(s) \/ x = F!Fd(stream[s])
                                THEN "none" ELSE status[x]],
            [s \in Streams |-> IF s \in C THEN F!NoFd ELSE stream[s]])
      BY <1>1, <1>3, KernelClose
    <2> QED
      BY <1>2, <2>1, KernelNext
  <1>5. \A s \in C : stream[s] \in F!FD /\ status[F!Fd(stream[s])] = "stream"
    <2>1. \A s \in C : stream[s] # F!NoFd
      BY <1>1, <1>3 DEF KernelOf
    <2> QED
      BY <1>1, <1>3, <2>1 DEF KernelOf
  <1>6. /\ \A f \in F!FD :
             status'[F!Fd(f)] = IF \E s \in C : stream[s] = f THEN "none" ELSE status[F!Fd(f)]
        /\ \A s \in Streams :
             status'[F!Fp(s)] = IF s \in C THEN "none" ELSE status[F!Fp(s)]
    <2>1. ASSUME NEW f \in F!FD
          PROVE  status'[F!Fd(f)] = IF \E s \in C : stream[s] = f THEN "none"
                                    ELSE status[F!Fd(f)]
      BY <1>2, FileNames
    <2>2. ASSUME NEW s \in Streams
          PROVE  status'[F!Fp(s)] = IF s \in C THEN "none" ELSE status[F!Fp(s)]
      BY <1>2, FileNames
    <2> QED
      BY <2>1, <2>2
  <1>7. StreamsKept
    <2> SUFFICES ASSUME NEW r \in Streams, status[F!Fp(r)] \in Threads
                 PROVE  /\ stream'[r] = stream[r]
                        /\ stream[r] \in F!FD =>
                                status'[F!Fd(stream[r])] = status[F!Fd(stream[r])]
      BY DEF StreamsKept
    <2>1. r \notin C
      BY <1>1, FileNames
    <2>2. stream'[r] = stream[r]
      BY <1>2, <2>1
    <2>3. stream[r] \in F!FD => ~\E s \in C : stream[s] = stream[r]
      BY <1>1, <1>3, <2>1, FileNames DEF KernelOf
    <2> QED
      BY <1>6, <2>2, <2>3
  <1>8. todo[t] = <<>>
    BY <1>1 DEF FBegun
  <1>9. ASSUME NEW s \in C
        PROVE  FStartsWell(t, p, F!Fp(s))
    <2>1. status[F!Fp(s)] = "owned" /\ status'[F!Fp(s)] = "none"
      BY <1>1, <1>6
    <2>2. /\ Has(p, {OwnF(F!Fp(s))}) \/ F!Fp(s) \in silent'
          /\ ~Has(p, {F!A(F!Fp(s))}) /\ ~Has(p, {ExtF(F!Fp(s))})
      BY DEF ClosesAll
    <2>3. t # "none" /\ "owned" \notin Threads
      BY FileNames
    <2> QED
      BY <2>1, <2>2, <2>3 DEF FStartsWell
  <1>10. ASSUME NEW s \in Streams, s \notin C
         PROVE  FStartsWell(t, p, F!Fp(s))
    <2>1. F!Fp(s) \in F!Things /\ \A r \in C : F!Fp(s) # F!Fp(r)
      BY <1>10, FileNames
    <2>2. Quiet(p, F!Fp(s))
      BY <2>1 DEF ClosesAll
    <2>3. status'[F!Fp(s)] = status[F!Fp(s)]
      BY <1>6, <1>10
    <2> QED
      BY <1>8, <2>1, <2>2, <2>3, ElsewhereWell
  <1>11. ASSUME NEW f \in F!FD
         PROVE  FStartsWell(t, p, F!Fd(f)) /\ FTypedWell(t, p, f)
    <2>1. F!Fd(f) \in F!Things /\ \A r \in C : F!Fd(f) # F!Fp(r)
      BY FileNames
    <2>2. Quiet(p, F!Fd(f)) /\ QuietFd(p, f)
      BY <2>1 DEF ClosesAll, QuietFd
    <2>3. CASE \E s \in C : stream[s] = f
      <3>1. status[F!Fd(f)] = "stream" /\ status'[F!Fd(f)] = "none"
        BY <1>5, <1>6, <2>3
      <3>2. t # "none" /\ "stream" \notin Threads
        BY FileNames
      <3> QED
        BY <2>2, <3>1, <3>2 DEF FStartsWell, FTypedWell, Quiet, QuietFd
    <2>4. CASE ~\E s \in C : stream[s] = f
      <3>1. status'[F!Fd(f)] = status[F!Fd(f)] /\ kfd'[f] = kfd[f]
        BY <1>2, <1>6, <2>4
      <3> QED
        BY <1>8, <2>1, <2>2, <3>1, ElsewhereWell, ElsewhereTyped
    <2> QED
      BY <2>3, <2>4
  <1>12. \A x \in F!Things : FStartsWell(t, p, x)
    BY <1>9, <1>10, <1>11, FileNames
  <1> QED
    BY <1>1, <1>4, <1>7, <1>11, <1>12, BegunWell

LEMMA FcloseStep ==
    ASSUME FileInv, NEW t \in Threads, NEW s \in Streams, F!Fclose(t, s)
    PROVE  FileInv'
  <1> DEFINE x == F!Fp(s)
             p1 == F!F(x, FALSE)
             p == <<p1>>
  <1>1. /\ status[x] = "owned" /\ F!Begin(t, p) /\ F!CloseStreams({s})
        /\ raced' = raced /\ stolen' = stolen /\ silent' = silent
    BY DEF F!Fclose
  <1>2. stolen \subseteq raced /\ x \in F!Things
    BY FileNames DEF FileInv, FileTypes
  <1>3. /\ p1 \in FSteps
        /\ \A y : p1 # F!A(y) /\ p1 # ExtF(y) /\ (p1 = OwnF(y) <=> x = y)
        /\ \A g : p1 \notin Puts(g) /\ p1 \notin Gets(g) /\ p1 # F!CopyFd(g)
    <2>1. p1 = OwnF(x)
      BY DEF OwnF
    <2> HIDE DEF p1
    <2> QED
      BY <1>2, <2>1, OwnStep
  <1> HIDE DEF p1, x
  <1>4. p \in Seq(FSteps)
    BY <1>3
  <1>5. \A S, R : (Has(p, S) <=> p1 \in S) /\ NoneAfter(p, S, R)
    BY OneStep
  <1> HIDE DEF p
  <1>6. FGood(p)
    BY <1>3, <1>5 DEF FGood
  <1>7. FBegun(t, p)
    BY <1>1, <1>2, <1>4, <1>6, FileBeginFacts DEF FBegun
  <1>8. /\ \A y \in F!Things : y # x => Quiet(p, y)
        /\ \A g \in F!FD : ~Has(p, Gets(g)) /\ ~Has(p, Puts(g))
        /\ ~Has(p, {F!A(x)}) /\ Has(p, {OwnF(x)}) /\ ~Has(p, {ExtF(x)})
    BY <1>3, <1>5 DEF Quiet
  <1>9. ClosesAll(t, p, {s})
    BY <1>1, <1>7, <1>8 DEF ClosesAll, x
  <1> QED
    BY <1>9, ClosesAllBegins

LEMMA FcloseFailsStep ==
    ASSUME FileInv, NEW t \in Threads, NEW s \in Streams, F!FcloseFails(t, s)
    PROVE  FileInv'
  <1> DEFINE x == F!Fp(s)
             p == <<>>
  <1>1. /\ status[x] = "owned" /\ todo[t] = <<>> /\ F!CloseStreams({s})
        /\ silent' = silent \cup {x} /\ raced' = raced /\ stolen' = stolen /\ todo' = todo
        /\ filter' = filter /\ rtfds' = rtfds /\ noted' = noted /\ mixed' = mixed
    BY DEF F!FcloseFails, F!Idle
  <1>2. stolen \subseteq raced /\ x \in F!Things
    BY FileNames DEF FileInv, FileTypes
  <1>3. /\ todo' = [todo EXCEPT ![t] = p] /\ p \in Seq(FSteps) /\ FGood(p)
        /\ \A y : Quiet(p, y)
        /\ \A g : QuietFd(p, g) /\ ~Has(p, Puts(g))
    BY <1>1, NoProgram
  <1> HIDE DEF p, x
  <1>4. FBegun(t, p)
    BY <1>1, <1>2, <1>3 DEF FBegun
  <1>5. ClosesAll(t, p, {s})
    BY <1>1, <1>3, <1>4 DEF ClosesAll, Quiet, QuietFd, x
  <1> QED
    BY <1>5, ClosesAllBegins

LEMMA FcloseallStep ==
    ASSUME FileInv, NEW t \in Threads, F!Fcloseall(t)
    PROVE  FileInv'
  <1> DEFINE C == {s \in Streams : status[F!Fp(s)] = "owned"}
             p1 == F!F(F!AllFps, TRUE)
             p == <<p1>>
  <1>1. /\ F!Begin(t, p) /\ F!CloseStreams(C) /\ silent' = silent \cup {F!Fp(s) : s \in C}
        /\ raced' = raced /\ stolen' = stolen
    BY DEF F!Fcloseall
  <1>2. stolen \subseteq raced /\ C \subseteq Streams /\ \A s \in C : status[F!Fp(s)] = "owned"
    BY DEF FileInv, FileTypes
  <1>3. /\ p1 \in FSteps
        /\ \A y \in F!Things : p1 # F!A(y) /\ p1 # OwnF(y) /\ p1 # ExtF(y)
        /\ \A g : p1 \notin Puts(g) /\ p1 \notin Gets(g) /\ p1 # F!CopyFd(g)
    <2>1. p1 = ExtF(F!AllFps)
      BY DEF ExtF
    <2> HIDE DEF p1
    <2> QED
      BY <2>1, ExtStep, FileNames
  <1> HIDE DEF p1, C
  <1>4. p \in Seq(FSteps)
    BY <1>3
  <1>5. \A S, R : (Has(p, S) <=> p1 \in S) /\ NoneAfter(p, S, R)
    BY OneStep
  <1> HIDE DEF p
  <1>6. FGood(p)
    BY <1>3, <1>5 DEF FGood
  <1>7. FBegun(t, p)
    BY <1>1, <1>2, <1>4, <1>6, FileBeginFacts DEF FBegun
  <1>8. /\ \A y \in F!Things : Quiet(p, y)
        /\ \A g \in F!FD : ~Has(p, Gets(g)) /\ ~Has(p, Puts(g))
    BY <1>3, <1>5 DEF Quiet
  <1>9. \A s \in C : F!Fp(s) \in silent' /\ Quiet(p, F!Fp(s))
    BY <1>1, <1>2, <1>8, FileNames
  <1>10. ClosesAll(t, p, C)
    BY <1>1, <1>2, <1>7, <1>8, <1>9 DEF ClosesAll, Quiet
  <1> QED
    BY <1>10, ClosesAllBegins

(***************************************************************************)
(* One step of a wrapper.                                                  *)
(***************************************************************************)
FHeadDone(t, x) ==
    /\ Head(todo[t]) \in {OwnF(x), ExtF(x)} => t \notin Having({OwnF(x)})'
    /\ Head(todo[t]) = F!A(x) =>
        /\ t \notin Having({OwnF(x)})' /\ t \notin Having({ExtF(x)})'
        /\ t \notin Having({F!A(x)})'

LEMMA FileRest ==
    ASSUME FileInv, NEW t \in Threads, todo[t] # <<>>,
           todo' = [todo EXCEPT ![t] = Tail(todo[t])]
    PROVE  /\ DOMAIN todo = Threads /\ todo[t] \in Seq(FSteps) /\ Head(todo[t]) \in FSteps
           /\ Tail(todo[t]) \in Seq(FSteps)
           /\ FilePrograms'
           /\ \A x \in F!Things : FHeadDone(t, x)
           /\ \A f \in F!FD : Head(todo[t]) \in Puts(f) => t \notin Having(Gets(f))'
  <1>1. /\ DOMAIN todo = Threads /\ FilePrograms
        /\ todo[t] \in Seq(FSteps) /\ FGood(todo[t])
    BY DEF FileInv, FileTypes, FilePrograms
  <1>2. Head(todo[t]) \in FSteps /\ Tail(todo[t]) \in Seq(FSteps)
    BY <1>1, RestOfProgram
  <1>3. ASSUME NEW S, NEW R, NoneAfter(todo[t], S, R)
        PROVE  /\ NoneAfter(Tail(todo[t]), S, R)
               /\ Head(todo[t]) \in S => ~Has(Tail(todo[t]), R)
    BY <1>1, <1>3, RestOfProgram
  <1>4. ASSUME NEW S
        PROVE  Has(todo[t], S) <=> Head(todo[t]) \in S \/ Has(Tail(todo[t]), S)
    BY <1>1, RestOfProgram
  <1>5. FGood(Tail(todo[t]))
    <2>1. ASSUME NEW x \in F!Things
          PROVE  /\ NoneAfter(Tail(todo[t]), {OwnF(x), ExtF(x)}, {OwnF(x)})
                 /\ NoneAfter(Tail(todo[t]), {F!A(x)}, {OwnF(x), ExtF(x), F!A(x)})
      BY <1>1, <1>3 DEF FGood
    <2>2. ASSUME NEW f \in F!FD
          PROVE  /\ NoneAfter(Tail(todo[t]), Puts(f), Gets(f))
                 /\ Has(Tail(todo[t]), Gets(f)) => Has(Tail(todo[t]), {F!CopyFd(f)})
      <3>1. NoneAfter(todo[t], Puts(f), Gets(f))
        BY <1>1 DEF FGood
      <3>2. Has(todo[t], Gets(f)) => Has(todo[t], {F!CopyFd(f)})
        BY <1>1 DEF FGood
      <3>3. F!CopyFd(f) \in Puts(f)
        BY DEF Puts
      <3>4. Has(Tail(todo[t]), Gets(f)) => Head(todo[t]) # F!CopyFd(f)
        BY <1>3, <3>1, <3>3
      <3> QED
        BY <1>3, <1>4, <3>1, <3>2, <3>4
    <2>3. ASSUME NEW f \in F!FD, NEW g \in F!FD, Has(Tail(todo[t]), Puts(f)),
                 Has(Tail(todo[t]), Gets(g))
          PROVE  f = g
      <3>1. Has(todo[t], Puts(f)) /\ Has(todo[t], Gets(g))
        BY <1>4, <2>3
      <3> QED
        BY <1>1, <3>1 DEF FGood
    <2> QED
      BY <2>1, <2>2, <2>3 DEF FGood
  <1>6. FilePrograms'
    <2>1. \A u \in Threads : todo'[u] \in Seq(FSteps) /\ FGood(todo'[u])
      BY <1>1, <1>2, <1>5 DEF FilePrograms
    <2> QED
      BY <2>1 DEF FilePrograms, FGood
  <1>7. ASSUME NEW S, NEW R, NoneAfter(todo[t], S, R), Head(todo[t]) \in S
        PROVE  t \notin Having(R)'
    BY <1>1, <1>7, HavingAfter
  <1>8. ASSUME NEW x \in F!Things
        PROVE  FHeadDone(t, x)
    <2>1. /\ NoneAfter(todo[t], {OwnF(x), ExtF(x)}, {OwnF(x)})
          /\ NoneAfter(todo[t], {F!A(x)}, {OwnF(x), ExtF(x), F!A(x)})
      BY <1>1 DEF FGood
    <2>2. Head(todo[t]) \in {OwnF(x), ExtF(x)} => t \notin Having({OwnF(x)})'
      BY <1>1, <2>1, HavingAfter
    <2>3. ASSUME Head(todo[t]) = F!A(x)
          PROVE  /\ t \notin Having({OwnF(x)})' /\ t \notin Having({ExtF(x)})'
                 /\ t \notin Having({F!A(x)})'
      <3>1. Head(todo[t]) \in {F!A(x)}
        BY <2>3
      <3>2. t \notin Having({OwnF(x), ExtF(x), F!A(x)})'
        BY <1>1, <2>1, <3>1, HavingAfter
      <3>3. /\ Having({OwnF(x)})' \subseteq Having({OwnF(x), ExtF(x), F!A(x)})'
            /\ Having({ExtF(x)})' \subseteq Having({OwnF(x), ExtF(x), F!A(x)})'
            /\ Having({F!A(x)})' \subseteq Having({OwnF(x), ExtF(x), F!A(x)})'
        BY DEF Having, Has
      <3> QED
        BY <3>2, <3>3
    <2> QED
      BY <2>2, <2>3 DEF FHeadDone
  <1>9. ASSUME NEW f \in F!FD, Head(todo[t]) \in Puts(f)
        PROVE  t \notin Having(Gets(f))'
    <2>1. NoneAfter(todo[t], Puts(f), Gets(f))
      BY <1>1 DEF FGood
    <2> QED
      BY <1>1, <1>9, <2>1, HavingAfter
  <1> QED
    BY <1>1, <1>2, <1>6, <1>8, <1>9

\* What every step of a wrapper does: it goes on, and returns what it has to
\* the program when it was the last one.
FSteps1(t) ==
    /\ todo[t] # <<>> /\ todo' = [todo EXCEPT ![t] = Tail(todo[t])]
    /\ status' = [x \in F!Things |->
                    IF Tail(todo[t]) = <<>> /\ status[x] = t THEN "owned" ELSE status[x]]
    /\ kfd' = kfd /\ stream' = stream
    /\ raced' = raced /\ stolen' = stolen /\ silent' = silent

LEMMA StepStatus ==
    ASSUME FileInv, NEW t \in Threads, FSteps1(t), NEW x \in F!Things
    PROVE  /\ status'[x] = "early" <=> status[x] = "early"
           /\ status'[x] = "none" <=> status[x] = "none"
           /\ status'[x] = "stream" <=> status[x] = "stream"
           /\ status'[x] \in {"owned"} \cup Threads <=> status[x] \in {"owned"} \cup Threads
           /\ \A u \in Threads : u # t => (status'[x] = u <=> status[x] = u)
           /\ status'[x] = t <=> status[x] = t /\ Tail(todo[t]) # <<>>
           /\ status'[x] = "owned" <=>
                status[x] = "owned" \/ (status[x] = t /\ Tail(todo[t]) = <<>>)
           /\ status'[x] \in FStatuses
  <1>1. status'[x] = IF Tail(todo[t]) = <<>> /\ status[x] = t THEN "owned" ELSE status[x]
    BY DEF FSteps1
  <1>2. \A u \in Threads : u \notin {"none", "owned", "early", "stream"}
    BY FileNames
  <1>3. status[x] \in FStatuses
    BY DEF FileInv, Kernel, KernelOf
  <1> QED
    BY <1>1, <1>2, <1>3 DEF FStatuses

LEMMA StepKernel ==
    ASSUME FileInv, NEW t \in Threads, FSteps1(t)
    PROVE  Kernel'
  <1>1. KernelOf(kfd, status, stream)
    BY DEF FileInv, Kernel
  <1>2. kfd' = kfd /\ stream' = stream
    BY DEF FSteps1
  <1>3. status' \in [F!Things -> FStatuses]
    <2>1. \A x \in F!Things : status'[x] \in FStatuses
      BY StepStatus
    <2>2. status' = [x \in F!Things |-> status'[x]]
      BY DEF FSteps1
    <2> QED
      BY <2>1, <2>2
  <1>4. \A f \in F!FD : /\ status'[F!Fd(f)] = "none" <=> status[F!Fd(f)] = "none"
                        /\ status'[F!Fd(f)] = "stream" <=> status[F!Fd(f)] = "stream"
    BY StepStatus, FileNames
  <1>5. \A s \in Streams :
          /\ status'[F!Fp(s)] = "none" <=> status[F!Fp(s)] = "none"
          /\ status[F!Fp(s)] \in {"owned"} \cup Threads =>
                status'[F!Fp(s)] \in {"owned"} \cup Threads
    BY StepStatus, FileNames
  <1>6. ASSUME NEW s \in Streams
        PROVE  /\ status'[F!Fp(s)] \in {"none", "owned"} \cup Threads
               /\ status'[F!Fp(s)] = "none" <=> stream[s] = F!NoFd
               /\ stream[s] # F!NoFd => status'[F!Fd(stream[s])] = "stream"
    <2>1. /\ status[F!Fp(s)] \in {"none", "owned"} \cup Threads
          /\ status[F!Fp(s)] = "none" <=> stream[s] = F!NoFd
          /\ stream[s] # F!NoFd => status[F!Fd(stream[s])] = "stream"
          /\ stream[s] \in F!FD \cup {F!NoFd}
      BY <1>1 DEF KernelOf
    <2> QED
      BY <1>4, <1>5, <2>1
  <1>7. KernelOf(kfd, status', stream)
    BY <1>1, <1>3, <1>4, <1>6 DEF KernelOf
  <1> QED
    BY <1>2, <1>7, KernelNext

LEMMA StepTaken ==
    ASSUME FileInv, NEW t \in Threads, FSteps1(t)
    PROVE  Taken'
  <1>1. /\ todo[t] # <<>> /\ todo' = [todo EXCEPT ![t] = Tail(todo[t])] /\ stream' = stream
        /\ DOMAIN todo = Threads /\ todo[t] \in Seq(FSteps) /\ Taken
    <2>1. todo[t] # <<>> /\ todo' = [todo EXCEPT ![t] = Tail(todo[t])] /\ stream' = stream
      BY DEF FSteps1
    <2> QED
      BY <2>1, FileRest DEF FileInv
  <1>2. ASSUME NEW S, NEW u \in Threads, u \in Having(S)'
        PROVE  u \in Having(S) /\ (u = t => Tail(todo[t]) # <<>>)
    <2>1. Having(S)' = IF Has(Tail(todo[t]), S) THEN Having(S) \cup {t} ELSE Having(S) \ {t}
      BY <1>1, HavingChanged
    <2>2. Having(S)' \in {Having(S), Having(S) \ {t}}
      BY <1>1, HavingLess
    <2>3. u = t => Has(Tail(todo[t]), S)
      BY <1>2, <2>1
    <2> QED
      BY <1>2, <2>2, <2>3, NoSteps
  <1>3. ASSUME NEW u \in Threads, NEW x \in F!Things, status[x] = u,
               u = t => Tail(todo[t]) # <<>>
        PROVE  status'[x] = u
    BY <1>3, StepStatus
  <1>4. ASSUME NEW u \in Threads, NEW x \in F!Things
        PROVE  /\ u \in Having({F!A(x)})' => status'[x] = u
               /\ status'[x] = u => todo'[u] # <<>>
    <2>1. u \in Having({F!A(x)}) => status[x] = u
      BY <1>1 DEF Taken
    <2>2. u \in Having({F!A(x)})' => status'[x] = u
      BY <1>2, <1>3, <2>1
    <2>3. CASE u = t
      <3>1. status'[x] = t => Tail(todo[t]) # <<>>
        BY StepStatus
      <3> QED
        BY <1>1, <2>2, <2>3, <3>1
    <2>4. CASE u # t
      <3>1. status'[x] = u => status[x] = u
        BY <2>4, StepStatus
      <3>2. todo'[u] = todo[u] /\ (status[x] = u => todo[u] # <<>>)
        BY <1>1, <2>4 DEF Taken
      <3> QED
        BY <2>2, <3>1, <3>2
    <2> QED
      BY <2>3, <2>4
  <1>5. ASSUME NEW u \in Threads, NEW f \in F!FD
        PROVE  u \in Having(Gets(f))' => status'[F!Fd(f)] = u
    <2>1. u \in Having(Gets(f)) => status[F!Fd(f)] = u
      BY <1>1 DEF Taken
    <2> QED
      BY <1>2, <1>3, <2>1, FileNames
  <1>6. ASSUME NEW u \in Threads, NEW f \in F!FD, u \in Having(Puts(f))'
        PROVE  \/ status'[F!Fd(f)] = u
               \/ /\ status'[F!Fd(f)] = "stream"
                  /\ \E s \in Streams : stream'[s] = f /\ status'[F!Fp(s)] = u
    <2>1. u \in Having(Puts(f)) /\ (u = t => Tail(todo[t]) # <<>>)
      BY <1>2, <1>6
    <2>2. \/ status[F!Fd(f)] = u
          \/ /\ status[F!Fd(f)] = "stream"
             /\ \E s \in Streams : stream[s] = f /\ status[F!Fp(s)] = u
      BY <1>1, <2>1 DEF Taken
    <2>3. CASE status[F!Fd(f)] = u
      BY <1>3, <2>1, <2>3, FileNames
    <2>4. ASSUME status[F!Fd(f)] = "stream", NEW s \in Streams, stream[s] = f,
                 status[F!Fp(s)] = u
          PROVE  status'[F!Fd(f)] = "stream" /\ stream'[s] = f /\ status'[F!Fp(s)] = u
      <3>1. F!Fd(f) \in F!Things /\ F!Fp(s) \in F!Things
        BY FileNames
      <3>2. status'[F!Fd(f)] = "stream"
        BY <2>4, <3>1, StepStatus
      <3>3. status'[F!Fp(s)] = u
        BY <1>3, <2>1, <2>4, <3>1
      <3> QED
        BY <1>1, <2>4, <3>2, <3>3
    <2> QED
      BY <2>2, <2>3, <2>4
  <1> QED
    BY <1>4, <1>5, <1>6 DEF Taken

\* What a step does to the calls that the report has for x.
FiltersOne(t, x) ==
    LET h == Head(todo[t])
    IN  /\ h = F!A(x) => filter'[x] = F!AllocCall(filter[x], FALSE)
        /\ h \in {OwnF(x), ExtF(x)} => filter'[x] = F!FreeCall(filter[x], FALSE)
        /\ h \notin {F!A(x), OwnF(x), ExtF(x)} => filter'[x] = filter[x]

LEMMA StepBooks ==
    ASSUME FileInv, NEW t \in Threads, FSteps1(t), NEW x \in F!Things, FiltersOne(t, x)
    PROVE  FClash(x)' /\ FBooks(x)'
  <1> DEFINE h == Head(todo[t])
             own  == Having({OwnF(x)})
             ext  == Having({ExtF(x)})
             tak  == Having({F!A(x)})
             who  == FWho(x)
             mark == FMark(x)
             own2  == Having({OwnF(x)})'
             ext2  == Having({ExtF(x)})'
             tak2  == Having({F!A(x)})'
             who2  == FWho(x)'
             mark2 == FMark(x)'
  <1>1. /\ todo[t] # <<>> /\ todo' = [todo EXCEPT ![t] = Tail(todo[t])]
        /\ raced' = raced /\ stolen' = stolen /\ silent' = silent
    BY DEF FSteps1
  <1>2. /\ DOMAIN todo = Threads /\ todo[t] \in Seq(FSteps) /\ FHeadDone(t, x)
    BY <1>1, FileRest
  <1>3. /\ h = OwnF(x) => t \in own
        /\ h # OwnF(x) => own2 = own
        /\ own2 \in {own, own \ {t}}
    BY <1>1, <1>2, HavingLess
  <1>4. /\ h = ExtF(x) => t \in ext
        /\ h # ExtF(x) => ext2 = ext
        /\ ext2 \in {ext, ext \ {t}}
    BY <1>1, <1>2, HavingLess
  <1>5. /\ h = F!A(x) => t \in tak
        /\ h # F!A(x) => tak2 = tak
        /\ tak2 \in {tak, tak \ {t}}
    BY <1>1, <1>2, HavingLess
  <1>6. mark2 = mark /\ mark \in 0..3
    BY <1>1 DEF FMark
  <1>7. /\ status'[x] = "early" <=> status[x] = "early"
        /\ status'[x] \in {"owned"} \cup Threads <=> status[x] \in {"owned"} \cup Threads
    BY StepStatus
  <1>8. who2 = IF status'[x] = "early" THEN "early"
               ELSE IF status'[x] \in {"owned"} \cup Threads /\ tak2 = {}
                    THEN "held" ELSE "other"
    BY DEF FWho
  <1>9. tak2 = tak => who2 = who
    BY <1>7, <1>8 DEF FWho
  <1>10. Clash(own, ext, tak, who, mark) /\ Books(own, ext, who, mark, filter[x])
    BY DEF FileInv, FClash, FBooks
  <1>11. FClash(x)' <=> Clash(own2, ext2, tak2, who2, mark2)
    BY DEF FClash, Clash
  <1>12. FBooks(x)' <=> Books(own2, ext2, who2, mark2, filter'[x])
    BY DEF FBooks, Books, Two
  <1>13. OwnF(x) # ExtF(x) /\ F!A(x) # OwnF(x) /\ F!A(x) # ExtF(x)
    BY AllocStep, OwnStep
  <1>14. h \in {OwnF(x), ExtF(x)} => t \notin own2
    BY <1>2 DEF FHeadDone
  <1>15. h = F!A(x) => t \notin own2 /\ t \notin ext2 /\ t \notin tak2
    BY <1>2 DEF FHeadDone
  <1>16. h = F!A(x) => tak = {t} /\ who = "other" /\ status[x] = t
    <2>1. \A u \in tak : status[x] = u
      BY DEF FileInv, Taken, Having
    <2>2. h = F!A(x) => tak = {t} /\ status[x] = t
      BY <1>5, <2>1
    <2>3. t # "early"
      BY FileNames
    <2> QED
      BY <2>2, <2>3 DEF FWho
  <1> HIDE DEF h, own, ext, tak, who, mark, own2, ext2, tak2, who2, mark2
  <1>17. CASE h \notin {F!A(x), OwnF(x), ExtF(x)}
    <2>1. filter'[x] = filter[x]
      BY <1>17 DEF FiltersOne, h
    <2>2. own2 = own /\ ext2 = ext /\ tak2 = tak /\ who2 = who
      BY <1>3, <1>4, <1>5, <1>9, <1>17
    <2> QED
      BY <1>6, <1>10, <1>11, <1>12, <2>1, <2>2
  <1>18. CASE h \in {OwnF(x), ExtF(x)}
    <2>1. filter'[x] = F!FreeCall(filter[x], FALSE)
      BY <1>18, Zenon DEF FiltersOne, h
    <2>2. tak2 = tak /\ who2 = who
      BY <1>5, <1>9, <1>13, <1>18
    <2>3. \/ t \in own /\ own2 = own \ {t} /\ ext2 = ext
          \/ t \in ext /\ t \notin own /\ own2 = own /\ ext2 \in {ext, ext \ {t}}
      BY <1>3, <1>4, <1>13, <1>14, <1>18
    <2>4. filter'[x] = FreeCall(filter[x], FALSE) \/ filter'[x] = F!FreeCall(filter[x], FALSE)
      BY <2>1, Zenon
    <2>5. /\ Clash(own2, ext2, tak, who, mark)
          /\ Books(own, ext, who, mark, filter[x]) => Books(own2, ext2, who, mark, filter'[x])
      BY <1>6, <1>10, <2>3, <2>4, LedgerFree
    <2> QED
      BY <1>6, <1>10, <1>11, <1>12, <2>2, <2>5
  <1>19. CASE h = F!A(x)
    <2>1. filter'[x] = F!AllocCall(filter[x], FALSE)
      BY <1>19, Zenon DEF FiltersOne, h
    <2>2. own2 = own /\ ext2 = ext /\ t \notin own /\ t \notin ext /\ tak = {t} /\ tak2 = {}
      BY <1>3, <1>4, <1>5, <1>13, <1>15, <1>16, <1>19
    <2>3. who = "other" /\ who2 = "held"
      <3>1. status[x] = t /\ t # "early"
        BY <1>16, <1>19, FileNames
      <3>2. status'[x] # "early" /\ status'[x] \in {"owned"} \cup Threads
        BY <1>7, <3>1
      <3> QED
        BY <1>8, <1>16, <1>19, <2>2, <3>2
    <2>4. filter'[x] = AllocCall(filter[x], FALSE) \/ filter'[x] = F!AllocCall(filter[x], FALSE)
      BY <2>1, Zenon
    <2>5. t \in tak /\ Clash(own, ext, tak, "other", mark)
      BY <1>10, <2>2, <2>3
    <2>6. /\ Clash(own, ext, {}, "held", mark)
          /\ Books(own, ext, "other", mark, filter[x]) => Books(own, ext, "held", mark, filter'[x])
      BY <1>6, <2>2, <2>4, <2>5, LedgerAlloc
    <2> QED
      BY <1>6, <1>10, <1>11, <1>12, <2>2, <2>3, <2>6
  <1> QED
    BY <1>17, <1>18, <1>19

\* The filter after the report h of x.
Reported(h, x, new) ==
    /\ DOMAIN new = F!Things \cup {F!AllFps}
    /\ h = F!A(x) => new[x] = F!AllocCall(filter[x], FALSE)
    /\ h # F!A(x) => new[x] = F!FreeCall(filter[x], FALSE)
    /\ \A y \in F!Things : y # x => new[y] = filter[y]

LEMMA ReportFilters ==
    ASSUME FileInv, NEW h, NEW x \in F!Things \cup {F!AllFps},
           h \in {F!A(x), OwnF(x), ExtF(x)}
    PROVE  Reported(h, x, F!RemoveFreed(filter, F!CallOf(h)))
  <1>1. DOMAIN filter = F!Things \cup {F!AllFps}
    BY DEF FileInv, FileTypes
  <1>2. h.of = x /\ h.do \in {"alloc", "free"} /\ (h.do = "alloc" <=> h = F!A(x))
    BY DEF F!A, OwnF, ExtF, F!F
  <1>3. <<x[1], x[2]>> = x
    <2>1. CASE x \in F!Things
      BY <2>1 DEF F!Things, F!Fds, F!Fps
    <2>2. CASE x = F!AllFps
      BY <2>2 DEF F!AllFps
    <2> QED
      BY <2>1, <2>2
  <1>4. F!Resource(F!CallOf(h)) = x /\ F!CallOf(h).type = h.do
    BY <1>2, <1>3 DEF F!Resource, F!CallOf
  <1>5. (F!CallOf(h).res \in {}) = FALSE
    OBVIOUS
  <1> DEFINE c == F!CallOf(h)
             new == F!RemoveFreed(filter, c)
  <1>6. new = [filter EXCEPT ![x] = IF h.do = "alloc" THEN F!AllocCall(filter[x], FALSE)
                                    ELSE F!FreeCall(filter[x], FALSE)]
    <2>1. new = [filter EXCEPT ![x] = IF h.do = "alloc" THEN F!AllocCall(filter[x], c.res \in {})
                                      ELSE F!FreeCall(filter[x], c.res \in {})]
      BY <1>4 DEF F!RemoveFreed
    <2> QED
      BY <1>5, <2>1, Zenon
  <1> HIDE DEF new
  <1>7. x \in DOMAIN filter
    BY <1>1
  <1>8. new[x] = IF h.do = "alloc" THEN F!AllocCall(filter[x], FALSE)
                 ELSE F!FreeCall(filter[x], FALSE)
    BY <1>6, <1>7
  <1>9. DOMAIN new = DOMAIN filter /\ \A y \in F!Things : y # x => new[y] = filter[y]
    BY <1>1, <1>6
  <1>10. Reported(h, x, new)
    BY <1>1, <1>2, <1>8, <1>9, Zenon DEF Reported
  <1> QED
    BY <1>10 DEF new

LEMMA WrongLess ==
    ASSUME FileInv, NEW t \in Threads, FSteps1(t), NEW f \in F!FD, NEW u \in Threads
    PROVE  u \in Having(Wrong(f, kfd[f]))' => u \in Having(Wrong(f, kfd[f]))
  <1>1. /\ todo[t] # <<>> /\ todo' = [todo EXCEPT ![t] = Tail(todo[t])] /\ kfd' = kfd
    BY DEF FSteps1
  <1>2. DOMAIN todo = Threads /\ todo[t] \in Seq(FSteps)
    BY <1>1, FileRest
  <1> DEFINE k == kfd[f]
  <1>3. Having(Wrong(f, kfd[f]))' = {v \in Threads : Has(todo'[v], Wrong(f, kfd'[f]))}
    BY DEF Having, Has, Wrong
  <1>4. Has(Tail(todo[t]), Wrong(f, k)) => Has(todo[t], Wrong(f, k))
    BY <1>1, <1>2, RestOfProgram
  <1>5. Has(todo'[u], Wrong(f, k)) => Has(todo[u], Wrong(f, k))
    BY <1>1, <1>2, <1>4
  <1> QED
    BY <1>1, <1>3, <1>5 DEF Having

\* A step that neither writes the type of f nor reads one for f.
LEMMA TypedElsewhere ==
    ASSUME FileInv, NEW t \in Threads, FSteps1(t), NEW f \in F!FD, F!Tracked(f),
           Head(todo[t]) \notin Puts(f), Head(todo[t]) \notin Gets(f),
           rtfds'[f] = rtfds[f] \/ Stray(f, rtfds'[f]), f \in mixed' <=> f \in mixed,
           \A u \in Threads : noted'[u] \in {noted[u], "unknown"} \/ u \notin Having(Puts(f))
    PROVE  Typed(f)'
  <1>1. /\ todo[t] # <<>> /\ todo' = [todo EXCEPT ![t] = Tail(todo[t])] /\ kfd' = kfd
    BY DEF FSteps1
  <1>2. DOMAIN todo = Threads /\ todo[t] \in Seq(FSteps)
    BY <1>1, FileRest
  <1>3. F!CopyFd(f) \in Puts(f) /\ {F!CopyFd(f)} \subseteq Puts(f)
    BY DEF Puts
  <1>4. Head(todo[t]) \notin {F!CopyFd(f)}
    BY <1>3
  <1>5. /\ Having(Puts(f))' = Having(Puts(f)) /\ Having(Gets(f))' = Having(Gets(f))
        /\ Having({F!CopyFd(f)})' = Having({F!CopyFd(f)})
    BY <1>1, <1>2, <1>4, HavingLess
  <1>6. Typed(f)
    BY DEF FileInv
  <1>7. Right(f, rtfds[f]) => Right(f, rtfds[f])'
    BY <1>1 DEF Right, Stray
  <1>8. F!Fd(f) \in F!Things
    BY FileNames
  <1>9. status'[F!Fd(f)] = "early" => Right(f, rtfds[f])'
    BY <1>6, <1>7, <1>8, StepStatus DEF Typed
  <1>10. Tail(todo[t]) = <<>> => t \notin Having(Puts(f))
    <2>1. Having(Puts(f))' =
            IF Has(Tail(todo[t]), Puts(f)) THEN Having(Puts(f)) \cup {t} ELSE Having(Puts(f)) \ {t}
      BY <1>1, <1>2, HavingChanged
    <2>2. Tail(todo[t]) = <<>> => ~Has(Tail(todo[t]), Puts(f))
      BY NoSteps
    <2> QED
      BY <1>5, <2>1, <2>2
  <1>11. status'[F!Fd(f)] = "owned" => Right(f, rtfds[f])'
    <2>1. status'[F!Fd(f)] = "owned" =>
            status[F!Fd(f)] = "owned" \/ (status[F!Fd(f)] = t /\ Tail(todo[t]) = <<>>)
      BY <1>8, StepStatus
    <2> QED
      BY <1>6, <1>7, <1>10, <2>1 DEF Typed
  <1>12. ASSUME NEW u \in Threads, status'[F!Fd(f)] = u
         PROVE  /\ u \in Having(Puts(f))' \/ Right(f, rtfds[f])'
                /\ u \notin Having(Wrong(f, kfd[f]))'
                /\ u \in Having({F!CopyFd(f)})' =>
                     u \in Having(Gets(f))' \/ Right(f, noted[u])'
    <2>1. status[F!Fd(f)] = u
      BY <1>8, <1>12, StepStatus
    <2>2. u \notin Having(Wrong(f, kfd[f]))'
      BY <1>6, <2>1, WrongLess DEF Typed
    <2>3. u \in Having({F!CopyFd(f)}) => u \in Having(Puts(f))
      BY <1>3 DEF Having, Has
    <2>4. noted'[u] \in {noted[u], "unknown"} => (Right(f, noted[u]) => Right(f, noted[u])')
      BY <1>1 DEF Right
    <2> QED
      BY <1>5, <1>6, <1>7, <2>1, <2>2, <2>3, <2>4 DEF Typed
  <1> QED
    BY <1>9, <1>11, <1>12 DEF Typed

\* A step that writes the type of f.
LEMMA TypedPut ==
    ASSUME FileInv, NEW t \in Threads, FSteps1(t), NEW f \in F!FD, F!Tracked(f),
           Head(todo[t]) \in Puts(f), noted' = [noted EXCEPT ![t] = "unknown"],
           status[F!Fd(f)] = t => Right(f, rtfds[f])'
    PROVE  Typed(f)'
  <1>1. /\ todo[t] # <<>> /\ todo' = [todo EXCEPT ![t] = Tail(todo[t])]
    BY DEF FSteps1
  <1>2. DOMAIN todo = Threads /\ todo[t] \in Seq(FSteps)
    BY <1>1, FileRest
  <1>3. F!Fd(f) \in F!Things /\ t \notin {"early", "owned", "stream"}
    BY FileNames
  <1>4. status[F!Fd(f)] \in {t, "stream"}
    <2>1. t \in Having(Puts(f))
      BY <1>1, <1>2, HavingLess
    <2> QED
      BY <2>1 DEF FileInv, Taken
  <1>5. CASE status[F!Fd(f)] = "stream"
    <2>1. status'[F!Fd(f)] = "stream"
      BY <1>3, <1>5, StepStatus
    <2>2. \A u \in Threads : u # "stream"
      BY FileNames
    <2> QED
      BY <2>1, <2>2 DEF Typed
  <1>6. CASE status[F!Fd(f)] = t
    <2>1. Typed(f) /\ DOMAIN noted = Threads
      BY DEF FileInv, FileTypes
    <2>2. status'[F!Fd(f)] # "early" /\ \A u \in Threads : u # t => status'[F!Fd(f)] # u
      BY <1>3, <1>6, StepStatus
    <2>3. Right(f, rtfds[f])'
      BY <1>6
    <2>4. t \notin Having(Wrong(f, kfd[f]))'
      BY <1>6, <2>1, WrongLess DEF Typed
    <2>5. Right(f, noted[t])'
      BY <2>1 DEF Right
    <2> QED
      BY <2>2, <2>3, <2>4, <2>5 DEF Typed
  <1> QED
    BY <1>4, <1>5, <1>6

\* A step that reads a type for f.
LEMMA TypedGet ==
    ASSUME FileInv, NEW t \in Threads, FSteps1(t), NEW f \in F!FD, F!Tracked(f),
           Head(todo[t]) \in Gets(f), rtfds' = rtfds, Right(f, noted[t])'
    PROVE  Typed(f)'
  <1>1. /\ todo[t] # <<>> /\ todo' = [todo EXCEPT ![t] = Tail(todo[t])]
    BY DEF FSteps1
  <1>2. /\ DOMAIN todo = Threads /\ todo[t] \in Seq(FSteps) /\ FGood(todo[t])
    <2>1. DOMAIN todo = Threads /\ todo[t] \in Seq(FSteps)
      BY <1>1, FileRest
    <2> QED
      BY <2>1 DEF FileInv, FilePrograms
  <1>3. F!Fd(f) \in F!Things /\ t \notin {"early", "owned", "stream"}
    BY FileNames
  <1>4. Has(todo[t], Gets(f)) /\ t \in Having(Gets(f))
    BY <1>1, <1>2, HavingLess DEF Having
  <1>5. status[F!Fd(f)] = t
    BY <1>4 DEF FileInv, Taken
  <1>6. t \in Having(Puts(f))'
    <2>1. Has(todo[t], {F!CopyFd(f)})
      BY <1>2, <1>4 DEF FGood
    <2>2. t \in Having(Puts(f))
      BY <2>1 DEF Puts, Having, Has
    <2>3. Head(todo[t]) \notin Puts(f)
      <3>1. PICK o \in F!FD : Head(todo[t]) = F!GetFd(o, f)
        BY DEF Gets
      <3> QED
        BY <3>1, GetStep
    <2> QED
      BY <1>1, <1>2, <2>2, <2>3, HavingLess
  <1>7. Tail(todo[t]) # <<>>
    <2>1. Having(Puts(f))' =
            IF Has(Tail(todo[t]), Puts(f)) THEN Having(Puts(f)) \cup {t} ELSE Having(Puts(f)) \ {t}
      BY <1>1, <1>2, HavingChanged
    <2> QED
      BY <1>6, <2>1, NoSteps
  <1>8. status'[F!Fd(f)] = t
    BY <1>3, <1>5, <1>7, StepStatus
  <1>9. t \notin Having(Wrong(f, kfd[f]))'
    <2>1. Typed(f)
      BY DEF FileInv
    <2> QED
      BY <1>5, <2>1, WrongLess DEF Typed
  <1> QED
    BY <1>3, <1>6, <1>8, <1>9 DEF Typed

LEMMA StepDone ==
    ASSUME FileInv, NEW t \in Threads, FSteps1(t),
           DOMAIN rtfds' = F!FD, DOMAIN noted' = Threads,
           DOMAIN filter' = F!Things \cup {F!AllFps},
           \A x \in F!Things : FiltersOne(t, x),
           \A f \in F!FD : F!Tracked(f) => Typed(f)'
    PROVE  FileInv'
  <1>1. /\ todo[t] # <<>> /\ todo' = [todo EXCEPT ![t] = Tail(todo[t])]
        /\ raced' = raced /\ stolen' = stolen
    BY DEF FSteps1
  <1>2. DOMAIN todo = Threads /\ stolen \subseteq raced
    BY DEF FileInv, FileTypes
  <1>3. FileTypes'
    BY <1>1, <1>2 DEF FileTypes
  <1>4. FilePrograms'
    BY <1>1, FileRest
  <1>5. Kernel' /\ Taken'
    BY StepKernel, StepTaken
  <1>6. \A x \in F!Things : FClash(x)' /\ FBooks(x)'
    BY StepBooks
  <1>7. \A f \in F!FD : F!Tracked(f)' => Typed(f)'
    BY DEF F!Tracked
  <1> QED
    BY <1>3, <1>4, <1>5, <1>6, <1>7 DEF FileInv

LEMMA ReportsThing ==
    ASSUME FileInv, NEW t \in Threads, FSteps1(t), NEW x \in F!Things \cup {F!AllFps},
           \/ x \in F!Things /\ Head(todo[t]) \in {F!A(x), OwnF(x)}
           \/ Head(todo[t]) = ExtF(x),
           filter' = F!RemoveFreed(filter, F!CallOf(Head(todo[t]))),
           rtfds' = rtfds, noted' = noted, mixed' = mixed
    PROVE  FileInv'
  <1> DEFINE h == Head(todo[t])
  <1>1. /\ DOMAIN filter' = F!Things \cup {F!AllFps}
        /\ h = F!A(x) => filter'[x] = F!AllocCall(filter[x], FALSE)
        /\ h # F!A(x) => filter'[x] = F!FreeCall(filter[x], FALSE)
        /\ \A y \in F!Things : y # x => filter'[y] = filter[y]
    <2>1. h \in {F!A(x), OwnF(x), ExtF(x)}
      OBVIOUS
    <2> HIDE DEF h
    <2>2. filter' = F!RemoveFreed(filter, F!CallOf(h))
      BY DEF h
    <2>3. Reported(h, x, F!RemoveFreed(filter, F!CallOf(h)))
      BY <2>1, ReportFilters
    <2> QED
      BY <2>2, <2>3, Zenon DEF Reported
  <1>2. /\ \A y : y # x => h # F!A(y) /\ h # OwnF(y) /\ h # ExtF(y)
        /\ \A f : h \notin Puts(f) /\ h \notin Gets(f)
    <2>1. CASE x \in F!Things /\ h = F!A(x)
      BY <2>1, AllocStep
    <2>2. CASE x \in F!Things /\ h = OwnF(x)
      BY <2>2, OwnStep
    <2>3. CASE h = ExtF(x)
      BY <2>3, ExtStep
    <2> QED
      BY <2>1, <2>2, <2>3
  <1>3. DOMAIN rtfds' = F!FD /\ DOMAIN noted' = Threads
    BY DEF FileInv, FileTypes
  <1>4. ASSUME NEW y \in F!Things
        PROVE  FiltersOne(t, y)
    <2>1. CASE y = x
      <3>1. F!A(y) # OwnF(y) /\ F!A(y) # ExtF(y) /\ h \in {F!A(y), OwnF(y), ExtF(y)}
        BY <2>1, AllocStep
      <3> QED
        BY <1>1, <2>1, <3>1, Zenon DEF FiltersOne
    <2>2. CASE y # x
      <3>1. filter'[y] = filter[y] /\ h \notin {F!A(y), OwnF(y), ExtF(y)}
        BY <1>1, <1>2, <2>2
      <3> QED
        BY <3>1 DEF FiltersOne
    <2> QED
      BY <2>1, <2>2
  <1>5. ASSUME NEW f \in F!FD, F!Tracked(f)
        PROVE  Typed(f)'
    BY <1>2, <1>5, TypedElsewhere
  <1> QED
    BY <1>1, <1>3, <1>4, <1>5, StepDone

LEMMA NothingFiltered ==
    ASSUME FileInv, NEW t, filter' = filter, NEW x \in F!Things,
           Head(todo[t]) \notin {F!A(x), OwnF(x), ExtF(x)}
    PROVE  FiltersOne(t, x)
  BY DEF FiltersOne

LEMMA SetsType ==
    ASSUME FileInv, NEW t \in Threads, FSteps1(t), NEW g \in F!FD, NEW ty \in F!Types,
           Head(todo[t]) = F!SetFd(g, ty), filter' = filter,
           rtfds' = IF F!Tracked(g) THEN [rtfds EXCEPT ![g] = ty] ELSE rtfds,
           noted' = [noted EXCEPT ![t] = "unknown"],
           mixed' = IF ty # "closed" THEN mixed \ {g} ELSE mixed
    PROVE  FileInv'
  <1> DEFINE h == Head(todo[t])
  <1>1. /\ \A y : h # F!A(y) /\ h # OwnF(y) /\ h # ExtF(y)
        /\ \A f : (h \in Puts(f) <=> f = g /\ ~Stray(g, ty)) /\ h \notin Gets(f)
        /\ \A f, k : h \in Wrong(f, k) <=> f = g /\ ~Stray(g, ty) /\ k # ty
    BY SetStep
  <1>2. DOMAIN rtfds = F!FD /\ DOMAIN noted = Threads /\ DOMAIN filter = F!Things \cup {F!AllFps}
    BY DEF FileInv, FileTypes
  <1>3. DOMAIN rtfds' = F!FD /\ DOMAIN noted' = Threads
    BY <1>2
  <1>4. \A x \in F!Things : FiltersOne(t, x)
    BY <1>1, NothingFiltered
  <1>5. ASSUME NEW f \in F!FD, F!Tracked(f)
        PROVE  Typed(f)'
    <2>1. CASE f # g
      <3>1. rtfds'[f] = rtfds[f]
        BY <1>2, <2>1
      <3>2. \A u \in Threads : noted'[u] \in {noted[u], "unknown"}
        BY <1>2
      <3>3. f \in mixed' <=> f \in mixed
        BY <2>1
      <3> QED
        BY <1>1, <1>5, <2>1, <3>1, <3>2, <3>3, TypedElsewhere
    <2>2. CASE f = g /\ ~Stray(g, ty)
      <3>1. ASSUME status[F!Fd(f)] = t
            PROVE  ty = kfd[f]
        <4>1. t \notin Having(Wrong(f, kfd[f]))
          BY <1>5, <3>1 DEF FileInv, Typed
        <4> DEFINE W == Wrong(f, kfd[f])
        <4>2. todo[t] # <<>> /\ todo[t] \in Seq(FSteps)
          <5>1. todo[t] # <<>> /\ todo' = [todo EXCEPT ![t] = Tail(todo[t])]
            BY DEF FSteps1
          <5> QED
            BY <5>1, FileRest
        <4>3. Has(todo[t], W) <=> h \in W \/ Has(Tail(todo[t]), W)
          BY <4>2, RestOfProgram
        <4>4. h \notin Wrong(f, kfd[f])
          BY <4>1, <4>3 DEF Having
        <4> QED
          BY <1>1, <2>2, <4>4
      <3>2. rtfds'[f] = ty /\ kfd' = kfd
        BY <1>2, <1>5, <2>2 DEF FSteps1
      <3>3. status[F!Fd(f)] = t => Right(f, rtfds[f])'
        BY <3>1, <3>2 DEF Right
      <3> QED
        BY <1>1, <1>5, <2>2, <3>3, TypedPut
    <2>3. CASE f = g /\ Stray(g, ty)
      <3>1. rtfds'[f] = ty /\ (f \in mixed' <=> f \in mixed)
        BY <1>2, <1>5, <2>3 DEF Stray
      <3>2. \A u \in Threads : noted'[u] \in {noted[u], "unknown"}
        BY <1>2
      <3> QED
        BY <1>1, <1>5, <2>3, <3>1, <3>2, TypedElsewhere
    <2> QED
      BY <2>1, <2>2, <2>3
  <1> QED
    BY <1>2, <1>3, <1>4, <1>5, StepDone

LEMMA CopiesType ==
    ASSUME FileInv, NEW t \in Threads, FSteps1(t), NEW g \in F!FD,
           Head(todo[t]) = F!CopyFd(g), filter' = filter,
           rtfds' = IF F!Tracked(g) THEN [rtfds EXCEPT ![g] = noted[t]] ELSE rtfds,
           noted' = [noted EXCEPT ![t] = "unknown"], mixed' = mixed
    PROVE  FileInv'
  <1> DEFINE h == Head(todo[t])
  <1>1. /\ \A y : h # F!A(y) /\ h # OwnF(y) /\ h # ExtF(y)
        /\ \A f : (h \in Puts(f) <=> f = g) /\ h \notin Gets(f)
    BY CopyStep
  <1>2. DOMAIN rtfds = F!FD /\ DOMAIN noted = Threads /\ DOMAIN filter = F!Things \cup {F!AllFps}
    BY DEF FileInv, FileTypes
  <1>3. DOMAIN rtfds' = F!FD /\ DOMAIN noted' = Threads
    BY <1>2
  <1>4. \A x \in F!Things : FiltersOne(t, x)
    BY <1>1, NothingFiltered
  <1>5. ASSUME NEW f \in F!FD, F!Tracked(f)
        PROVE  Typed(f)'
    <2>1. CASE f # g
      <3>1. rtfds'[f] = rtfds[f]
        BY <1>2, <2>1
      <3>2. \A u \in Threads : noted'[u] \in {noted[u], "unknown"}
        BY <1>2
      <3> QED
        BY <1>1, <1>5, <2>1, <3>1, <3>2, TypedElsewhere
    <2>2. CASE f = g
      <3>1. /\ todo[t] # <<>> /\ todo' = [todo EXCEPT ![t] = Tail(todo[t])] /\ kfd' = kfd
        BY DEF FSteps1
      <3>2. DOMAIN todo = Threads /\ todo[t] \in Seq(FSteps) /\ t \notin Having(Gets(f))'
        BY <1>1, <2>2, <3>1, FileRest
      <3>3. t \notin Having(Gets(f))
        BY <1>1, <3>1, <3>2, HavingLess
      <3>4. t \in Having({F!CopyFd(f)})
        BY <2>2, <3>1, <3>2, HavingLess
      <3>5. status[F!Fd(f)] = t => Right(f, noted[t])
        BY <1>5, <3>3, <3>4 DEF FileInv, Typed
      <3>6. rtfds'[f] = noted[t]
        BY <1>2, <1>5, <2>2
      <3>7. Right(f, noted[t]) => Right(f, rtfds[f])'
        BY <3>1, <3>6 DEF Right
      <3> QED
        BY <1>1, <1>5, <2>2, <3>5, <3>7, TypedPut
    <2> QED
      BY <2>1, <2>2
  <1> QED
    BY <1>2, <1>3, <1>4, <1>5, StepDone

LEMMA ReadsType ==
    ASSUME FileInv, NEW t \in Threads, FSteps1(t), NEW o \in F!FD, NEW g \in F!FD,
           Head(todo[t]) = F!GetFd(o, g), filter' = filter, rtfds' = rtfds,
           noted' = [noted EXCEPT ![t] = IF F!Tracked(o) THEN rtfds[o] ELSE "unknown"],
           mixed' = IF F!Misread(o, g) THEN mixed \cup {g} ELSE mixed \ {g}
    PROVE  FileInv'
  <1> DEFINE h == Head(todo[t])
  <1>1. /\ \A y : h # F!A(y) /\ h # OwnF(y) /\ h # ExtF(y)
        /\ \A f : (h \in Gets(f) <=> f = g) /\ h \notin Puts(f)
    BY GetStep
  <1>2. /\ DOMAIN rtfds = F!FD /\ DOMAIN noted = Threads
        /\ DOMAIN filter = F!Things \cup {F!AllFps}
    BY DEF FileInv, FileTypes
  <1>3. DOMAIN rtfds' = F!FD /\ DOMAIN noted' = Threads
    BY <1>2
  <1>4. \A x \in F!Things : FiltersOne(t, x)
    BY <1>1, NothingFiltered
  <1>5. ASSUME NEW f \in F!FD, F!Tracked(f)
        PROVE  Typed(f)'
    <2>1. CASE f # g
      <3>1. f \in mixed' <=> f \in mixed
        BY <2>1
      <3>2. t \notin Having(Puts(f))
        <4>1. todo[t] # <<>> /\ todo' = [todo EXCEPT ![t] = Tail(todo[t])]
          BY DEF FSteps1
        <4>2. DOMAIN todo = Threads /\ todo[t] \in Seq(FSteps)
          BY <4>1, FileRest
        <4>3. t \in Having(Gets(g))
          BY <1>1, <4>1, <4>2, HavingLess
        <4>4. FGood(todo[t])
          BY DEF FileInv, FilePrograms
        <4> QED
          BY <2>1, <4>3, <4>4 DEF FGood, Having
      <3>3. \A u \in Threads : u # t => noted'[u] = noted[u]
        BY <1>2
      <3> QED
        BY <1>1, <1>5, <2>1, <3>1, <3>2, <3>3, TypedElsewhere
    <2>2. CASE f = g
      <3>1. noted'[t] = IF F!Tracked(o) THEN rtfds[o] ELSE "unknown"
        BY <1>2
      <3>2. kfd' = kfd
        BY DEF FSteps1
      <3>3. CASE F!Misread(o, g)
        <4>1. f \in mixed'
          BY <2>2, <3>3
        <4> QED
          BY <1>1, <1>5, <2>2, <4>1, TypedGet DEF Right
      <3>4. CASE ~F!Misread(o, g)
        <4>1. /\ status[F!Fd(o)] \in {"owned", "early"} /\ kfd[o] = kfd[f] /\ o \notin mixed
              /\ ~Stray(o, rtfds[o])
          BY <2>2, <3>4 DEF F!Misread, F!Held, Stray
        <4>2. noted'[t] \in {kfd[f], "unknown"}
          <5>1. CASE ~F!Tracked(o)
            BY <3>1, <5>1
          <5>2. CASE F!Tracked(o)
            <6>1. Typed(o)
              BY <5>2 DEF FileInv
            <6>2. rtfds[o] \in {kfd[o], "unknown"}
              BY <4>1, <6>1 DEF Typed, Right
            <6> QED
              BY <3>1, <4>1, <5>2, <6>2
          <5> QED
            BY <5>1, <5>2
        <4>3. Right(f, noted[t])'
          BY <3>2, <4>2 DEF Right
        <4> QED
          BY <1>1, <1>5, <2>2, <4>3, TypedGet
      <3> QED
        BY <3>3, <3>4
    <2> QED
      BY <2>1, <2>2
  <1> QED
    BY <1>2, <1>3, <1>4, <1>5, StepDone

LEMMA FileWrapperStep ==
    ASSUME FileInv, NEW t \in Threads, F!WrapperStep(t)
    PROVE  FileInv'
  <1> DEFINE h == Head(todo[t])
  <1>1. FSteps1(t)
    BY DEF F!WrapperStep, F!Idle, FSteps1
  <1>2. \/ /\ h.do \in {"alloc", "free"}
           /\ filter' = F!RemoveFreed(filter, F!CallOf(h))
           /\ rtfds' = rtfds /\ noted' = noted /\ mixed' = mixed
        \/ /\ h.do = "get"
           /\ noted' = [noted EXCEPT ![t] = IF F!Tracked(h.fd) THEN rtfds[h.fd] ELSE "unknown"]
           /\ mixed' = IF F!Misread(h.fd, h.for) THEN mixed \cup {h.for} ELSE mixed \ {h.for}
           /\ rtfds' = rtfds /\ filter' = filter
        \/ /\ h.do \in {"set", "copy"}
           /\ rtfds' = IF F!Tracked(h.fd)
                       THEN [rtfds EXCEPT ![h.fd] = IF h.do = "set" THEN h.type ELSE noted[t]]
                       ELSE rtfds
           /\ noted' = [noted EXCEPT ![t] = "unknown"]
           /\ mixed' = IF h.do = "set" /\ h.type # "closed" THEN mixed \ {h.fd} ELSE mixed
           /\ filter' = filter
    BY DEF F!WrapperStep
  <1>3. h \in FSteps
    <2>1. todo[t] # <<>> /\ todo' = [todo EXCEPT ![t] = Tail(todo[t])]
      BY <1>1 DEF FSteps1
    <2> QED
      BY <2>1, FileRest
  <1> HIDE DEF h
  <1>4. ASSUME NEW x \in F!Things \cup {F!AllFps},
               (x \in F!Things /\ h \in {F!A(x), OwnF(x)}) \/ h = ExtF(x)
        PROVE  FileInv'
    <2>1. h.do \in {"alloc", "free"}
      BY <1>4 DEF F!A, OwnF, ExtF, F!F
    <2>2. /\ filter' = F!RemoveFreed(filter, F!CallOf(h))
          /\ rtfds' = rtfds /\ noted' = noted /\ mixed' = mixed
      BY <1>2, <2>1
    <2> QED
      BY <1>1, <1>4, <2>2, ReportsThing DEF h
  <1>5. ASSUME NEW g \in F!FD, NEW ty \in F!Types, h = F!SetFd(g, ty)
        PROVE  FileInv'
    <2>1. h.do = "set" /\ h.fd = g /\ h.type = ty
      BY <1>5 DEF F!SetFd
    <2>2. /\ rtfds' = IF F!Tracked(g) THEN [rtfds EXCEPT ![g] = ty] ELSE rtfds
          /\ noted' = [noted EXCEPT ![t] = "unknown"] /\ filter' = filter
          /\ mixed' = IF ty # "closed" THEN mixed \ {g} ELSE mixed
      BY <1>2, <2>1
    <2> QED
      BY <1>1, <1>5, <2>2, SetsType DEF h
  <1>6. ASSUME NEW g \in F!FD, h = F!CopyFd(g)
        PROVE  FileInv'
    <2>1. h.do = "copy" /\ h.fd = g
      BY <1>6 DEF F!CopyFd
    <2>2. /\ rtfds' = IF F!Tracked(g) THEN [rtfds EXCEPT ![g] = noted[t]] ELSE rtfds
          /\ noted' = [noted EXCEPT ![t] = "unknown"] /\ mixed' = mixed /\ filter' = filter
      BY <1>2, <2>1
    <2> QED
      BY <1>1, <1>6, <2>2, CopiesType DEF h
  <1>7. ASSUME NEW o \in F!FD, NEW g \in F!FD, h = F!GetFd(o, g)
        PROVE  FileInv'
    <2>1. h.do = "get" /\ h.fd = o /\ h.for = g
      BY <1>7 DEF F!GetFd
    <2>2. /\ noted' = [noted EXCEPT ![t] = IF F!Tracked(o) THEN rtfds[o] ELSE "unknown"]
          /\ mixed' = IF F!Misread(o, g) THEN mixed \cup {g} ELSE mixed \ {g}
          /\ rtfds' = rtfds /\ filter' = filter
      BY <1>2, <2>1
    <2> QED
      BY <1>1, <1>7, <2>2, ReadsType DEF h
  <1> QED
    BY <1>3, <1>4, <1>5, <1>6, <1>7 DEF FSteps

LEMMA FileStep ==
    ASSUME FileInv, F!Next
    PROVE  FileInv'
  <1>1. F!Step
    BY DEF F!Next
  <1>2. PICK t \in Threads :
            \/ F!WrapperStep(t) \/ F!Fcloseall(t)
            \/ F!OpenFile(t) \/ F!Socket(t) \/ F!Socketpair(t) \/ F!Accept(t)
            \/ F!SpecialFd(t) \/ F!Pipe(t)
            \/ \E f \in F!FD :
                \/ F!BindCommon(t, f) \/ F!Dup(t, f) \/ F!Close(t, f) \/ F!CloseFails(t, f)
                \/ \E g \in F!FD : F!Dup2(t, f, g) \/ F!FcntlDup(t, f, g)
                \/ \E s \in Streams : F!Fdopen(t, f, s)
            \/ \E s \in Streams :
                F!Fopen(t, s) \/ F!Freopen(t, s) \/ F!Fclose(t, s) \/ F!FcloseFails(t, s)
    BY <1>1 DEF F!Step
  <1>3. ASSUME NEW kind \in F!Kinds, F!OpenOne(t, kind) \/ F!OpenPair(t, kind)
        PROVE  FileInv'
    BY <1>3, OpenOneStep, OpenPairStep
  <1>4. CASE F!WrapperStep(t)
    BY <1>4, FileWrapperStep
  <1>5. CASE F!Fcloseall(t)
    BY <1>5, FcloseallStep
  <1>6. CASE \/ F!OpenFile(t) \/ F!Socket(t) \/ F!Socketpair(t) \/ F!Accept(t)
             \/ F!SpecialFd(t) \/ F!Pipe(t)
    <2>1. \E kind \in F!Kinds : F!OpenOne(t, kind) \/ F!OpenPair(t, kind)
      BY <1>6, KindNames
      DEF F!OpenFile, F!Socket, F!Socketpair, F!Accept, F!SpecialFd, F!Pipe
    <2> QED
      BY <1>3, <2>1
  <1>7. ASSUME NEW f \in F!FD,
               \/ F!BindCommon(t, f) \/ F!Dup(t, f) \/ F!Close(t, f) \/ F!CloseFails(t, f)
               \/ \E g \in F!FD : F!Dup2(t, f, g) \/ F!FcntlDup(t, f, g)
               \/ \E s \in Streams : F!Fdopen(t, f, s)
        PROVE  FileInv'
    <2>1. CASE F!BindCommon(t, f)
      BY <2>1, BindStep
    <2>2. CASE F!Dup(t, f)
      BY <2>2, DupSteps
    <2>3. CASE F!Close(t, f)
      BY <2>3, CloseStep
    <2>4. CASE F!CloseFails(t, f)
      BY <2>4, CloseFailsStep
    <2>5. CASE \E g \in F!FD : F!Dup2(t, f, g) \/ F!FcntlDup(t, f, g)
      BY <2>5, DupSteps
    <2>6. CASE \E s \in Streams : F!Fdopen(t, f, s)
      BY <2>6, FdopenStep
    <2> QED
      BY <1>7, <2>1, <2>2, <2>3, <2>4, <2>5, <2>6
  <1>8. ASSUME NEW s \in Streams,
               F!Fopen(t, s) \/ F!Freopen(t, s) \/ F!Fclose(t, s) \/ F!FcloseFails(t, s)
        PROVE  FileInv'
    BY <1>8, FopenStep, FreopenStep, FcloseStep, FcloseFailsStep
  <1> QED
    BY <1>2, <1>4, <1>5, <1>6, <1>7, <1>8

LEMMA FileInit ==
    ASSUME F!Init
    PROVE  FileInv
  <1>1. /\ kfd \in [F!FD -> {"free", "std", "file"}] /\ kfd[0] = "std"
        /\ stream = [s \in Streams |-> F!NoFd]
        /\ status = [x \in F!Things |->
                        IF x \in F!Fds /\ kfd[x[2]] # "free" THEN "early" ELSE "none"]
        /\ rtfds = [f \in F!FD |-> "unknown"] /\ todo = [t \in Threads |-> <<>>]
        /\ noted = [t \in Threads |-> "unknown"]
        /\ filter = [x \in F!Things \cup {F!AllFps} |-> F!NoCalls]
        /\ raced = {} /\ stolen = {} /\ silent = {}
    BY DEF F!Init
  <1>2. FileTypes
    BY <1>1 DEF FileTypes
  <1>3. /\ \A f \in F!FD : status[F!Fd(f)] = IF kfd[f] # "free" THEN "early" ELSE "none"
        /\ \A s \in Streams : status[F!Fp(s)] = "none"
        /\ \A x \in F!Things : status[x] \in {"early", "none"}
    <2>1. \A f \in F!FD : F!Fd(f) \in F!Fds /\ F!Fd(f)[2] = f
      BY DEF F!Fds, F!Fd
    <2>2. \A s \in Streams : F!Fp(s) \notin F!Fds
      BY DEF F!Fds, F!Fp
    <2> QED
      BY <1>1, <2>1, <2>2, FileNames
  <1>4. Kernel
    <2>1. kfd \in [F!FD -> F!Kinds \cup {"free", "std"}]
      BY <1>1, KindNames
    <2>2. stream \in [Streams -> F!FD \cup {F!NoFd}] /\ \A s \in Streams : stream[s] = F!NoFd
      BY <1>1
    <2>3. status \in [F!Things -> FStatuses]
      <3>1. \A x \in F!Things : status[x] \in FStatuses
        BY <1>3 DEF FStatuses
      <3>2. status = [x \in F!Things |-> status[x]]
        BY <1>1
      <3> QED
        BY <3>1, <3>2
    <2>4. \A f \in F!FD : status[F!Fd(f)] = "none" <=> kfd[f] = "free"
      BY <1>3
    <2>5. \A s \in Streams : status[F!Fp(s)] = "none" /\ stream[s] = F!NoFd
      BY <1>3, <2>2
    <2> QED
      BY <1>1, <2>1, <2>2, <2>3, <2>4, <2>5 DEF Kernel, KernelOf
  <1>5. \A S : Having(S) = {}
    BY <1>1, NoSteps DEF Having
  <1>6. FilePrograms
    <2> SUFFICES ASSUME NEW t \in Threads
                 PROVE  todo[t] \in Seq(FSteps) /\ FGood(todo[t])
      BY DEF FilePrograms
    <2>1. \A S, R : ~Has(todo[t], S) /\ NoneAfter(todo[t], S, R)
      BY <1>1, NoSteps
    <2> QED
      BY <1>1, <2>1 DEF FGood
  <1>7. Taken
    <2>1. \A x \in F!Things, t \in Threads : status[x] # t
      BY <1>3, FileNames
    <2> QED
      BY <1>5, <2>1 DEF Taken
  <1>8. ASSUME NEW x \in F!Things
        PROVE  FClash(x) /\ FBooks(x)
    <2>1. Having({OwnF(x)}) = {} /\ Having({ExtF(x)}) = {} /\ FMark(x) = 0
      BY <1>1, <1>5 DEF FMark
    <2>2. FWho(x) \in {"early", "other"}
      BY <1>3, FileNames DEF FWho
    <2>3. filter[x].left = 0 /\ filter[x].refs = 0
      BY <1>1 DEF F!NoCalls
    <2> QED
      BY <2>1, <2>2, <2>3 DEF FClash, FBooks, Clash, Books, Two
  <1>9. ASSUME NEW f \in F!FD
        PROVE  Typed(f)
    <2>1. rtfds[f] = "unknown" /\ status[F!Fd(f)] \in {"early", "none"}
      BY <1>1, <1>3
    <2>2. \A t \in Threads : status[F!Fd(f)] # t
      BY <2>1, FileNames
    <2> QED
      BY <2>1, <2>2 DEF Typed, Right
  <1> QED
    BY <1>2, <1>4, <1>6, <1>7, <1>8, <1>9 DEF FileInv

LEMMA FileKept ==
    ASSUME FileInv
    PROVE  F!NoMissedLeak /\ F!ExactReport /\ F!DescriptorTypes
  <1>1. /\ \A x \in F!Things : FBooks(x)
        /\ \A f \in F!FD : F!Tracked(f) => Typed(f)
    BY DEF FileInv
  <1>2. ASSUME NEW x \in F!Things
        PROVE  /\ Having({F!A(x)}) # {} => status[x] \in Threads
               /\ \A t \in Threads : t \notin {"none", "owned", "early", "stream"}
               /\ FMark(x) < 3 <=> x \notin stolen
               /\ FMark(x) = 0 <=> x \notin stolen /\ x \notin raced \cup silent
               /\ FMark(x) \in 0..3
    <2>1. ASSUME NEW t \in Having({F!A(x)})
          PROVE  status[x] \in Threads
      <3>1. t \in Threads
        BY DEF Having
      <3> QED
        BY <2>1, <3>1 DEF FileInv, Taken
    <2> QED
      BY <2>1, FileNames DEF FMark
  <1>3. F!NoMissedLeak
    <2> SUFFICES ASSUME NEW x \in F!Things, status[x] = "owned", x \notin stolen
                 PROVE  filter[x].left >= 1
      BY DEF F!NoMissedLeak
    <2>1. FWho(x) = "held" /\ FMark(x) < 3
      BY <1>2 DEF FWho
    <2> QED
      BY <1>1, <2>1 DEF FBooks, Books
  <1>4. F!ExactReport
    <2> SUFFICES ASSUME NEW x \in F!Things, status[x] \notin Threads, x \notin raced \cup silent
                 PROVE  filter[x].left =
                            IF \/ status[x] = "owned"
                               \/ \E t \in Threads : F!Frees(t, x, FALSE)
                            THEN 1 ELSE 0
      BY DEF F!ExactReport
    <2>1. x \notin stolen
      BY DEF FileInv, FileTypes
    <2>2. FMark(x) = 0
      BY <1>2, <2>1
    <2>3. (\E t \in Threads : F!Frees(t, x, FALSE)) <=> Having({OwnF(x)}) # {}
      <3>1. \A t \in Threads : F!Frees(t, x, FALSE) <=> t \in Having({OwnF(x)})
        BY FileFrees
      <3> QED
        BY <3>1 DEF Having
    <2>4. FWho(x) = "held" <=> status[x] = "owned"
      BY <1>2 DEF FWho
    <2>5. /\ filter[x].refs \in {0, 1} /\ filter[x].left = filter[x].refs
          /\ filter[x].refs = 1 <=> Having({OwnF(x)}) # {} \/ FWho(x) = "held"
      BY <1>1, <2>2 DEF FBooks, Books
    <2> QED
      BY <2>3, <2>4, <2>5
  <1>5. F!DescriptorTypes
    <2> SUFFICES ASSUME NEW f \in F!FD, F!Tracked(f), status[F!Fd(f)] = "owned",
                        f \notin mixed
                 PROVE  \/ rtfds[f] \in {kfd[f], "unknown"}
                        \/ f = 0 /\ rtfds[f] = "closed"
      BY DEF F!DescriptorTypes
    <2>1. Typed(f)
      BY <1>1
    <2> QED
      BY <2>1 DEF Typed, Right, Stray
  <1> QED
    BY <1>3, <1>4, <1>5

-----------------------------------------------------------------------------
\* Nothing changes.
LEMMA HeapSame ==
    ASSUME HeapInv, UNCHANGED <<enabled, status, todo, filter, raced, stolen>>
    PROVE  HeapInv'
  <1>1. HeapTypes' /\ HeapPrograms'
    BY DEF HeapInv, HeapTypes, HeapPrograms, Good, NoneAfter
  <1>2. ASSUME NEW r \in Managed, NEW a \in Addr
        PROVE  KeyClaims(r, a)' /\ KeyClash(r, a)' /\ (enabled' => KeyBooks(r, a)')
    <2>1. KeyClaims(r, a) /\ KeyClash(r, a) /\ (enabled => KeyBooks(r, a))
      BY DEF HeapInv
    <2>2. \A S : Having(S)' = Having(S)
      BY DEF Having, Has
    <2>3. Who(r, a)' = Who(r, a) /\ Mark(r, a)' = Mark(r, a)
      BY DEF Who, Mark
    <2>4. KeyClaims(r, a)'
      BY <2>1, <2>2 DEF KeyClaims
    <2> QED
      BY <2>1, <2>2, <2>3, <2>4, KeyKept
  <1> QED
    BY <1>1, <1>2 DEF HeapInv

LEMMA FileSame ==
    ASSUME FileInv,
           UNCHANGED <<kfd, stream, status, rtfds, todo, noted, filter, raced, stolen, silent, mixed>>
    PROVE  FileInv'
  <1>1. FileTypes' /\ Kernel' /\ FilePrograms'
    BY DEF FileInv, FileTypes, FilePrograms, FGood, NoneAfter, Has, Kernel, KernelOf
  <1>2. \A S : Having(S)' = Having(S)
    BY DEF Having, Has
  <1>3. Taken'
    BY <1>2 DEF FileInv, Taken
  <1>4. ASSUME NEW x \in F!Things
        PROVE  FClash(x)' /\ FBooks(x)'
    <2>1. FClash(x) /\ FBooks(x)
      BY DEF FileInv
    <2>2. FWho(x)' = FWho(x) /\ FMark(x)' = FMark(x)
      BY <1>2 DEF FWho, FMark
    <2>3. FClash(x)' <=> Clash(Having({OwnF(x)})', Having({ExtF(x)})', Having({F!A(x)})',
                               FWho(x)', FMark(x)')
      BY DEF FClash, Clash
    <2>4. FBooks(x)' <=> Books(Having({OwnF(x)})', Having({ExtF(x)})', FWho(x)', FMark(x)',
                               filter'[x])
      BY DEF FBooks, Books, Two
    <2> QED
      BY <1>2, <2>1, <2>2, <2>3, <2>4 DEF FClash, FBooks
  <1>5. ASSUME NEW f \in F!FD, F!Tracked(f)
        PROVE  Typed(f)'
    <2>1. Typed(f)
      BY <1>5 DEF FileInv
    <2>2. Having(Wrong(f, kfd[f]))' = Having(Wrong(f, kfd[f]))
      BY DEF Having, Has, Wrong
    <2> QED
      BY <1>2, <2>1, <2>2 DEF Typed, Right
  <1> QED
    BY <1>1, <1>3, <1>4, <1>5 DEF FileInv, F!Tracked

LEMMA ObjectsSame ==
    ASSUME ObjectsInv, UNCHANGED <<ref, held, todo, filter, raced>>
    PROVE  ObjectsInv'
  <1>1. \A o : Takers(o)' = Takers(o) /\ Droppers(o)' = Droppers(o)
    BY DEF Takers, Droppers
  <1>2. ASSUME NEW o \in Objects
        PROVE  Counted(o)'
    <2>1. Counted(o)
      BY DEF ObjectsInv
    <2> QED
      BY <1>1, <2>1 DEF Counted
  <1> QED
    BY <1>2 DEF ObjectsInv, Wrappers

(***************************************************************************)
(* Which invariant holds depends on the library the behaviour is of.       *)
(***************************************************************************)
ReportInv ==
    /\ part = "heap" => HeapInv
    /\ part = "files" => FileInv
    /\ part = "objects" => ObjectsInv

LEMMA ReportInvariant == MCSpec => []ReportInv
  <1>1. MCInit => ReportInv
    BY HeapInit, FileInit, ObjectsInit DEF MCInit, ReportInv
  <1>2. ReportInv /\ [MCNext]_allvars => ReportInv'
    <2> SUFFICES ASSUME ReportInv, [MCNext]_allvars
                 PROVE  ReportInv'
      OBVIOUS
    <2>1. CASE part = "heap" /\ Next /\ part' = part
      <3>1. HeapInv'
        BY <2>1, HeapStep DEF ReportInv
      <3> QED
        BY <2>1, <3>1 DEF ReportInv
    <2>2. CASE part = "files" /\ F!Next /\ part' = part
      <3>1. FileInv'
        BY <2>2, FileStep DEF ReportInv
      <3> QED
        BY <2>2, <3>1 DEF ReportInv
    <2>3. CASE part = "objects" /\ G!Next /\ part' = part
      <3>1. ObjectsInv'
        BY <2>3, ObjectsStep DEF ReportInv
      <3> QED
        BY <2>3, <3>1 DEF ReportInv
    <2>4. CASE part = "calls" /\ part' = part
      BY <2>4 DEF ReportInv
    <2>5. CASE UNCHANGED allvars
      <3>1. /\ part' = part
            /\ UNCHANGED <<enabled, status, todo, filter, raced, stolen>>
            /\ UNCHANGED <<kfd, stream, rtfds, noted, silent, mixed>>
            /\ UNCHANGED <<ref, held>>
        BY <2>5 DEF allvars, vars, fvars, gvars
      <3>2. HeapInv => HeapInv'
        BY <3>1, HeapSame
      <3>3. FileInv => FileInv'
        BY <3>1, FileSame
      <3>4. ObjectsInv => ObjectsInv'
        BY <3>1, ObjectsSame
      <3> QED
        BY <3>1, <3>2, <3>3, <3>4 DEF ReportInv
    <2> QED
      BY <2>1, <2>2, <2>3, <2>4, <2>5 DEF MCNext
  <1> QED
    BY <1>1, <1>2, PTL DEF MCSpec

(***************************************************************************)
(* For any threads, addresses, descriptors, streams and objects: a block,  *)
(* a QObject, a descriptor, a stream or a reference to a GObject that the  *)
(* program holds has an entry in the leak report of the post-processor,    *)
(* though a wrapper reports to the trace after it has called the original  *)
(* function and nothing orders the reports of two threads.                 *)
(***************************************************************************)
THEOREM NoLeakMissed == MCSpec => []HeldIsReported
  <1>1. ReportInv => HeldIsReported
    BY HeapKept, FileKept, ObjectsKept DEF ReportInv, HeldIsReported
  <1> QED
    BY <1>1, ReportInvariant, PTL

(***************************************************************************)
(* And where no address or descriptor was given out again under a release  *)
(* that was not reported yet, the leak report has nothing else: one entry  *)
(* for what the program holds or is reporting the release of, and for a    *)
(* GObject as many references as it has.                                   *)
(***************************************************************************)
THEOREM NoFalseLeak == MCSpec => []ReportIsExact
  <1>1. ReportInv => ReportIsExact
    BY HeapKept, FileKept, ObjectsKept DEF ReportInv, ReportIsExact
  <1> QED
    BY <1>1, ReportInvariant, PTL

(***************************************************************************)
(* For any threads, descriptors and streams: though the wrappers read and  *)
(* write rt_fds without a lock, a descriptor above 0 that the program      *)
(* opened has there its type, or FD_TYPE_UNKNOWN.  The theorem excepts the *)
(* duplicates for which trace_dup_common read an entry that was not their  *)
(* source's type: the source was closed or opened again before the read,   *)
(* is under a stream, is such a duplicate itself, or is descriptor 0 after *)
(* a close, which marks entry 0 as closed whatever descriptor it closes.   *)
(* Descriptor 0 has its type, FD_TYPE_UNKNOWN or that mark.                *)
(***************************************************************************)
THEOREM TypesAreRight == MCSpec => []DescriptorTypes
  <1>1. ReportInv => DescriptorTypes
    BY FileKept DEF ReportInv, DescriptorTypes
  <1> QED
    BY <1>1, ReportInvariant, PTL

(***************************************************************************)
(* The functions that the libraries define with BT_EXECUTE_LOCKED.         *)
(***************************************************************************)
Guarded == {"malloc", "calloc", "realloc", "free", "open", "open64", "close"}
LibNames == {"memory", "file", "shmposix", "shmsysv", "memtransfer", "gobject", "qobject"}
Callable == Program \cup Guarded \cup {"D2", "g_type_free_instance"}

LEMMA Names ==
    /\ DOMAIN I!Locked = LibNames
    /\ DOMAIN I!Direct = LibNames
  BY DEF I!Locked, I!Direct, LibNames

LEMMA LockedAre ==
    /\ I!Locked["memory"] = {"malloc", "calloc", "realloc", "free"}
    /\ I!Locked["file"] = {"open", "open64", "close"}
    /\ I!Locked["shmposix"] = {"open", "open64", "close"}
    /\ \A lib \in LibNames \ {"memory", "file", "shmposix"} : I!Locked[lib] = {}
    /\ \A lib \in LibNames : I!Locked[lib] \subseteq Guarded
  BY DEF I!Locked, LibNames, Guarded, I!MemoryLocked, I!FileLocked, I!ShmPosixLocked

LEMMA GuardedIsLocked ==
    ASSUME NEW lib \in LibNames, NEW f \in Guarded, I!Traces(lib, f)
    PROVE  f \in I!Locked[lib]
  <1>1. f \notin I!Direct["memory"]
    BY DEF I!Direct, Guarded, I!MemoryDirect
  <1>2. f \notin I!Direct["file"]
    BY DEF I!Direct, Guarded, I!FileOpens, I!FileDuplicates, I!FileSockets, I!FileSpecial,
           I!FileStreams
  <1>3. f \notin I!Direct["shmposix"]
    BY DEF I!Direct, Guarded, I!ShmPosixDirect
  <1>4. f \notin I!Direct["shmsysv"]
    BY DEF I!Direct, Guarded, I!ShmSysVDirect
  <1>5. f \notin I!Direct["memtransfer"]
    BY DEF I!Direct, Guarded, I!TransferBytes, I!TransferWide
  <1>6. f \notin I!Direct["gobject"]
    BY DEF I!Direct, Guarded, I!GObjectDirect
  <1>7. f \notin I!Direct["qobject"]
    BY DEF I!Direct, Guarded, I!QObjectDirect
  <1> QED
    BY <1>1, <1>2, <1>3, <1>4, <1>5, <1>6, <1>7 DEF I!Traces, LibNames

LEMMA CallsAre ==
    /\ \A f : I!Calls(f) \subseteq Callable
    /\ \A f \in Guarded : I!Calls(f) = {}
  BY DEF I!Calls, Callable, Guarded

LEMMA Assumed ==
    /\ Preload \in Seq(LibNames)
    /\ BacktraceCalls \subseteq Guarded
    /\ I!Libc \in Nat \ {0}
    /\ I!Libc - 1 = Len(Preload)
    /\ \A i \in 1..I!Libc : i # I!Libc => Preload[i] \in I!Libs /\ Preload[i] \in LibNames
  <1>1. Preload \in Seq(LibNames)
    BY CallsAssumption, Names
  <1>2. BacktraceCalls \subseteq Guarded
    <2> SUFFICES ASSUME NEW f \in BacktraceCalls
                 PROVE  f \in Guarded
      OBVIOUS
    <2>1. PICK lib \in LibNames : f \in I!Locked[lib]
      BY CallsAssumption, Names
    <2> QED
      BY <2>1, LockedAre
  <1>3. Len(Preload) \in Nat /\ DOMAIN Preload = 1..Len(Preload)
    BY <1>1
  <1>4. /\ I!Libc \in Nat \ {0}
        /\ I!Libc - 1 = Len(Preload)
    BY <1>3 DEF I!Libc
  <1>5. ASSUME NEW i \in 1..I!Libc, i # I!Libc
        PROVE  Preload[i] \in I!Libs /\ Preload[i] \in LibNames
    <2>1. i \in DOMAIN Preload
      BY <1>3, <1>4, <1>5
    <2> QED
      BY <1>1, <2>1 DEF I!Libs
  <1> QED
    BY <1>1, <1>2, <1>4, <1>5

-----------------------------------------------------------------------------
(***************************************************************************)
(* A call on the stack.  What backtrace() calls is a guarded function and  *)
(* no wrapper has chosen to trace it; a call that is written, or whose     *)
(* backtrace is being taken, was traced; tracing starts with the main      *)
(* module.                                                                 *)
(***************************************************************************)
Places == {"target", "original", "returned", "write", "backtrace"}

CallFrames ==
    [f : Callable, at : 1..I!Libc, inner : BOOLEAN, traced : BOOLEAN, made : 0..MaxInner,
     pc : Places]

CallOK(c, started) ==
    /\ c \in CallFrames
    /\ c.at # I!Libc => I!Traces(Preload[c.at], c.f)
    /\ c.pc # "original" => c.at # I!Libc
    /\ c.inner => c.f \in Guarded /\ ~c.traced
    /\ c.pc \in {"write", "backtrace"} => c.traced
    /\ c.traced => started

(***************************************************************************)
(* The stack when the lock has the value locked: it is set exactly while a *)
(* backtrace is taken, everything above that call is backtrace()'s, and    *)
(* nothing else is.                                                        *)
(***************************************************************************)
Shape(s, locked, started) ==
    /\ s \in Seq(CallFrames)
    /\ \A i \in 1..Len(s) : CallOK(s[i], started)
    /\ locked => \E i \in 1..Len(s) : s[i].pc = "backtrace"
    /\ ~locked => \A i \in 1..Len(s) : s[i].pc # "backtrace" /\ ~s[i].inner
    /\ \A i, j \in 1..Len(s) :
            s[i].pc = "backtrace" => /\ j > i => s[j].inner
                                     /\ j <= i => ~s[j].inner

LEMMA ShapeEmpty ==
    ASSUME NEW m \in BOOLEAN
    PROVE  Shape(<<>>, FALSE, m)
  BY DEF Shape

LEMMA ShapeStarted ==
    ASSUME NEW s, NEW l \in BOOLEAN, NEW m \in BOOLEAN, Shape(s, l, m)
    PROVE  Shape(s, l, TRUE)
  BY DEF Shape, CallOK

LEMMA TopIs ==
    ASSUME NEW s, NEW l \in BOOLEAN, NEW m \in BOOLEAN, Shape(s, l, m), s # <<>>
    PROVE  /\ Len(s) \in 1..Len(s)
           /\ CallOK(s[Len(s)], m)
           /\ s[Len(s)].pc # "backtrace" => (s[Len(s)].inner <=> l)
           /\ s[Len(s)].pc = "backtrace" => l /\ ~s[Len(s)].inner
  <1>1. s \in Seq(CallFrames) /\ Len(s) \in Nat \ {0} /\ Len(s) \in 1..Len(s)
    BY DEF Shape
  <1> DEFINE n == Len(s)
  <1>2. CallOK(s[n], m)
    BY <1>1 DEF Shape
  <1>3. s[n].pc = "backtrace" => l /\ ~s[n].inner
    BY <1>1 DEF Shape
  <1>4. ASSUME s[n].pc # "backtrace", l
        PROVE  s[n].inner
    <2>1. PICK i \in 1..n : s[i].pc = "backtrace"
      BY <1>4 DEF Shape
    <2>2. n > i
      BY <1>1, <1>4, <2>1
    <2> QED
      BY <1>1, <2>1, <2>2 DEF Shape
  <1>5. ~l => ~s[n].inner
    BY <1>1 DEF Shape
  <1> QED
    BY <1>1, <1>2, <1>3, <1>4, <1>5

(***************************************************************************)
(* Returning from a call: one of the libraries, or the backtrace itself.   *)
(***************************************************************************)
LEMMA RestOf ==
    ASSUME NEW s \in Seq(CallFrames), s # <<>>
    PROVE  LET r == SubSeq(s, 1, Len(s) - 1)
           IN  /\ r \in Seq(CallFrames)
               /\ Len(r) = Len(s) - 1
               /\ \A i \in 1..Len(r) : r[i] = s[i] /\ i \in 1..Len(s)
  <1> DEFINE n == Len(s)
             r == SubSeq(s, 1, n - 1)
  <1>1. n \in Nat \ {0} /\ n - 1 \in Nat /\ n - 1 < n
    OBVIOUS
  <1>2. \A i \in 1..(n - 1) : i \in 1..n
    BY <1>1
  <1>3. \A i \in 1..(n - 1) : s[i] \in CallFrames
    BY <1>2
  <1> HIDE DEF n
  <1>4. /\ r \in Seq(CallFrames)
        /\ Len(r) = IF 1 <= n - 1 THEN n - 1 - 1 + 1 ELSE 0
        /\ \A i \in 1..(n - 1 - 1 + 1) : r[i] = s[1 + i - 1]
    BY <1>1, <1>3, SubSeqProperties
  <1> HIDE DEF r
  <1>5. Len(r) = n - 1
    BY <1>1, <1>4
  <1>6. \A i \in 1..(n - 1) : r[i] = s[i]
    BY <1>1, <1>4
  <1>7. /\ r \in Seq(CallFrames)
        /\ Len(r) = n - 1
        /\ \A i \in 1..Len(r) : r[i] = s[i] /\ i \in 1..n
    BY <1>2, <1>4, <1>5, <1>6
  <1> QED
    BY <1>7 DEF n, r

LEMMA ShapePop ==
    ASSUME NEW s, NEW l \in BOOLEAN, NEW m \in BOOLEAN, Shape(s, l, m), s # <<>>,
           s[Len(s)].pc # "backtrace"
    PROVE  Shape(SubSeq(s, 1, Len(s) - 1), l, m)
  <1> DEFINE r == SubSeq(s, 1, Len(s) - 1)
  <1>1. s \in Seq(CallFrames) /\ Len(s) \in Nat \ {0}
    BY DEF Shape
  <1>2. /\ r \in Seq(CallFrames)
        /\ Len(r) = Len(s) - 1
        /\ \A i \in 1..Len(r) : r[i] = s[i] /\ i \in 1..Len(s)
    BY <1>1, RestOf
  <1>3. ASSUME l
        PROVE  \E i \in 1..Len(r) : r[i].pc = "backtrace"
    <2>1. PICK i \in 1..Len(s) : s[i].pc = "backtrace"
      BY <1>3 DEF Shape
    <2>2. i \in 1..Len(r)
      BY <1>1, <1>2, <2>1
    <2> QED
      BY <1>2, <2>1, <2>2
  <1> HIDE DEF r
  <1>4. Shape(r, l, m)
    BY <1>2, <1>3 DEF Shape
  <1> QED
    BY <1>4 DEF r

LEMMA ShapePopBacktrace ==
    ASSUME NEW s, NEW l \in BOOLEAN, NEW m \in BOOLEAN, Shape(s, l, m), s # <<>>,
           s[Len(s)].pc = "backtrace"
    PROVE  Shape(SubSeq(s, 1, Len(s) - 1), FALSE, m)
  <1> DEFINE r == SubSeq(s, 1, Len(s) - 1)
             n == Len(s)
  <1>1. s \in Seq(CallFrames) /\ n \in Nat \ {0} /\ n \in 1..n
    BY DEF Shape
  <1>2. /\ r \in Seq(CallFrames)
        /\ Len(r) = n - 1
        /\ \A i \in 1..Len(r) : r[i] = s[i] /\ i \in 1..n
    BY <1>1, RestOf
  <1>3. ASSUME NEW i \in 1..Len(r)
        PROVE  r[i].pc # "backtrace" /\ ~r[i].inner
    <2>1. i < n /\ i \in 1..n /\ r[i] = s[i]
      BY <1>1, <1>2
    <2>2. ~s[i].inner /\ ~s[n].inner
      BY <1>1, <2>1 DEF Shape
    <2>3. s[i].pc # "backtrace"
      BY <1>1, <2>1, <2>2 DEF Shape
    <2> QED
      BY <2>1, <2>2, <2>3
  <1> HIDE DEF r
  <1>4. \A i \in 1..Len(r) : CallOK(r[i], m)
    BY <1>2 DEF Shape
  <1>5. Shape(r, FALSE, m)
    BY <1>2, <1>3, <1>4 DEF Shape
  <1> QED
    BY <1>5 DEF r

(***************************************************************************)
(* A new call, made by backtrace() exactly if the lock is set, and a       *)
(* backtrace that begins.                                                  *)
(***************************************************************************)
LEMMA AppendOf ==
    ASSUME NEW s \in Seq(CallFrames), NEW c \in CallFrames
    PROVE  /\ Append(s, c) \in Seq(CallFrames)
           /\ Len(Append(s, c)) = Len(s) + 1
           /\ Len(s) + 1 \in 1..(Len(s) + 1)
           /\ \A i \in 1..(Len(s) + 1) :
                \/ i \in 1..Len(s) /\ Append(s, c)[i] = s[i] /\ i < Len(s) + 1
                \/ i = Len(s) + 1 /\ Append(s, c)[i] = c
           /\ \A i \in 1..Len(s) : i \in 1..(Len(s) + 1)
  OBVIOUS

LEMMA ShapePush ==
    ASSUME NEW s, NEW l \in BOOLEAN, NEW m \in BOOLEAN, Shape(s, l, m),
           NEW c, CallOK(c, m), c.pc # "backtrace", c.inner <=> l
    PROVE  Shape(Append(s, c), l, m)
  <1> DEFINE r == Append(s, c)
             n == Len(s) + 1
  <1>1. s \in Seq(CallFrames) /\ Len(s) \in Nat /\ c \in CallFrames
    BY DEF Shape, CallOK
  <1>2. /\ r \in Seq(CallFrames)
        /\ Len(r) = n
        /\ n \in 1..n
        /\ \A i \in 1..n : \/ i \in 1..Len(s) /\ r[i] = s[i] /\ i < n
                           \/ i = n /\ r[i] = c
        /\ \A i \in 1..Len(s) : i \in 1..n
    BY <1>1, AppendOf
  <1>3. n \in Nat
    BY <1>1
  <1> HIDE DEF r, n
  <1>4. \A i \in 1..n : CallOK(r[i], m)
    BY <1>2 DEF Shape
  <1>5. ASSUME l PROVE \E i \in 1..n : r[i].pc = "backtrace"
    <2>1. PICK i \in 1..Len(s) : s[i].pc = "backtrace"
      BY <1>5 DEF Shape
    <2>2. i \in 1..n /\ i < n /\ r[i] = s[i]
      BY <1>1, <1>2, <1>3, <2>1 DEF n
    <2> QED
      BY <2>1, <2>2
  <1>6. ~l => \A i \in 1..n : r[i].pc # "backtrace" /\ ~r[i].inner
    BY <1>2 DEF Shape
  <1>7. ASSUME NEW i \in 1..n, NEW j \in 1..n, r[i].pc = "backtrace"
        PROVE  (j > i => r[j].inner) /\ (j <= i => ~r[j].inner)
    <2>1. i \in 1..Len(s) /\ r[i] = s[i] /\ i < n
      BY <1>2, <1>7
    <2>2. l
      BY <2>1, <1>7 DEF Shape
    <2>3. CASE j \in 1..Len(s) /\ r[j] = s[j]
      BY <2>1, <2>3, <1>7 DEF Shape
    <2>4. CASE j = n /\ r[j] = c
      BY <2>1, <2>2, <2>4, <1>3
    <2> QED
      BY <1>2, <2>3, <2>4
  <1>8. Shape(r, l, m)
    BY <1>2, <1>4, <1>5, <1>6, <1>7 DEF Shape
  <1> QED
    BY <1>8 DEF r

LEMMA ShapePushBacktrace ==
    ASSUME NEW s, NEW m \in BOOLEAN, Shape(s, FALSE, m),
           NEW c, CallOK(c, m), c.pc = "backtrace", ~c.inner
    PROVE  Shape(Append(s, c), TRUE, m)
  <1> DEFINE r == Append(s, c)
             n == Len(s) + 1
  <1>1. s \in Seq(CallFrames) /\ Len(s) \in Nat /\ c \in CallFrames
    BY DEF Shape, CallOK
  <1>2. /\ r \in Seq(CallFrames)
        /\ Len(r) = n
        /\ n \in 1..n
        /\ \A i \in 1..n : \/ i \in 1..Len(s) /\ r[i] = s[i] /\ i < n
                           \/ i = n /\ r[i] = c
    BY <1>1, AppendOf
  <1>3. n \in Nat
    BY <1>1
  <1> HIDE DEF r, n
  <1>4. \A i \in 1..n : CallOK(r[i], m)
    BY <1>2 DEF Shape
  <1>5. \A i \in 1..n : ~r[i].inner /\ (r[i].pc = "backtrace" => i = n)
    BY <1>2 DEF Shape
  <1>6. r[n].pc = "backtrace"
    BY <1>2
  <1>7. ASSUME NEW i \in 1..n, NEW j \in 1..n, r[i].pc = "backtrace"
        PROVE  (j > i => r[j].inner) /\ (j <= i => ~r[j].inner)
    <2>1. i = n /\ ~(j > i)
      BY <1>3, <1>5, <1>7
    <2> QED
      BY <2>1, <1>5
  <1>8. Shape(r, TRUE, m)
    BY <1>2, <1>4, <1>6, <1>7 DEF Shape
  <1> QED
    BY <1>8 DEF r

-----------------------------------------------------------------------------
LEMMA AfterIs ==
    ASSUME NEW i \in Nat, NEW f
    PROVE  /\ I!After(i, f) \in 1..I!Libc
           /\ I!After(i, f) # I!Libc => I!Traces(Preload[I!After(i, f)], f)
  <1> DEFINE later == {k \in DOMAIN Preload : k > i /\ I!Traces(Preload[k], f)}
             least == CHOOSE k \in later : \A l \in later : k <= l
  <1>1. DOMAIN Preload = 1..Len(Preload) /\ Len(Preload) \in Nat
    BY Assumed
  <1>2. later \in SUBSET Nat
    BY <1>1
  <1>3. ASSUME later # {}
        PROVE  least \in later
    <2> HIDE DEF later
    <2>1. \E k \in later : \A l \in later : k <= l
      BY <1>2, <1>3, LeastElement
    <2> QED
      BY <2>1
  <1>4. I!After(i, f) = IF later = {} THEN I!Libc ELSE least
    BY DEF I!After
  <1>5. \A k \in later : k \in 1..I!Libc /\ I!Traces(Preload[k], f)
    BY <1>1 DEF I!Libc
  <1>6. I!Libc \in 1..I!Libc
    BY Assumed
  <1> HIDE DEF later, least
  <1> QED
    BY <1>3, <1>4, <1>5, <1>6

LEMMA NewFrame ==
    ASSUME NEW i \in Nat, NEW f \in Callable, NEW inner \in BOOLEAN, NEW m \in BOOLEAN,
           inner => f \in Guarded
    PROVE  LET c == I!Frame(f, I!After(i, f), inner)
           IN  CallOK(c, m) /\ c.pc # "backtrace" /\ c.inner = inner
  <1> DEFINE at == I!After(i, f)
             c == I!Frame(f, at, inner)
  <1>1. at \in 1..I!Libc /\ (at # I!Libc => I!Traces(Preload[at], f))
    BY AfterIs
  <1> HIDE DEF at
  <1>2. /\ c.f = f /\ c.at = at /\ c.inner = inner /\ c.traced = FALSE
        /\ c.pc = IF at = I!Libc THEN "original" ELSE "target"
    BY DEF I!Frame
  <1>3. 0 \in 0..MaxInner
    BY CallsAssumption
  <1>4. c \in CallFrames
    BY <1>1, <1>3 DEF I!Frame, CallFrames, Places
  <1> HIDE DEF c
  <1>5. CallOK(c, m)
    BY <1>1, <1>2, <1>4 DEF CallOK
  <1> QED
    BY <1>2, <1>5 DEF c, at

(***************************************************************************)
(* The innermost call changes, without a backtrace beginning or ending.    *)
(***************************************************************************)
LEMMA ShapeReplace ==
    ASSUME NEW s, NEW l \in BOOLEAN, NEW m \in BOOLEAN, Shape(s, l, m), s # <<>>,
           s[Len(s)].pc # "backtrace",
           NEW c, CallOK(c, m), c.pc # "backtrace", c.inner <=> s[Len(s)].inner
    PROVE  Shape(Append(SubSeq(s, 1, Len(s) - 1), c), l, m)
  <1>1. Shape(SubSeq(s, 1, Len(s) - 1), l, m)
    BY ShapePop
  <1>2. s[Len(s)].inner <=> l
    BY TopIs
  <1>3. c.inner <=> l
    BY <1>2
  <1> QED
    BY <1>1, <1>3, ShapePush

-----------------------------------------------------------------------------
(***************************************************************************)
(* The inductive invariant.  Beyond the stack it says when tracing can be  *)
(* on: not before the main module has started, and by then every library   *)
(* that traces open or close has found its original functions.             *)
(***************************************************************************)
CallsInv ==
    /\ loaded \subseteq I!Libs
    /\ table \in [I!Libs -> {"init", "off", "on"}]
    /\ main \in BOOLEAN /\ enable \in BOOLEAN /\ lock \in BOOLEAN
    /\ exited = FALSE /\ crashed = FALSE
    /\ \A c \in trace : ~c.inner
    /\ Shape(stack, lock, main)
    /\ main => I!Touched \subseteq loaded
    /\ ~main => \A lib \in I!Libs : table[lib] # "on"

LEMMA CallsInit == I!Init => CallsInv
  BY ShapeEmpty DEF I!Init, CallsInv

(***************************************************************************)
(* What the actions on the innermost call find.                            *)
(***************************************************************************)
LEMMA Innermost ==
    ASSUME CallsInv, NEW pc, I!At(pc)
    PROVE  /\ stack # <<>>
           /\ I!Top = stack[Len(stack)]
           /\ I!Rest = SubSeq(stack, 1, Len(stack) - 1)
           /\ I!Top.pc = pc
           /\ CallOK(I!Top, main)
           /\ pc # "backtrace" => (I!Top.inner <=> lock)
           /\ pc = "backtrace" => lock /\ ~I!Top.inner
           /\ pc # "original" => I!Lib \in I!Libs /\ I!Lib \in LibNames
           /\ pc # "original" => I!Traces(I!Lib, I!Top.f)
  <1>1. /\ stack # <<>>
        /\ I!Top = stack[Len(stack)]
        /\ I!Rest = SubSeq(stack, 1, Len(stack) - 1)
        /\ I!Top.pc = pc
    BY DEF I!At, I!Top, I!Rest
  <1>2. /\ CallOK(I!Top, main)
        /\ pc # "backtrace" => (I!Top.inner <=> lock)
        /\ pc = "backtrace" => lock /\ ~I!Top.inner
    BY <1>1, TopIs DEF CallsInv
  <1>3. ASSUME pc # "original"
        PROVE  I!Lib \in I!Libs /\ I!Lib \in LibNames /\ I!Traces(I!Lib, I!Top.f)
    <2>1. I!Top.at \in 1..I!Libc /\ I!Top.at # I!Libc /\ I!Traces(Preload[I!Top.at], I!Top.f)
      BY <1>1, <1>2, <1>3 DEF CallOK, CallFrames
    <2> QED
      BY <2>1, Assumed DEF I!Lib
  <1> QED
    BY <1>1, <1>2, <1>3

-----------------------------------------------------------------------------
(***************************************************************************)
(* One lemma for every action.                                             *)
(***************************************************************************)
LEMMA ProgramCallsStep ==
    ASSUME CallsInv, NEW f \in Program, I!ProgramCalls(f)
    PROVE  CallsInv'
  <1> DEFINE c == I!Frame(f, I!After(0, f), FALSE)
  <1>1. lock = FALSE /\ stack = <<>> /\ main \in BOOLEAN
    BY DEF CallsInv, I!ProgramCalls, Shape
  <1>2. CallOK(c, main) /\ c.pc # "backtrace" /\ c.inner = FALSE
    BY <1>1, NewFrame DEF Callable
  <1>3. stack' = Append(<<>>, c)
    BY DEF I!ProgramCalls
  <1> HIDE DEF c
  <1>4. Shape(Append(<<>>, c), lock, main)
    BY <1>1, <1>2, ShapePush DEF CallsInv
  <1> QED
    BY <1>3, <1>4 DEF CallsInv, I!ProgramCalls, I!Touched

LEMMA PassLockedStep ==
    ASSUME CallsInv, I!PassLocked
    PROVE  CallsInv'
  <1> DEFINE c == [I!Top EXCEPT !.pc = "original", !.f = I!Original]
  <1>1. /\ stack # <<>> /\ I!Top = stack[Len(stack)] /\ I!Rest = SubSeq(stack, 1, Len(stack) - 1)
        /\ I!Top.pc = "target" /\ CallOK(I!Top, main)
        /\ I!Lib \in I!Libs /\ I!Lib \in LibNames /\ I!Traces(I!Lib, I!Top.f)
    BY Innermost DEF I!PassLocked
  <1>2. I!Top.f \in I!Locked[I!Lib] /\ lock
    BY DEF I!PassLocked, I!Passes
  <1>3. /\ I!Original \in Guarded
        /\ I!Traces(I!Lib, I!Original)
    BY <1>1, <1>2, LockedAre DEF I!Original, I!Traces, Guarded
  <1>4. CallOK(c, main) /\ c.pc # "backtrace" /\ c.inner = I!Top.inner
    <2>1. c \in CallFrames
      BY <1>1, <1>3 DEF CallOK, CallFrames, Places, Callable
    <2>2. /\ c.pc = "original" /\ c.f = I!Original /\ c.inner = I!Top.inner
          /\ c.at = I!Top.at /\ c.traced = I!Top.traced
      BY <1>1 DEF CallOK, CallFrames
    <2> QED
      BY <1>1, <1>3, <2>1, <2>2 DEF CallOK, I!Lib
  <1>5. stack' = Append(I!Rest, c)
    BY DEF I!PassLocked
  <1> HIDE DEF c
  <1>6. Shape(Append(I!Rest, c), lock, main)
    BY <1>1, <1>4, ShapeReplace DEF CallsInv
  (* A lock that is set shows that tracing has been on.                    *)
  <1>7. main = TRUE
    <2>1. PICK i \in 1..Len(stack) : stack[i].pc = "backtrace" /\ CallOK(stack[i], main)
      BY <1>2 DEF CallsInv, Shape
    <2> QED
      BY <2>1 DEF CallOK, CallsInv
  <1>8. I!Lib # "memory" => I!Lib \in loaded
    <2>1. I!Lib # "memory" => "open" \in I!Locked[I!Lib]
      BY <1>1, <1>2, LockedAre
    <2>2. I!Lib # "memory" => I!Lib \in I!Touched
      BY <1>1, <2>1 DEF I!Touched, I!Traces
    <2> QED
      BY <1>7, <2>2 DEF CallsInv
  <1>9. crashed' = FALSE
    BY <1>8 DEF I!PassLocked
  <1> QED
    BY <1>5, <1>6, <1>9 DEF CallsInv, I!PassLocked, I!Touched

(***************************************************************************)
(* A call of backtrace() passes every library.                             *)
(***************************************************************************)
LEMMA NotOfBacktrace ==
    ASSUME CallsInv, I!At("target"), ~I!Passes
    PROVE  ~I!Top.inner
  <1>1. /\ CallOK(I!Top, main) /\ (I!Top.inner <=> lock)
        /\ I!Lib \in LibNames /\ I!Traces(I!Lib, I!Top.f)
    BY Innermost
  <1>2. I!Top.inner => I!Top.f \in I!Locked[I!Lib]
    BY <1>1, GuardedIsLocked DEF CallOK
  <1> QED
    BY <1>1, <1>2 DEF I!Passes

LEMMA TracedCallOK ==
    ASSUME NEW c, NEW m \in BOOLEAN, NEW v \in BOOLEAN, CallOK(c, m), ~c.inner, v => m
    PROVE  LET d == [c EXCEPT !.pc = "original", !.traced = v]
           IN  CallOK(d, m) /\ d.pc # "backtrace" /\ d.inner = c.inner
  <1> DEFINE d == [c EXCEPT !.pc = "original", !.traced = v]
  <1>1. d \in CallFrames
    BY DEF CallOK, CallFrames, Places
  <1>2. d.pc = "original" /\ d.f = c.f /\ d.inner = c.inner /\ d.at = c.at /\ d.traced = v
    BY DEF CallOK, CallFrames
  <1> HIDE DEF d
  <1> QED
    BY <1>1, <1>2 DEF CallOK, d

LEMMA UseTableStep ==
    ASSUME CallsInv, I!UseTable
    PROVE  CallsInv'
  <1> DEFINE v == (table[I!Lib] = "on")
             c == [I!Top EXCEPT !.pc = "original", !.traced = v]
  <1>1. /\ stack # <<>> /\ I!Top = stack[Len(stack)] /\ I!Rest = SubSeq(stack, 1, Len(stack) - 1)
        /\ I!Top.pc = "target" /\ CallOK(I!Top, main) /\ I!Lib \in I!Libs
    BY Innermost DEF I!UseTable
  <1>2. ~I!Top.inner
    BY NotOfBacktrace DEF I!UseTable
  <1>3. v \in BOOLEAN /\ (v => main)
    BY <1>1 DEF CallsInv
  <1>4. stack' = Append(I!Rest, c)
    BY DEF I!UseTable
  <1>5. main \in BOOLEAN /\ lock \in BOOLEAN
    BY DEF CallsInv
  <1> HIDE DEF v
  <1>6. CallOK(c, main) /\ c.pc # "backtrace" /\ c.inner = I!Top.inner
    BY <1>1, <1>2, <1>3, <1>5, TracedCallOK
  <1> HIDE DEF c
  <1>7. Shape(Append(I!Rest, c), lock, main)
    BY <1>1, <1>6, ShapeReplace DEF CallsInv
  <1> QED
    BY <1>4, <1>7 DEF CallsInv, I!UseTable, I!Touched

LEMMA InitializeStep ==
    ASSUME CallsInv, I!At("target"), ~I!Passes, NEW with \in SUBSET I!Libs, NEW v \in BOOLEAN,
           main \/ I!Touched \subseteq with, I!Initialize(with, v),
           UNCHANGED <<lock, calls, trace, exited, crashed>>
    PROVE  CallsInv'
  <1> DEFINE c == [I!Top EXCEPT !.pc = "original", !.traced = v]
  <1>1. /\ stack # <<>> /\ I!Top = stack[Len(stack)] /\ I!Rest = SubSeq(stack, 1, Len(stack) - 1)
        /\ I!Top.pc = "target" /\ CallOK(I!Top, main) /\ I!Lib \in I!Libs
    BY Innermost
  <1>2. ~I!Top.inner
    BY NotOfBacktrace
  <1>3. lock \in BOOLEAN /\ main \in BOOLEAN /\ CallOK(I!Top, TRUE) /\ Shape(stack, lock, TRUE)
    BY <1>1, ShapeStarted DEF CallsInv, CallOK
  <1>4. stack' = Append(I!Rest, c)
    BY DEF I!Initialize
  <1>5. CallOK(c, TRUE) /\ c.pc # "backtrace" /\ c.inner = I!Top.inner
    BY <1>2, <1>3, TracedCallOK
  <1> HIDE DEF c
  <1>6. Shape(Append(I!Rest, c), lock, TRUE)
    BY <1>1, <1>3, <1>5, ShapeReplace
  <1>7. loaded' \subseteq I!Libs /\ I!Touched \subseteq loaded' /\ main' = TRUE /\ enable' = v
    BY DEF CallsInv, I!Initialize
  <1>8. table' \in [I!Libs -> {"init", "off", "on"}]
    BY DEF CallsInv, I!Initialize
  <1> QED
    BY <1>4, <1>6, <1>7, <1>8 DEF CallsInv, I!Touched

LEMMA InitStubStep ==
    ASSUME CallsInv, I!InitStub
    PROVE  CallsInv'
  <1>1. /\ stack # <<>> /\ I!Top = stack[Len(stack)] /\ I!Rest = SubSeq(stack, 1, Len(stack) - 1)
        /\ I!Top.pc = "target" /\ CallOK(I!Top, main) /\ I!Lib \in I!Libs
        /\ I!At("target") /\ ~I!Passes
    BY Innermost DEF I!InitStub
  <1>2. UNCHANGED <<lock, calls, trace, exited, crashed>>
    BY DEF I!InitStub
  <1>3. ASSUME main, I!Initialize({I!Lib}, enable)
        PROVE  CallsInv'
    BY <1>1, <1>2, <1>3, InitializeStep DEF CallsInv
  <1>4. ASSUME NEW v \in BOOLEAN, I!Initialize({I!Lib} \cup I!Touched, v)
        PROVE  CallsInv'
    <2>1. {I!Lib} \cup I!Touched \in SUBSET I!Libs /\ I!Touched \subseteq {I!Lib} \cup I!Touched
      BY <1>1 DEF I!Touched
    <2> QED
      BY <1>1, <1>2, <1>4, <2>1, InitializeStep
  <1>5. ASSUME ~main, loaded' = loaded \cup {I!Lib},
               stack' = Append(I!Rest, [I!Top EXCEPT !.pc = "original"]),
               UNCHANGED <<table, main, enable>>
        PROVE  CallsInv'
    <2> DEFINE c == [I!Top EXCEPT !.pc = "original"]
    <2>1. c \in CallFrames
      BY <1>1 DEF CallOK, CallFrames, Places
    <2>2. /\ c.pc = "original" /\ c.f = I!Top.f /\ c.inner = I!Top.inner /\ c.at = I!Top.at
          /\ c.traced = I!Top.traced
      BY <1>1 DEF CallOK, CallFrames
    <2>3. stack' = Append(I!Rest, c)
      BY <1>5
    <2> HIDE DEF c
    <2>4. CallOK(c, main)
      BY <1>1, <2>1, <2>2 DEF CallOK
    <2>5. Shape(Append(I!Rest, c), lock, main)
      BY <1>1, <2>2, <2>4, ShapeReplace DEF CallsInv
    <2> QED
      BY <1>1, <1>2, <1>5, <2>3, <2>5 DEF CallsInv, I!Touched
  <1> QED
    BY <1>3, <1>4, <1>5 DEF I!InitStub

(***************************************************************************)
(* A call that makes another one: the frame that stays and the new one.    *)
(***************************************************************************)
LEMMA ShapeCall ==
    ASSUME NEW s, NEW l \in BOOLEAN, NEW m \in BOOLEAN, Shape(s, l, m), s # <<>>,
           s[Len(s)].pc # "backtrace",
           NEW c, CallOK(c, m), c.pc # "backtrace", c.inner <=> s[Len(s)].inner,
           NEW d, CallOK(d, m), d.pc # "backtrace", d.inner <=> s[Len(s)].inner
    PROVE  Shape(Append(Append(SubSeq(s, 1, Len(s) - 1), c), d), l, m)
  <1>1. Shape(Append(SubSeq(s, 1, Len(s) - 1), c), l, m)
    BY ShapeReplace
  <1>2. d.inner <=> l
    BY TopIs
  <1> QED
    BY <1>1, <1>2, ShapePush

LEMMA CallNextStep ==
    ASSUME CallsInv, I!CallNext
    PROVE  CallsInv'
  <1> DEFINE c == [I!Top EXCEPT !.pc = "returned"]
             d == I!Frame(I!Top.f, I!After(I!Top.at, I!Top.f), I!Top.inner)
  <1>1. /\ stack # <<>> /\ I!Top = stack[Len(stack)] /\ I!Rest = SubSeq(stack, 1, Len(stack) - 1)
        /\ I!Top.pc = "original" /\ CallOK(I!Top, main)
    BY Innermost DEF I!CallNext
  <1>2. /\ I!Top.at \in Nat /\ I!Top.f \in Callable /\ I!Top.inner \in BOOLEAN
        /\ (I!Top.inner => I!Top.f \in Guarded) /\ main \in BOOLEAN
    BY <1>1 DEF CallOK, CallFrames, CallsInv
  <1>3. CallOK(d, main) /\ d.pc # "backtrace" /\ d.inner = I!Top.inner
    BY <1>2, NewFrame
  <1>4. CallOK(c, main) /\ c.pc # "backtrace" /\ c.inner = I!Top.inner
    <2>1. c \in CallFrames
      BY <1>1 DEF CallOK, CallFrames, Places
    <2>2. /\ c.pc = "returned" /\ c.f = I!Top.f /\ c.inner = I!Top.inner /\ c.at = I!Top.at
          /\ c.traced = I!Top.traced
      BY <1>1 DEF CallOK, CallFrames
    <2>3. I!Top.at # I!Libc
      BY DEF I!CallNext
    <2> QED
      BY <1>1, <2>1, <2>2, <2>3 DEF CallOK
  <1>5. stack' = Append(Append(I!Rest, c), d)
    BY DEF I!CallNext
  <1> HIDE DEF c, d
  <1>6. Shape(Append(Append(I!Rest, c), d), lock, main)
    BY <1>1, <1>3, <1>4, ShapeCall DEF CallsInv
  <1> QED
    BY <1>5, <1>6 DEF CallsInv, I!CallNext, I!Touched

LEMMA LibcCallsStep ==
    ASSUME CallsInv, NEW f, I!LibcCalls(f)
    PROVE  CallsInv'
  <1> DEFINE c == [I!Top EXCEPT !.made = @ + 1]
             d == I!Frame(f, I!After(0, f), I!Top.inner)
  <1>1. /\ stack # <<>> /\ I!Top = stack[Len(stack)] /\ I!Rest = SubSeq(stack, 1, Len(stack) - 1)
        /\ I!Top.pc = "original" /\ CallOK(I!Top, main)
    BY Innermost DEF I!LibcCalls
  (* What is guarded calls nothing that is traced.                         *)
  <1>2. f \in Callable /\ ~I!Top.inner
    BY <1>1, CallsAre DEF I!LibcCalls, CallOK
  <1>3. I!Top.inner \in BOOLEAN /\ main \in BOOLEAN
    BY <1>1 DEF CallOK, CallFrames, CallsInv
  <1>4. CallOK(d, main) /\ d.pc # "backtrace" /\ d.inner = I!Top.inner
    BY <1>2, <1>3, NewFrame
  <1>5. CallOK(c, main) /\ c.pc # "backtrace" /\ c.inner = I!Top.inner
    <2>1. I!Top.made \in 0..MaxInner /\ I!Top.made < MaxInner /\ MaxInner \in Nat
      BY <1>1, CallsAssumption DEF I!LibcCalls, CallOK, CallFrames
    <2>2. I!Top.made + 1 \in 0..MaxInner
      BY <2>1
    <2>3. c \in CallFrames
      BY <1>1, <2>2 DEF CallOK, CallFrames
    <2>4. /\ c.pc = "original" /\ c.f = I!Top.f /\ c.inner = I!Top.inner /\ c.at = I!Top.at
          /\ c.traced = I!Top.traced
      BY <1>1 DEF CallOK, CallFrames
    <2> QED
      BY <1>1, <2>3, <2>4 DEF CallOK
  <1>6. stack' = Append(Append(I!Rest, c), d)
    BY DEF I!LibcCalls
  <1> HIDE DEF c, d
  <1>7. Shape(Append(Append(I!Rest, c), d), lock, main)
    BY <1>1, <1>4, <1>5, ShapeCall DEF CallsInv
  <1> QED
    BY <1>6, <1>7 DEF CallsInv, I!LibcCalls, I!Touched

(***************************************************************************)
(* The actions that leave a call, with or without writing it.              *)
(***************************************************************************)
LEMMA LeaveStep ==
    ASSUME CallsInv, NEW pc, I!At(pc), pc # "backtrace", stack' = I!Rest,
           UNCHANGED <<loaded, table, main, enable, lock, exited, crashed>>,
           \A c \in trace' : c \in trace \/ ~c.inner
    PROVE  CallsInv'
  <1>1. /\ stack # <<>> /\ I!Top = stack[Len(stack)] /\ I!Rest = SubSeq(stack, 1, Len(stack) - 1)
        /\ I!Top.pc = pc
    BY Innermost
  <1>2. Shape(I!Rest, lock, main)
    BY <1>1, ShapePop DEF CallsInv
  <1> QED
    BY <1>2 DEF CallsInv, I!Touched

LEMMA WrittenCall ==
    ASSUME NEW c, ~c.inner, I!WriteCall(c)
    PROVE  \A x \in trace' : x \in trace \/ ~x.inner
  BY DEF I!WriteCall

LEMMA ReturnedStep ==
    ASSUME CallsInv, I!Returned
    PROVE  CallsInv'
  <1> DEFINE c == [I!Top EXCEPT !.pc = "write"]
  <1>1. /\ stack # <<>> /\ I!Top = stack[Len(stack)] /\ I!Rest = SubSeq(stack, 1, Len(stack) - 1)
        /\ I!Top.pc = "returned" /\ CallOK(I!Top, main) /\ (I!Top.inner <=> lock)
        /\ I!At("returned")
    BY Innermost DEF I!Returned
  (* A wrapper that traces clears a lock that is not set.                  *)
  <1>2. lock' = lock
    BY <1>1 DEF I!Returned, CallOK, CallsInv
  <1>3. ASSUME I!Top.traced, stack' = Append(I!Rest, c)
        PROVE  CallsInv'
    <2>1. c \in CallFrames
      BY <1>1 DEF CallOK, CallFrames, Places
    <2>2. /\ c.pc = "write" /\ c.f = I!Top.f /\ c.inner = I!Top.inner /\ c.at = I!Top.at
          /\ c.traced = I!Top.traced
      BY <1>1 DEF CallOK, CallFrames
    <2> HIDE DEF c
    <2>3. CallOK(c, main)
      BY <1>1, <1>3, <2>1, <2>2 DEF CallOK
    <2>4. Shape(Append(I!Rest, c), lock, main)
      BY <1>1, <2>2, <2>3, ShapeReplace DEF CallsInv
    <2> QED
      BY <1>2, <1>3, <2>4 DEF CallsInv, I!Returned, I!Touched
  <1>4. ASSUME stack' = I!Rest
        PROVE  CallsInv'
    BY <1>1, <1>2, <1>4, LeaveStep DEF I!Returned
  <1> QED
    BY <1>3, <1>4 DEF I!Returned

LEMMA TakeBacktraceStep ==
    ASSUME CallsInv, I!TakeBacktrace
    PROVE  CallsInv'
  <1> DEFINE c == [I!Top EXCEPT !.pc = "backtrace"]
  <1>1. /\ stack # <<>> /\ I!Top = stack[Len(stack)] /\ I!Rest = SubSeq(stack, 1, Len(stack) - 1)
        /\ I!Top.pc = "write" /\ CallOK(I!Top, main) /\ (I!Top.inner <=> lock)
    BY Innermost DEF I!TakeBacktrace
  <1>2. ~I!Top.inner /\ lock = FALSE
    BY <1>1 DEF CallOK, CallsInv
  <1>3. c \in CallFrames
    BY <1>1 DEF CallOK, CallFrames, Places
  <1>4. /\ c.pc = "backtrace" /\ c.f = I!Top.f /\ c.inner = I!Top.inner /\ c.at = I!Top.at
        /\ c.traced = I!Top.traced
    BY <1>1 DEF CallOK, CallFrames
  <1>5. stack' = Append(I!Rest, c)
    BY DEF I!TakeBacktrace
  <1> HIDE DEF c
  <1>6. CallOK(c, main)
    BY <1>1, <1>3, <1>4 DEF CallOK
  <1>7. Shape(I!Rest, FALSE, main)
    BY <1>1, <1>2, ShapePop DEF CallsInv
  <1>8. Shape(Append(I!Rest, c), TRUE, main)
    BY <1>2, <1>4, <1>6, <1>7, ShapePushBacktrace DEF CallsInv
  <1>9. exited' = FALSE /\ lock' = TRUE
    BY <1>2 DEF I!TakeBacktrace
  <1> QED
    BY <1>5, <1>8, <1>9 DEF CallsInv, I!TakeBacktrace, I!Touched

LEMMA BacktraceStepStep ==
    ASSUME CallsInv, NEW f \in BacktraceCalls, I!BacktraceStep(f)
    PROVE  CallsInv'
  <1> DEFINE c == [I!Top EXCEPT !.made = @ + 1]
             d == I!Frame(f, I!After(0, f), TRUE)
  <1>1. /\ stack # <<>> /\ I!Top = stack[Len(stack)] /\ I!Rest = SubSeq(stack, 1, Len(stack) - 1)
        /\ I!Top.pc = "backtrace" /\ CallOK(I!Top, main) /\ lock /\ ~I!Top.inner
    BY Innermost DEF I!BacktraceStep
  <1>2. f \in Guarded /\ f \in Callable
    BY Assumed DEF Callable
  <1>3. main \in BOOLEAN /\ lock = TRUE
    BY <1>1 DEF CallsInv
  <1>4. CallOK(d, main) /\ d.pc # "backtrace" /\ d.inner = TRUE
    BY <1>2, <1>3, NewFrame
  <1>5. CallOK(c, main) /\ c.pc = "backtrace" /\ ~c.inner
    <2>1. I!Top.made \in 0..MaxInner /\ I!Top.made < MaxInner /\ MaxInner \in Nat
      BY <1>1, CallsAssumption DEF I!BacktraceStep, CallOK, CallFrames
    <2>2. I!Top.made + 1 \in 0..MaxInner
      BY <2>1
    <2>3. c \in CallFrames
      BY <1>1, <2>2 DEF CallOK, CallFrames
    <2>4. /\ c.pc = "backtrace" /\ c.f = I!Top.f /\ c.inner = I!Top.inner /\ c.at = I!Top.at
          /\ c.traced = I!Top.traced
      BY <1>1 DEF CallOK, CallFrames
    <2> QED
      BY <1>1, <2>3, <2>4 DEF CallOK
  <1>6. stack' = Append(Append(I!Rest, c), d)
    BY DEF I!BacktraceStep
  <1> HIDE DEF c, d
  <1>7. Shape(I!Rest, FALSE, main)
    BY <1>1, ShapePopBacktrace DEF CallsInv
  <1>8. Shape(Append(I!Rest, c), TRUE, main)
    BY <1>3, <1>5, <1>7, ShapePushBacktrace
  <1>9. Shape(Append(Append(I!Rest, c), d), TRUE, main)
    BY <1>3, <1>4, <1>8, ShapePush
  <1> QED
    BY <1>3, <1>6, <1>9 DEF CallsInv, I!BacktraceStep, I!Touched

LEMMA BacktraceDoneStep ==
    ASSUME CallsInv, I!BacktraceDone
    PROVE  CallsInv'
  <1>1. /\ stack # <<>> /\ I!Top = stack[Len(stack)] /\ I!Rest = SubSeq(stack, 1, Len(stack) - 1)
        /\ I!Top.pc = "backtrace" /\ ~I!Top.inner
    BY Innermost DEF I!BacktraceDone
  <1>2. Shape(I!Rest, FALSE, main)
    BY <1>1, ShapePopBacktrace DEF CallsInv
  <1>3. \A x \in trace' : x \in trace \/ ~x.inner
    BY <1>1, WrittenCall DEF I!BacktraceDone
  <1>4. lock' = FALSE /\ stack' = I!Rest
    BY DEF I!BacktraceDone
  <1> QED
    BY <1>2, <1>3, <1>4 DEF CallsInv, I!BacktraceDone, I!Touched

LEMMA CallsStep ==
    ASSUME CallsInv, I!Next
    PROVE  CallsInv'
  <1>1. CASE \E f \in Program : I!ProgramCalls(f)
    BY <1>1, ProgramCallsStep
  <1>2. CASE I!PassLocked
    BY <1>2, PassLockedStep
  <1>3. CASE I!UseTable
    BY <1>3, UseTableStep
  <1>4. CASE I!InitStub
    BY <1>4, InitStubStep
  <1>5. CASE I!CallNext
    BY <1>5, CallNextStep
  <1>6. CASE \E f \in (IF stack = <<>> THEN {} ELSE I!Calls(I!Top.f)) : I!LibcCalls(f)
    BY <1>6, LibcCallsStep
  <1>7. CASE I!LibcReturns
    BY <1>7, LeaveStep DEF I!LibcReturns
  <1>8. CASE I!Returned
    BY <1>8, ReturnedStep
  <1>9. CASE I!WriteDisabled
    BY <1>9, LeaveStep DEF I!WriteDisabled
  <1>10. CASE I!WritePlain
    <2>1. I!At("write") /\ ~I!Top.inner
      BY <1>10, Innermost DEF I!WritePlain, CallOK
    <2>2. \A x \in trace' : x \in trace \/ ~x.inner
      BY <1>10, <2>1, WrittenCall DEF I!WritePlain
    <2> QED
      BY <1>10, <2>1, <2>2, LeaveStep DEF I!WritePlain
  <1>11. CASE I!TakeBacktrace
    BY <1>11, TakeBacktraceStep
  <1>12. CASE \E f \in BacktraceCalls : I!BacktraceStep(f)
    BY <1>12, BacktraceStepStep
  <1>13. CASE I!BacktraceDone
    BY <1>13, BacktraceDoneStep
  <1>14. CASE I!Toggle
    BY <1>14 DEF I!Toggle, CallsInv, I!Touched
  <1> QED
    BY <1>1, <1>2, <1>3, <1>4, <1>5, <1>6, <1>7, <1>8, <1>9, <1>10, <1>11, <1>12, <1>13, <1>14
       DEF I!Next

LEMMA CallsSafe ==
    ASSUME CallsInv
    PROVE  I!BacktraceIsNotTraced /\ I!OriginalsKnown
  <1> DEFINE B == {i \in DOMAIN stack : stack[i].pc = "backtrace"}
  <1>1. DOMAIN stack = 1..Len(stack) /\ Len(stack) \in Nat
    BY DEF CallsInv, Shape
  <1>2. \A i \in 1..Len(stack) : CallOK(stack[i], main)
    BY DEF CallsInv, Shape
  <1>3. \A i, j \in B : i = j
    <2> SUFFICES ASSUME NEW i \in B, NEW j \in B, j > i
                 PROVE  FALSE
      BY <1>1
    <2>1. stack[j].inner
      BY <1>1 DEF CallsInv, Shape
    <2>2. ~stack[j].inner
      BY <1>1, <1>2 DEF CallOK
    <2> QED
      BY <2>1, <2>2
  <1>5. lock <=> \E i \in DOMAIN stack : stack[i].pc = "backtrace"
    BY <1>1 DEF CallsInv, Shape
  <1>6. ~exited /\ ~crashed /\ \A c \in trace : ~c.inner
    BY DEF CallsInv
  <1> QED
    BY <1>3, <1>5, <1>6 DEF I!BacktraceIsNotTraced, I!OriginalsKnown

-----------------------------------------------------------------------------
CallsPart == part = "calls" => CallsInv

LEMMA CallsPartInvariant == MCSpec => []CallsPart
  <1>1. MCInit => CallsPart
    BY CallsInit DEF MCInit, CallsPart
  <1>2. CallsPart /\ [MCNext]_allvars => CallsPart'
    <2> SUFFICES ASSUME CallsPart, [MCNext]_allvars, part' = "calls"
                 PROVE  CallsInv'
      BY DEF CallsPart
    <2>1. CASE part = "calls" /\ I!Next
      BY <2>1, CallsStep DEF CallsPart
    <2>2. CASE UNCHANGED allvars
      BY <2>2 DEF allvars, ivars, CallsPart, CallsInv, I!Touched
    <2> QED
      BY <2>1, <2>2 DEF MCNext
  <1> QED
    BY <1>1, <1>2, PTL DEF MCSpec

(***************************************************************************)
(* For any libraries in any order of preloading and any functions of the   *)
(* program: what backtrace() calls is neither written nor backtraced       *)
(* itself, sp_rtrace_write_function_call never exits with "infinite        *)
(* recursion detected", and backtrace_lock is set exactly while a          *)
(* backtrace is taken, whenever tracing is toggled.                        *)
(***************************************************************************)
THEOREM BacktraceGuarded == MCSpec => []BacktraceIsNotTraced
  <1>1. CallsPart => BacktraceIsNotTraced
    BY CallsSafe DEF CallsPart, BacktraceIsNotTraced
  <1> QED
    BY <1>1, CallsPartInvariant, PTL

(***************************************************************************)
(* No call that passes under backtrace_lock meets a library whose table of *)
(* original functions is still empty.                                      *)
(***************************************************************************)
THEOREM OriginalsFound == MCSpec => []OriginalsKnown
  <1>1. CallsPart => OriginalsKnown
    BY CallsSafe DEF CallsPart, OriginalsKnown
  <1> QED
    BY <1>1, CallsPartInvariant, PTL

=============================================================================
