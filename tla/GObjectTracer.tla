---------------------------- MODULE GObjectTracer ----------------------------
(***************************************************************************)
(* The GObject tracing library (src/modules/sp_rtrace_gobject.c): the      *)
(* wrappers of g_object_newv, g_object_ref, g_object_unref and             *)
(* g_type_free_instance, with the leak filter on the trace they write.     *)
(* "gobject" is a reference counted resource, so the filter rebuilds the   *)
(* reference count of every object from the calls.  The wrappers report    *)
(* after the original function has returned and hold no lock, so the trace *)
(* may have the calls of two threads in another order than the objects     *)
(* saw them.                                                               *)
(***************************************************************************)
EXTENDS Naturals, Sequences, FiniteSets

CONSTANTS Threads,      \* threads of the traced process
          Objects,      \* addresses of object instances
          Interposed,   \* TRUE: g_object_unref calls the traced g_type_free_instance
          MaxRefs       \* bound on the references to one object

VARIABLES
    ref,       \* the reference count of every instance, 0 when it is free
    held,      \* the references that the program has and may give up
    todo,      \* the calls that the wrapper of each thread has yet to write
    filter,    \* the leak filter over the trace
    raced      \* addresses given out again while a release was unreported

vars == <<ref, held, todo, filter, raced>>

INSTANCE LeakFilter WITH RefCounted <- {"gobject"}

Key(o) == <<"gobject", o>>
Calls  == {Alloc("gobject", o) : o \in Objects} \cup {Free("gobject", o) : o \in Objects}

TypeOK ==
    /\ ref \in [Objects -> 0..MaxRefs]
    /\ held \in [Objects -> 0..MaxRefs]
    /\ \A t \in Threads : Len(todo[t]) <= 2 /\ \A i \in DOMAIN todo[t] : todo[t][i] \in Calls
    /\ filter \in [{Key(o) : o \in Objects} -> [left : 0..1, refs : Nat]]
    /\ raced \subseteq Objects

Init ==
    /\ ref = [o \in Objects |-> 0]
    /\ held = [o \in Objects |-> 0]
    /\ todo = [t \in Threads |-> <<>>]
    /\ filter = [k \in {Key(o) : o \in Objects} |-> NoCalls]
    /\ raced = {}

-----------------------------------------------------------------------------
Begin(t, calls) ==
    /\ todo[t] = <<>>
    /\ todo' = [todo EXCEPT ![t] = calls]
    /\ UNCHANGED filter

Reporting(o) == {t \in Threads : \E i \in DOMAIN todo[t] : todo[t][i].id = o}

\* The instance is there, with one reference, before its call is written.
Newv(t, o) ==
    /\ ref[o] = 0
    /\ Begin(t, <<Alloc("gobject", o)>>)
    /\ ref' = [ref EXCEPT ![o] = 1]
    /\ raced' = IF Reporting(o) # {} THEN raced \cup {o} ELSE raced
    /\ UNCHANGED held

Ref(t, o) ==
    /\ held[o] > 0 /\ ref[o] < MaxRefs
    /\ Begin(t, <<Alloc("gobject", o)>>)
    /\ ref' = [ref EXCEPT ![o] = @ + 1]
    /\ UNCHANGED <<held, raced>>

\* What is written when one of n references is given up: the last one frees
\* the instance inside g_object_unref, and when that call is traced as well
\* the release is written twice.
FreeCalls(n, o) ==
    IF n = 1 /\ Interposed THEN <<Free("gobject", o), Free("gobject", o)>>
                           ELSE <<Free("gobject", o)>>

Unref(t, o) ==
    /\ held[o] > 0
    /\ Begin(t, FreeCalls(ref[o], o))
    /\ ref' = [ref EXCEPT ![o] = @ - 1]
    /\ held' = [held EXCEPT ![o] = @ - 1]
    /\ UNCHANGED raced

\* A call is written.  A wrapper that has got a reference returns with it to
\* the program.
WriteCall(t) ==
    /\ todo[t] # <<>>
    /\ LET call == Head(todo[t])
       IN  /\ filter' = RemoveFreed(filter, call)
           /\ held' = IF call.type = "alloc" THEN [held EXCEPT ![call.id] = @ + 1] ELSE held
    /\ todo' = [todo EXCEPT ![t] = Tail(@)]
    /\ UNCHANGED <<ref, raced>>

Next ==
    \E t \in Threads :
        \/ WriteCall(t)
        \/ \E o \in Objects : Newv(t, o) \/ Ref(t, o) \/ Unref(t, o)

Spec == Init /\ [][Next]_vars

-----------------------------------------------------------------------------
\* The reference count that the filter rebuilds for an object never falls
\* below the references that the program has, though the wrappers of several
\* threads write their calls in any order: an object in use is in the report.
\* Only an address given out again under an unreported release is excepted.
HeldIsReported ==
    \A o \in Objects \ raced :
        held[o] > 0 => filter[Key(o)].left = 1 /\ filter[Key(o)].refs >= held[o]

\* When all wrappers of an object have returned, the rebuilt count is the
\* object's own, and a finalized object is not in the report: the second
\* release that is written for it is harmless.
SettledCount ==
    \A o \in Objects \ raced :
        Reporting(o) = {} =>
            /\ filter[Key(o)].refs = ref[o]
            /\ filter[Key(o)].left = IF ref[o] > 0 THEN 1 ELSE 0
=============================================================================
