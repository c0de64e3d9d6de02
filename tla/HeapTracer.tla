----------------------------- MODULE HeapTracer -----------------------------
(***************************************************************************)
(* The tracing libraries whose resources live at heap addresses: the       *)
(* memory module (malloc, calloc, realloc, posix_memalign, free), the      *)
(* QObject module (constructors and destructors) and the memory transfer   *)
(* module (strcpy, memcpy, ...), with the leak filter on the trace they    *)
(* write.                                                                  *)
(*                                                                         *)
(* Every wrapper calls the original function and reports it afterwards,    *)
(* with no lock around the two.  A call of a wrapper is therefore a short  *)
(* program of steps of one thread, and the programs of several threads     *)
(* interleave: an address may be released, handed out again and reported   *)
(* by another thread before its release is reported.                       *)
(***************************************************************************)
EXTENDS Naturals, Sequences, FiniteSets

CONSTANTS Threads,      \* threads of the traced process
          Addr,         \* heap addresses
          Interposed,   \* TRUE: ~QObject's deleting form calls the traced base form
          MaxLeft,      \* bound on the calls the report may hold for one resource
          MaxRaced,     \* bound on the resources that are ever raced
          MaxTransfers  \* bound on the transfer functions called

ASSUME BoundsAssumption == {MaxLeft, MaxRaced, MaxTransfers} \subseteq Nat

VARIABLES
    enabled,   \* tracing is on (trace_rt = &trace_on, options->enable)
    status,    \* what every resource type has at every address
    todo,      \* the rest of the wrapper that each thread is in
    filter,    \* the leak filter over the trace of this session
    transfers, \* how many transfer functions were called
    raced,     \* resources given out again while a release was unreported
    stolen     \* ... while a release was unreported whose allocation the
               \*     trace does not hold

vars == <<enabled, status, todo, filter, transfers, raced, stolen>>

Managed   == {"memory", "qobject"}
Resources == Managed \cup {"memtransfer"}

INSTANCE LeakFilter WITH RefCounted <- {}

\* "busy" is a resource inside a wrapper, "owned" one the program got from a
\* reported allocation, "early" one whose allocation is not in this trace.
Statuses == {"none", "busy", "owned", "early"}

\* A step of a wrapper: the original function gives an address back, or a call
\* is written.  "extra" marks the report of a release that has no allocation
\* of its own in this trace, "leaves" that of a destructor that leaves the
\* memory under the object to its caller.
Release(a)    == [do |-> "release", id |-> a]
Report(c, x)  == [do |-> "report", call |-> c, extra |-> x, leaves |-> FALSE]
Destroy(c, x) == [do |-> "report", call |-> c, extra |-> x, leaves |-> TRUE]

TypeOK ==
    /\ enabled \in BOOLEAN
    /\ status \in [Managed -> [Addr -> Statuses]]
    /\ \A t \in Threads : Len(todo[t]) <= 4
    /\ filter \in [Resources \X Addr -> [left : 0..(MaxLeft + MaxTransfers), refs : 0..1]]
    /\ transfers \in 0..MaxTransfers
    /\ raced \subseteq Managed \X Addr
    /\ stolen \subseteq raced

Init ==
    /\ enabled = FALSE
    /\ status = [r \in Managed |-> [a \in Addr |-> "none"]]
    /\ todo = [t \in Threads |-> <<>>]
    /\ filter = [k \in Resources \X Addr |-> NoCalls]
    /\ transfers = 0
    /\ raced = {}
    /\ stolen = {}

-----------------------------------------------------------------------------
Idle(t) == todo[t] = <<>>

\* The thread still has to report a release of the resource.
Frees(t, r, a, extra) ==
    \E i \in DOMAIN todo[t] :
        /\ todo[t][i].do = "report" /\ todo[t][i].call = Free(r, a)
        /\ todo[t][i].extra = extra
PendingFrees(r, a) == {t \in Threads : Frees(t, r, a, TRUE) \/ Frees(t, r, a, FALSE)}

\* Address a is given out to resource type r: from here on it may be mixed up
\* with an earlier resource of that type and address.
GiveOut(r, a) ==
    /\ raced' = IF PendingFrees(r, a) # {} THEN raced \cup {<<r, a>>} ELSE raced
    /\ Cardinality(raced') <= MaxRaced
    /\ stolen' = IF \E t \in Threads : Frees(t, r, a, TRUE)
                 THEN stolen \cup {<<r, a>>} ELSE stolen

KeepRaces == UNCHANGED <<raced, stolen>>

Begin(t, program) ==
    /\ enabled
    /\ Idle(t)
    /\ todo' = [todo EXCEPT ![t] = program]
    /\ UNCHANGED <<enabled, filter>>
    /\ transfers' = transfers + Cardinality({i \in DOMAIN program :
            program[i].do = "report" /\ program[i].call.res = "memtransfer"})

MayReport(r, a) == filter[<<r, a>>].left + Cardinality(PendingFrees(r, a)) < MaxLeft

\* malloc and calloc: the allocation is reported when it succeeded.
Malloc(t, a) ==
    /\ status["memory"][a] = "none" /\ MayReport("memory", a)
    /\ Begin(t, <<Report(Alloc("memory", a), FALSE)>>)
    /\ status' = [status EXCEPT !["memory"][a] = "busy"]
    /\ GiveOut("memory", a)

PosixMemalign(t, a) == Malloc(t, a)

\* The block is not an object and no other thread is using it.
Disposable(a) ==
    /\ status["memory"][a] \in {"owned", "early"}
    /\ status["qobject"][a] = "none"

Extra(r, a) == status[r][a] = "early"

\* realloc: the old block is reported as freed and the new one as allocated,
\* both after the original function has moved the data (p # q), grown the
\* block in place (p = q), or released it (size 0).
Realloc(t, p, q) ==
    /\ Disposable(p) /\ MayReport("memory", q)
    /\ \/ /\ q = p
          /\ Begin(t, <<Report(Free("memory", p), Extra("memory", p)),
                        Report(Alloc("memory", p), FALSE)>>)
          /\ status' = [status EXCEPT !["memory"][p] = "busy"]
          /\ KeepRaces
       \/ /\ status["memory"][q] = "none"
          /\ Begin(t, <<Release(p), Report(Free("memory", p), Extra("memory", p)),
                        Report(Alloc("memory", q), FALSE)>>)
          /\ status' = [status EXCEPT !["memory"][p] = "busy", !["memory"][q] = "busy"]
          /\ GiveOut("memory", q)

\* free, and realloc to size 0.
FreeBlock(t, p) ==
    /\ Disposable(p)
    /\ Begin(t, <<Release(p), Report(Free("memory", p), Extra("memory", p))>>)
    /\ status' = [status EXCEPT !["memory"][p] = "busy"]
    /\ KeepRaces

\* A constructor runs in memory that the program has allocated.
Construct(t, a) ==
    /\ Disposable(a) /\ MayReport("qobject", a)
    /\ Begin(t, <<Report(Alloc("qobject", a), FALSE)>>)
    /\ status' = [status EXCEPT !["qobject"][a] = "busy"]
    /\ GiveOut("qobject", a)

Destructible(a) ==
    /\ status["qobject"][a] \in {"owned", "early"}
    /\ status["memory"][a] \in {"owned", "early"}

\* The destructor of a derived class calls the base form, which leaves the
\* memory to its caller.
DestructBase(t, a) ==
    /\ Destructible(a)
    /\ Begin(t, <<Destroy(Free("qobject", a), Extra("qobject", a))>>)
    /\ status' = [status EXCEPT !["qobject"][a] = "busy"]
    /\ KeepRaces

\* The deleting form destroys the object and returns its memory with free,
\* which the memory module traces, and reports the destruction after that;
\* when it reaches the base form through the traced symbol the destruction is
\* reported twice.
DestructDeleting(t, a) ==
    LET freed == <<Release(a), Report(Free("memory", a), Extra("memory", a))>>
        fcall == Free("qobject", a)
    IN  /\ Destructible(a)
        /\ Begin(t, IF Interposed
                    THEN <<Report(fcall, Extra("qobject", a))>> \o freed
                                \o <<Report(fcall, TRUE)>>
                    ELSE freed \o <<Report(fcall, Extra("qobject", a))>>)
        /\ status' = [status EXCEPT !["qobject"][a] = "busy", !["memory"][a] = "busy"]
        /\ KeepRaces

\* The transfer functions report an allocation that is never freed, with the
\* source as its id: a block of the program.
Transfer(t, a) ==
    /\ status["memory"][a] \in {"owned", "early"}
    /\ transfers < MaxTransfers
    /\ Begin(t, <<Report(Alloc("memtransfer", a), FALSE)>>)
    /\ UNCHANGED status /\ KeepRaces

\* The string functions that return a copy get its block from malloc, which is
\* a traced call of its own; those for wide characters differ in the size.
DuplicateString(t, a) == Transfer(t, a)
WideTransfer(t, a)    == Transfer(t, a)

\* The object at a is gone once a thread is past its destructor.
AfterRelease(a) ==
    [status EXCEPT !["memory"][a] = "none",
                   !["qobject"][a] = IF @ = "busy" THEN "none" ELSE @]

ReleaseStep(t) ==
    /\ ~Idle(t)
    /\ Head(todo[t]).do = "release"
    /\ status' = AfterRelease(Head(todo[t]).id)
    /\ todo' = [todo EXCEPT ![t] = Tail(@)]
    /\ UNCHANGED <<enabled, filter, transfers, raced, stolen>>

\* sp_rtrace_write_function_call writes nothing while tracing is off.  The
\* wrapper returns after its last report: an allocation then belongs to the
\* program, and a destroyed object leaves its memory to it.
ReportStep(t) ==
    /\ ~Idle(t)
    /\ Head(todo[t]).do = "report"
    /\ LET step == Head(todo[t])
           c == step.call
           next == IF c.type = "alloc" THEN (IF enabled THEN "owned" ELSE "early")
                                       ELSE "none"
       IN  /\ filter' = IF enabled THEN RemoveFreed(filter, c) ELSE filter
           /\ status' = IF /\ c.res \in Managed
                           /\ c.type = "alloc" \/ step.leaves
                        THEN [status EXCEPT ![c.res][c.id] = next]
                        ELSE status
    /\ todo' = [todo EXCEPT ![t] = Tail(@)]
    /\ UNCHANGED <<enabled, transfers, raced, stolen>>

-----------------------------------------------------------------------------
\* While tracing is off trace_rt is trace_off: nothing is reported.
Untraced(a) ==
    /\ ~enabled
    /\ \/ /\ status["memory"][a] = "none"
          /\ status' = [status EXCEPT !["memory"][a] = "early"]
          /\ GiveOut("memory", a)
       \/ /\ Disposable(a)
          /\ status' = [status EXCEPT !["memory"][a] = "none"]
          /\ KeepRaces
       \/ /\ Disposable(a)
          /\ status' = [status EXCEPT !["qobject"][a] = "early"]
          /\ GiveOut("qobject", a)
       \/ /\ Destructible(a)
          /\ status' = [status EXCEPT !["qobject"][a] = "none"]
          /\ KeepRaces
    /\ UNCHANGED <<enabled, todo, filter, transfers>>

\* Switching tracing on starts a new trace: what the program holds, and what
\* threads are about to report as released, was allocated before it.
EnableTracing ==
    /\ ~enabled
    /\ enabled' = TRUE
    /\ filter' = [k \in Resources \X Addr |-> NoCalls]
    /\ status' = [r \in Managed |-> [a \in Addr |->
                    IF status[r][a] = "owned" THEN "early" ELSE status[r][a]]]
    /\ todo' = [t \in Threads |-> [i \in DOMAIN todo[t] |->
                    IF todo[t][i].do = "report" THEN [todo[t][i] EXCEPT !.extra = TRUE]
                                                ELSE todo[t][i]]]
    /\ stolen' = raced
    /\ UNCHANGED <<transfers, raced>>

DisableTracing ==
    /\ enabled
    /\ enabled' = FALSE
    /\ UNCHANGED <<status, todo, filter, transfers, raced, stolen>>

Next ==
    \/ EnableTracing \/ DisableTracing
    \/ \E a \in Addr : Untraced(a)
    \/ \E t \in Threads :
        \/ ReleaseStep(t) \/ ReportStep(t)
        \/ \E a \in Addr :
            \/ Malloc(t, a) \/ PosixMemalign(t, a) \/ FreeBlock(t, a)
            \/ Construct(t, a) \/ DestructBase(t, a) \/ DestructDeleting(t, a)
            \/ Transfer(t, a) \/ DuplicateString(t, a) \/ WideTransfer(t, a)
            \/ \E q \in Addr : Realloc(t, a, q)

Spec == Init /\ [][Next]_vars

-----------------------------------------------------------------------------
\* A block or an object that the program holds is in the leak report, in every
\* interleaving of the wrappers: a release that is reported late can take the
\* allocation of the next owner out of the list, but leaves the one of the
\* first owner in (fcall_remove_freed drops the index record of the earlier
\* call, never its entry in the list).  The exception is a late report of a
\* release whose allocation the trace does not hold.
NoMissedLeak ==
    \A r \in Managed, a \in Addr :
        (enabled /\ status[r][a] = "owned" /\ <<r, a>> \notin stolen)
            => filter[<<r, a>>].left >= 1

\* Where no address was given out under an unreported release, the report is
\* exact: one call for every resource that the program holds or whose release
\* is still to be reported, none for the others.
ExactReport ==
    \A r \in Managed, a \in Addr :
        (enabled /\ <<r, a>> \notin raced) =>
            filter[<<r, a>>].left =
                IF \/ status[r][a] = "owned"
                   \/ \E t \in Threads : Frees(t, r, a, FALSE)
                THEN 1 ELSE 0
=============================================================================
