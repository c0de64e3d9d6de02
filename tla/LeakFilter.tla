----------------------------- MODULE LeakFilter -----------------------------
(***************************************************************************)
(* The leak filter of the post-processor (filter_leaks in                  *)
(* src/rtrace-postproc/filter.c) as a step on one trace record.  The       *)
(* filter walks the calls in trace order and keeps an index from resources *)
(* to allocation calls; what is left in the call list afterwards is the    *)
(* leak report.  For one resource (type and id) an entry says how many of  *)
(* its allocation calls are left in the list and the reference count of    *)
(* its index record, 0 when it has none.                                   *)
(*                                                                         *)
(* The modules that model the tracing libraries apply RemoveFreed to every *)
(* call they write, so what they keep is always the leak report of the     *)
(* trace written so far.                                                   *)
(***************************************************************************)
EXTENDS Naturals

CONSTANT RefCounted     \* the resource types with SP_RTRACE_RESOURCE_REFCOUNT

NoCalls == [left |-> 0, refs |-> 0]

\* What identifies a resource in the index: its type and its id.
Resource(call) == <<call.res, call.id>>

Alloc(r, a) == [type |-> "alloc", res |-> r, id |-> a]
Free(r, a)  == [type |-> "free", res |-> r, id |-> a]

\* Mutants: an allocation that takes the earlier ones of its resource out of
\* the list, and a release that does not count a reference down.
AllocCallReplaces(entry, refcounted) ==
    IF refcounted /\ entry.refs > 0
    THEN [entry EXCEPT !.refs = @ + 1]
    ELSE [left |-> 1, refs |-> 1]

FreeCallKeepsCount(entry, refcounted) ==
    IF entry.refs = 0 THEN entry
    ELSE IF entry.refs = 1 \/ ~refcounted
         THEN [left |-> entry.left - 1, refs |-> 0]
         ELSE entry

\* An allocation adds a reference to a reference counted resource that is in
\* the index, and is dropped from the list; any other allocation gets an index
\* record of its own, which replaces the one of an earlier call.
AllocCall(entry, refcounted) ==
    IF refcounted /\ entry.refs > 0
    THEN [entry EXCEPT !.refs = @ + 1]
    ELSE [left |-> entry.left + 1, refs |-> 1]

\* The last reference, or any reference to a resource that is not counted,
\* takes the indexed allocation out of the list.
FreeCall(entry, refcounted) ==
    IF entry.refs = 0 THEN entry
    ELSE IF entry.refs = 1 \/ ~refcounted
         THEN [left |-> entry.left - 1, refs |-> 0]
         ELSE [entry EXCEPT !.refs = @ - 1]

RemoveFreed(filter, call) ==
    LET counted == call.res \in RefCounted
    IN  [filter EXCEPT ![Resource(call)] =
            IF call.type = "alloc" THEN AllocCall(@, counted)
                                   ELSE FreeCall(@, counted)]
=============================================================================
