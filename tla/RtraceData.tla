----------------------------- MODULE RtraceData -----------------------------
(***************************************************************************)
(* The trace data container of src/common/rtrace_data.c as the readers     *)
(* fill it and the filters empty it: the list of calls, the table of       *)
(* backtraces, shared between the calls that have the same one and counted *)
(* by references, and in every backtrace the list of references to its     *)
(* calls.  All of them are pointers: a call that is removed takes its      *)
(* reference with it, and the last reference takes the backtrace.          *)
(***************************************************************************)
EXTENDS Integers, Sequences, FiniteSets, SequencesExt

CONSTANTS Calls, Ftraces, Refs,  \* the memory for calls, backtraces, references
          Buckets,               \* the buckets of the backtrace table
          Backtraces,            \* the contents of backtraces
          Hash,                  \* [Backtraces -> Buckets], bt_hash
          Key,                   \* [Calls -> Nat], what compare_calls compares
          Trimmed,               \* [Backtraces -> Backtraces], the first frames only
          NULL

VARIABLES
    h,       \* the links of all lists and the buckets of the backtraces
    call,    \* the trace and ref fields of the calls
    ftrace,  \* the frames and ref_count of the backtraces
    target,  \* the call that a reference refers to
    live,    \* the memory in use
    prev,    \* fcall_prev of the binary reader
    phase    \* which reader runs, or that the filters do

vars == <<h, call, ftrace, target, live, prev, phase>>

AllNodes == Calls \cup Ftraces \cup Refs
compare_calls(c, d) == Key[c] - Key[d]

\* rd->calls, last_calls of the text reader, the buckets of rd->ftraces, and
\* the calls list of every backtrace, which bears the backtrace's name.
INSTANCE HTable WITH Node <- AllNodes, List <- {"calls", "last"} \cup Buckets \cup Ftraces,
                     Compare <- compare_calls

TypeOK ==
    /\ call \in [Calls -> [trace : Ftraces \cup {NULL}, ref : Refs \cup {NULL}]]
    /\ ftrace \in [Ftraces -> [frames : Backtraces \cup {NULL}, ref_count : 0..Cardinality(Calls)]]
    /\ target \in [Refs -> Calls \cup {NULL}]
    /\ live \subseteq AllNodes
    /\ prev \in Calls \cup {NULL}
    /\ phase \in {"binary", "text", "filter"}

NoTrace  == [frames |-> NULL, ref_count |-> 0]
Detached == [trace |-> NULL, ref |-> NULL]
Fresh(S) == CHOOSE n \in S \ live : TRUE
Free(heap, S) ==
    [heap EXCEPT !.next = [n \in AllNodes |-> IF n \in S THEN NULL ELSE @[n]],
                 !.prev = [n \in AllNodes |-> IF n \in S THEN NULL ELSE @[n]],
                 !.bucket = [n \in AllNodes |-> IF n \in S THEN NULL ELSE @[n]]]

Init ==
    /\ h = EmptyTable
    /\ call = [c \in Calls |-> Detached]
    /\ ftrace = [f \in Ftraces |-> NoTrace]
    /\ target = [r \in Refs |-> NULL]
    /\ live = {}
    /\ prev = NULL
    /\ phase \in {"binary", "text"}

\* What the two set_ftrace functions begin with: the new backtrace f is stored,
\* unless the table has one with the same frames.  [h, f]: the links and the
\* backtrace to use.
StoredTrace(f, bt) ==
    LET matching == {x \in Ftraces : ftrace[x].frames = bt}
        placed == get_bucket(htable_create_node(h, f), f, Hash[bt])
        xtrace == htable_find(placed, f, matching)
    IN IF xtrace = NULL
       THEN [h |-> htable_store(placed, f, matching), f |-> f]
       ELSE [h |-> Free(placed, {f}), f |-> xtrace]

\* Mutant: the count starts anew.
ReferredAnew(f, bt, n) == [ftrace EXCEPT ![f] = [frames |-> bt, ref_count |-> 1]]

\* The backtrace's fields after n more calls refer to it.
Referred(f, bt, n) == [ftrace EXCEPT ![f] = [frames |-> bt, ref_count |-> @.ref_count + n]]

rd_fcall_set_ftrace(c, bt) ==
    LET s == StoredTrace(Fresh(Ftraces), bt)
        r == Fresh(Refs)
    IN /\ Ftraces \ live # {}
       /\ Refs \ live # {}
       /\ h' = dlist_add(dlist_create_node(s.h, r), s.f, r)
       /\ ftrace' = Referred(s.f, bt, 1)
       /\ call' = [call EXCEPT ![c] = [trace |-> s.f, ref |-> r]]
       /\ target' = [target EXCEPT ![r] = c]
       /\ live' = live \cup {s.f, r}

\* Every reference moves from last_calls to the backtrace; last_calls is reset
\* and its nodes stay.
rd_fcalls_set_ftrace(bt) ==
    LET s    == StoredTrace(Fresh(Ftraces), bt)
        refs == Items(s.h, "last")
        Move(heap, r) == dlist_add(heap, s.f, r)
    IN /\ Ftraces \ live # {}
       /\ h' = dlist_init(FoldLeft(Move, s.h, refs), "last")
       /\ ftrace' = Referred(s.f, bt, Len(refs))
       /\ call' = [c \in Calls |->
                      IF \E i \in DOMAIN refs : target[refs[i]] = c
                      THEN [trace |-> s.f,
                            ref |-> CHOOSE r \in Range(refs) : target[r] = c]
                      ELSE call[c]]
       /\ live' = live \cup {s.f}
       /\ UNCHANGED target

rd_fcall_remove(c) ==
    LET f == call[c].trace
        r == call[c].ref
        last == f # NULL /\ ftrace[f].ref_count = 1
        unlisted == dlist_remove(h, "calls", c)
        unreferred == IF f = NULL \/ r = NULL THEN unlisted ELSE dlist_remove(unlisted, f, r)
        unstored == IF last THEN dlist_remove(unreferred, unreferred.bucket[f], f) ELSE unreferred
        freed == ({c} \cup (IF f = NULL THEN {} ELSE {r}) \cup (IF last THEN {f} ELSE {})) \ {NULL}
    IN /\ h' = Free(unstored, freed)
       /\ live' = live \ freed
       /\ call' = [call EXCEPT ![c] = Detached]
       /\ target' = [t \in Refs |-> IF t \in freed THEN NULL ELSE target[t]]
       /\ ftrace' = [x \in Ftraces |-> IF x # f THEN ftrace[x]
                                       ELSE IF last THEN NoTrace
                                       ELSE [ftrace[f] EXCEPT !.ref_count = @ - 1]]

-----------------------------------------------------------------------------
\* A function call packet, and the backtrace packet that follows it.
ReadCall(c) ==
    /\ phase = "binary"
    /\ c \notin live
    /\ h' = dlist_add(dlist_create_node(h, c), "calls", c)
    /\ live' = live \cup {c}
    /\ prev' = c
    /\ UNCHANGED <<call, ftrace, target, phase>>

ReadBacktrace(bt) ==
    /\ phase = "binary"
    /\ prev # NULL
    /\ rd_fcall_set_ftrace(prev, bt)
    /\ prev' = NULL
    /\ UNCHANGED phase

\* A call line; the lines of its backtrace come later, maybe after more calls.
ReadCallLine(c) ==
    LET r == Fresh(Refs)
    IN /\ phase = "text"
       /\ c \notin live
       /\ Refs \ live # {}
       /\ h' = dlist_add(dlist_create_node(dlist_add(dlist_create_node(h, c), "calls", c), r),
                         "last", r)
       /\ target' = [target EXCEPT ![r] = c]
       /\ live' = live \cup {c, r}
       /\ UNCHANGED <<call, ftrace, prev, phase>>

store_backtrace(bt) ==
    /\ phase = "text"
    /\ h.tail["last"] # NULL
    /\ rd_fcalls_set_ftrace(bt)
    /\ UNCHANGED <<prev, phase>>

EndOfInput ==
    /\ phase' = "filter"
    /\ prev' = NULL
    /\ \/ phase = "binary" /\ h' = h
       \/ phase = "text" /\ h.tail["last"] = NULL /\ h' = dlist_sort(h, "calls")
    /\ UNCHANGED <<call, ftrace, target, live>>

-----------------------------------------------------------------------------
\* A filter drops a call; the backtraces are cut before any call is dropped.
FilterCall(c) ==
    /\ phase = "filter"
    /\ c \in Range(Items(h, "calls"))
    /\ rd_fcall_remove(c)
    /\ UNCHANGED <<prev, phase>>

filter_trim_backtraces ==
    /\ phase = "filter"
    /\ ftrace' = [f \in Ftraces |->
                     IF f \in UNION {Range(Items(h, b)) : b \in Buckets}
                     THEN [ftrace[f] EXCEPT !.frames = Trimmed[@]] ELSE ftrace[f]]
    /\ UNCHANGED <<h, call, target, live, prev, phase>>

Next ==
    \/ \E c \in Calls : ReadCall(c) \/ ReadCallLine(c) \/ FilterCall(c)
    \/ \E bt \in Backtraces : ReadBacktrace(bt) \/ store_backtrace(bt)
    \/ EndOfInput
    \/ filter_trim_backtraces

Spec == Init /\ [][Next]_vars

-----------------------------------------------------------------------------
(***************************************************************************)
(* Properties                                                              *)
(***************************************************************************)
\* The log as a reader of the container sees it.
Entry(c) ==
    [call |-> c, trace |-> IF call[c].trace = NULL THEN NULL ELSE ftrace[call[c].trace].frames]

Log == LET calls == Items(h, "calls") IN [i \in DOMAIN calls |-> Entry(calls[i])]

L == INSTANCE CallLog WITH log <- Log

\* The container implements the log of calls and backtraces: whatever calls
\* the filters drop and whatever backtraces are shared, the calls that remain
\* keep their order and their own backtrace, and dlist_sort sorts stably.
ImplementsCallLog == L!Spec

\* The compressed output walks the backtrace table instead of the list of
\* calls.  Both hold the same calls: every call with a backtrace is listed once,
\* by the stored backtrace it refers to, a backtrace is counted as often as it
\* is listed, and every list reads the same from both ends.
TableHoldsTheCalls ==
    LET calls  == Items(h, "calls")
        stored == UNION {Range(Items(h, b)) : b \in Buckets}
        Of(f)  == [i \in DOMAIN Items(h, f) |-> target[Items(h, f)[i]]]
    IN /\ {c \in Range(calls) : call[c].trace # NULL} =
              UNION {Range(Of(f)) : f \in stored}
       /\ \A f \in stored :
              /\ ftrace[f].ref_count = Len(Of(f)) /\ ftrace[f].ref_count > 0
              /\ \A i \in DOMAIN Of(f) :
                     call[Of(f)[i]] = [trace |-> f, ref |-> Items(h, f)[i]]
              /\ IsInjective(Of(f))
       /\ \A l \in {"calls"} \cup Buckets \cup stored :
              LET items == Items(h, l)
              IN items # << >> => /\ h.head[l] = Last(items)
                                  /\ h.prev[items[1]] = NULL
                                  /\ \A i \in 2..Len(items) : h.prev[items[i]] = items[i - 1]
=============================================================================
