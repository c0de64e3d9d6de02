------------------------------- MODULE CallLog -------------------------------
(***************************************************************************)
(* What the trace data container promises its readers and filters: a       *)
(* sequence of calls, each with its own backtrace.                         *)
(***************************************************************************)
EXTENDS Naturals, Sequences, FiniteSets

CONSTANTS Calls,       \* function calls
          Backtraces,  \* backtraces
          Key,         \* what the calls are sorted by
          Trimmed,     \* every backtrace cut to the requested depth
          NULL

VARIABLE log

Untraced == {i \in DOMAIN log : log[i].trace = NULL}

\* The position of entry i once the log is sorted; equal keys keep their order.
Rank(i) ==
    Cardinality({j \in DOMAIN log :
        \/ Key[log[j].call] < Key[log[i].call]
        \/ Key[log[j].call] = Key[log[i].call] /\ j <= i})

Init == log = << >>

AddCall(c) ==
    /\ \A i \in DOMAIN log : log[i].call # c
    /\ log' = Append(log, [call |-> c, trace |-> NULL])

\* The backtrace belongs to the last call, or to all calls read since the
\* previous backtrace.
SetTrace(bt) ==
    \E S \in SUBSET Untraced :
        log' = [i \in DOMAIN log |-> IF i \in S THEN [log[i] EXCEPT !.trace = bt] ELSE log[i]]

Remove(c) ==
    LET Other(e) == e.call # c IN log' = SelectSeq(log, Other)

Sort == log' = [k \in DOMAIN log |-> log[CHOOSE i \in DOMAIN log : Rank(i) = k]]

Trim ==
    log' = [i \in DOMAIN log |->
               IF log[i].trace = NULL THEN log[i]
               ELSE [log[i] EXCEPT !.trace = Trimmed[@]]]

Next ==
    \/ \E c \in Calls : AddCall(c) \/ Remove(c)
    \/ \E bt \in Backtraces : SetTrace(bt)
    \/ Sort
    \/ Trim

Spec == Init /\ [][Next]_log
=============================================================================
