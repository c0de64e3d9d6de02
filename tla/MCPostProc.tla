----------------------------- MODULE MCPostProc -----------------------------
(* Three resource types, the second of them reference counted, the third   *)
(* with an id that is not a power of two; traces of up to three calls, one *)
(* of them with a context or arguments, or of two calls and another        *)
(* record, with an empty and a deep backtrace, and a clock that may pass   *)
(* midnight once.                                                          *)
EXTENDS PostProc

MCTypeName   == <<"memory", "gobject", "file">>
\* A path, one with a blank and none, like that of an abstract socket; two of
\* them make the arguments of a call.
MCTexts == {<<"p">>, <<"p", "q">>, << >>}
MCArgLists == {<<a, <<"p">>>> : a \in MCTexts}

MCBacktraces == {<<"a", "b">>, << >>}

Plain == [depth |-> -1, resource |-> {}, range |-> {}, mapped |-> FALSE, include |-> {},
          exclude |-> {}, by_context |-> FALSE, context |-> {}, leaks |-> FALSE, compress |-> FALSE]

\* The option sets: every filter, alone or with the ones it works with.
MCOptions ==
    {Plain,
     [Plain EXCEPT !.compress = TRUE, !.leaks = TRUE],
     [Plain EXCEPT !.compress = TRUE, !.depth = 1],
     [Plain EXCEPT !.leaks = TRUE, !.resource = {2}],
     [Plain EXCEPT !.leaks = TRUE, !.resource = {1, 3}, !.compress = TRUE],
     [Plain EXCEPT !.range = {"b"}, !.mapped = TRUE],
     [Plain EXCEPT !.include = {1, 3}, !.leaks = TRUE, !.by_context = TRUE, !.context = {1, 2}],
     [Plain EXCEPT !.include = {1, 2}, !.exclude = {1}, !.by_context = TRUE]}
=============================================================================
