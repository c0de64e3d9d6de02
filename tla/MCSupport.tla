----------------------------- MODULE MCSupport -----------------------------
(* The support code: the trace data container with its lists and table, the  *)
(* emulation heap, the call contexts and the resolver.  They have no state   *)
(* in common; each behaviour is one of one of them.                          *)
EXTENDS RtraceData, TLC

CONSTANTS HeapSize, Bases, Sizes, Alignments, Ids,   \* EmuHeap
          Threads, RegistrySize, MaxSessions,        \* CallContext
          Frames, Slots, MaxMaps, MaxFrames                   \* Resolver

VARIABLES base, tail, word, byte, chunk, moved, ready, exited,
          context_lock, context_index, registry, mask, at, id, seen,
          session, sessions, declared, entered, raced,
          step, options, abort, mmaps, cache, names, files, turn, log, out,
          part

E == INSTANCE EmuHeap
C == INSTANCE CallContext

\* The executable, linked at its address, and two libraries at touching
\* addresses that share a function name; a third file is not there.
Maps == {[module |-> "app", from |-> 10, to |-> 19],
         [module |-> "libA", from |-> 30, to |-> 40],
         [module |-> "libB", from |-> 40, to |-> 49],
         [module |-> "gone", from |-> 60, to |-> 69]}
Named    == {33, 64}
Missing  == {"gone"}
Absolute == {"app"}
Stripped == {"libB"}
Symbols  == [app  |-> {[name |-> "main", value |-> 10, size |-> 4],
                       [name |-> "work", value |-> 14, size |-> 4]},
             libA |-> {[name |-> "init", value |-> 2, size |-> 4]},
             libB |-> {[name |-> "init", value |-> 0, size |-> 4]},
             gone |-> {}]
HashOf   == [a \in Frames |-> IF a = 0 THEN 0 ELSE a % 2]
R == INSTANCE Resolver

evars == <<base, tail, word, byte, chunk, moved, ready, exited>>
cvars == <<context_lock, context_index, registry, mask, at, id, seen,
           session, sessions, declared, entered, raced>>
rvars == <<step, options, abort, mmaps, cache, names, files, turn, log, out>>

\* The calls are given keys with a tie, the backtraces one bucket and a
\* common first frame.
MCHash    == [b \in Backtraces |-> "b1"]
MCKey     == [c \in Calls |-> CASE c = "c1" -> 1 [] c = "c5" -> 3 [] OTHER -> 2]
MCTrimmed == [b \in Backtraces |-> "top"]

MCInit ==
    /\ part \in {"data", "heap", "context", "resolver"}
    /\ Init
    /\ E!Init
    /\ C!Init
    /\ R!Init
    /\ part # "data" => phase = "binary"
    /\ part # "resolver" => options = [mode |-> "full", method |-> "bfd"]
    /\ part # "heap" => \A b \in Bases : base <= b

MCNext ==
    \/ part = "data" /\ Next /\ UNCHANGED <<evars, cvars, rvars, part>>
    \/ part = "heap" /\ E!Next /\ UNCHANGED <<vars, cvars, rvars, part>>
    \/ part = "context" /\ C!Next /\ UNCHANGED <<vars, evars, rvars, part>>
    \/ part = "resolver" /\ R!Next /\ UNCHANGED <<vars, evars, cvars, part>>

MCSpec == MCInit /\ [][MCNext]_<<vars, evars, cvars, rvars, part>>

\* The chunks of the emulation heap stay intact (EmuHeap).
ChunksIntact == E!ChunksIntact

\* Call contexts do not mix (CallContext).
ContextsKeptApart == C!ContextsKeptApart

\* The resolved log is the log with its frames named (Resolver).
ResolvedInPlace == R!ResolvedInPlace
=============================================================================
