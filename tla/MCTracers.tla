----------------------------- MODULE MCTracers -----------------------------
(* The tracing libraries over heap addresses, files and GObjects, each with  *)
(* the leak filter, and the way a call takes through the libraries.  They    *)
(* have no state in common: each behaviour is one of one of them, and the    *)
(* variables of the others keep the value Unused.                            *)
EXTENDS HeapTracer, TLC

CONSTANTS t1, t2, a1, a2, s1, g1, g2, g3, o1, o2,   \* threads, addresses, streams, objects
          Streams, Single, Paired, LastFd, MaxFdCount, MaxFileLeft, MaxAstray,     \* FileTracer
          GThreads, Objects, MaxRefs,                                 \* GObjectTracer
          Preload, Program, BacktraceCalls, MaxCalls, MaxInner        \* Interposer

VARIABLES kfd, stream, rtfds, noted, silent, mixed,
          ref, held,
          loaded, table, main, enable, lock, stack, calls, trace, exited, crashed,
          part

F == INSTANCE FileTracer WITH MaxLeft <- MaxFileLeft
G == INSTANCE GObjectTracer WITH Threads <- GThreads
I == INSTANCE Interposer

\* The libraries of sp-rtrace, and of the functions they trace backtrace() calls
\* only those that are guarded by backtrace_lock.
ASSUME CallsAssumption ==
    /\ Preload \in Seq(DOMAIN I!Locked)
    /\ BacktraceCalls \subseteq UNION {I!Locked[lib] : lib \in DOMAIN I!Locked}
    /\ MaxInner \in Nat

\* A process has finitely many threads.
ASSUME ThreadsAssumption == IsFiniteSet(GThreads)

\* The names that FileTracer gives to owners, to free and closed descriptors and
\* to the stream -1 are not those of threads, types of descriptors or streams.
ASSUME FilesAssumption ==
    /\ LastFd \in Nat
    /\ Threads \cap {"none", "owned", "early", "stream"} = {}
    /\ {"free", "closed"} \cap (Single \cup Paired) = {}
    /\ "all" \notin Streams

fvars == <<kfd, stream, rtfds, noted, silent, mixed>>
gvars == <<ref, held>>
ivars == <<loaded, table, main, enable, lock, stack, calls, trace, exited, crashed>>

MCThreads  == {t1, t2}
MCAddr     == {a1, a2}
MCStreams  == {s1}
MCGThreads == {g1, g2, g3}
MCObjects  == {o1, o2}
MCFileLeft == [x \in ({"fd"} \X (0..LastFd)) \cup ({"fp"} \X Streams) |->
                 IF x[1] = "fd" THEN 3 ELSE 1]
MCPreload  == <<"memtransfer", "memory", "file", "shmposix", "gobject">>
MCSymmetry == Permutations(MCThreads)

Unused == 0

NoFiles   == /\ kfd = Unused /\ stream = Unused /\ rtfds = Unused /\ noted = Unused
             /\ silent = Unused /\ mixed = Unused
NoHeap    == enabled = Unused /\ transfers = Unused
NoObjects == ref = Unused /\ held = Unused
NoFilter  == todo = Unused /\ filter = Unused /\ raced = Unused
NoStatus  == status = Unused /\ stolen = Unused
NoWay == /\ loaded = Unused /\ table = Unused /\ main = Unused /\ enable = Unused
             /\ lock = Unused /\ stack = Unused /\ calls = Unused /\ trace = Unused
             /\ exited = Unused /\ crashed = Unused

MCInit ==
    \/ part = "heap" /\ Init /\ NoFiles /\ NoObjects /\ NoWay
    \/ part = "files" /\ F!Init /\ NoHeap /\ NoObjects /\ NoWay
    \/ part = "objects" /\ G!Init /\ NoHeap /\ NoFiles /\ NoStatus /\ NoWay
    \/ part = "calls" /\ I!Init /\ NoHeap /\ NoFiles /\ NoObjects /\ NoStatus /\ NoFilter

MCNext ==
    \/ part = "heap" /\ Next /\ UNCHANGED <<fvars, gvars, ivars, part>>
    \/ part = "files" /\ F!Next /\ UNCHANGED <<enabled, transfers, gvars, ivars, part>>
    \/ /\ part = "objects" /\ G!Next
       /\ UNCHANGED <<enabled, transfers, status, stolen, fvars, ivars, part>>
    \/ part = "calls" /\ I!Next /\ UNCHANGED <<vars, fvars, gvars, part>>

allvars == <<vars, fvars, gvars, ivars, part>>

MCSpec == MCInit /\ [][MCNext]_allvars

\* What the program holds, a block, an object, a descriptor, a stream or a
\* reference, is in the leak report, in every interleaving of the wrappers of
\* the memory, QObject, file and GObject libraries (NoMissedLeak of HeapTracer
\* and FileTracer, HeldIsReported of GObjectTracer).
HeldIsReported ==
    /\ part = "heap" => NoMissedLeak
    /\ part = "files" => F!NoMissedLeak
    /\ part = "objects" => G!HeldIsReported

\* Where no address or descriptor was given out again under an unreported
\* release, and no call released it without a report (a close or pclose that
\* returns an error, fcloseall), the leak report has neither less nor more
\* (ExactReport of HeapTracer and FileTracer, SettledCount of GObjectTracer).
ReportIsExact ==
    /\ part = "heap" => ExactReport
    /\ part = "files" => F!ExactReport
    /\ part = "objects" => G!SettledCount

\* rt_fds has the type of what the program has open, or FD_TYPE_UNKNOWN, though
\* the wrappers of the file library update it without a lock; not for the
\* duplicates that trace_dup_common gave what it read too late, from under a
\* stream, from such a duplicate, or from descriptor 0 after a close; and
\* descriptor 0 itself may be noted as closed (DescriptorTypes of FileTracer).
DescriptorTypes == part = "files" => F!DescriptorTypes

\* backtrace() is not traced, and no library passes a call on to a function it
\* has not found yet (Interposer).
BacktraceIsNotTraced == part = "calls" => I!BacktraceIsNotTraced
OriginalsKnown       == part = "calls" => I!OriginalsKnown
=============================================================================
