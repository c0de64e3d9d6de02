----------------------------- MODULE FileTracer -----------------------------
(***************************************************************************)
(* The file tracing library (src/modules/sp_rtrace_file.c): the wrappers   *)
(* of the functions that open, duplicate and close descriptors (resource   *)
(* "fd") and streams (resource "fp"), the table rt_fds of descriptor types *)
(* that the wrappers keep, and the leak filter on the trace they write.    *)
(*                                                                         *)
(* A wrapper calls the original function and then reports, so a descriptor *)
(* that is closed may be opened by another thread before the close is in   *)
(* the trace.  The kernel gives out the lowest free descriptor, which      *)
(* makes this the normal case for threads that open and close files.       *)
(***************************************************************************)
EXTENDS Naturals, Sequences, FiniteSets

CONSTANTS Threads,      \* threads of the traced process
          LastFd,       \* descriptors are 0..LastFd
          Streams,      \* addresses of FILE objects
          Single,       \* types of descriptors of the event and terminal functions
          Paired,       \* types of the descriptors of pipes
          MaxFdCount,   \* MAX_FD_COUNT, the size of rt_fds
          MaxLeft,      \* bounds on the calls the report may hold for each resource
          MaxAstray     \* bound on the resources that are ever raced or silent

VARIABLES
    kfd,        \* the kernel's descriptor table: what is open where
    stream,     \* the descriptor of every open stream
    status,     \* who has a descriptor or a stream: the program, a stream or
                \* the wrapper that a thread is in
    rtfds,      \* rt_fds: the type the library noted for every descriptor
    todo,       \* the rest of the wrapper that each thread is in
    noted,      \* the type that a thread read and is going to copy
    filter,     \* the leak filter over the trace
    raced,      \* resources given out again while a release was unreported
    stolen,     \* ... such that a report can hit the wrong owner
    silent,     \* resources released by a call that reports nothing
    mixed       \* duplicates whose type was read when rt_fds did not have it

vars == <<kfd, stream, status, rtfds, todo, noted, filter, raced, stolen, silent, mixed>>

FD     == 0..LastFd
NoFd   == LastFd + 1
Kinds  == {"file", "socket"} \cup Single \cup Paired
Types  == Kinds \cup {"unknown", "closed"}        \* rt_fd_t
Fds    == {"fd"} \X FD
Fps    == {"fp"} \X Streams
AllFps == <<"fp", "all">>                         \* (FILE*)-1
Things == Fds \cup Fps

INSTANCE LeakFilter WITH RefCounted <- {}

TypeOK ==
    /\ kfd \in [FD -> Kinds \cup {"free", "std"}]
    /\ stream \in [Streams -> FD \cup {NoFd}]
    /\ status \in [Things -> {"none", "owned", "early", "stream"} \cup Threads]
    /\ rtfds \in [FD -> Types]
    /\ noted \in [Threads -> Types]
    /\ filter \in [Things \cup {AllFps} -> [left : Nat, refs : 0..1]]
    /\ raced \subseteq Things /\ stolen \subseteq Things /\ silent \subseteq Things
    /\ mixed \subseteq FD

\* The program starts with its standard descriptor and may have inherited
\* others; rt_fds knows nothing of them.
Init ==
    /\ kfd \in [FD -> {"free", "std", "file"}] /\ kfd[0] = "std"
    /\ \A f \in FD \ {0} : kfd[f] # "std"
    /\ stream = [s \in Streams |-> NoFd]
    /\ status = [x \in Things |-> IF x \in Fds /\ kfd[x[2]] # "free" THEN "early" ELSE "none"]
    /\ rtfds = [f \in FD |-> "unknown"]
    /\ todo = [t \in Threads |-> <<>>]
    /\ noted = [t \in Threads |-> "unknown"]
    /\ filter = [x \in Things \cup {AllFps} |-> NoCalls]
    /\ raced = {} /\ stolen = {} /\ silent = {} /\ mixed = {}

-----------------------------------------------------------------------------
\* Steps of a wrapper.  A "free" is extra when its resource had no owner.
A(x)          == [do |-> "alloc", of |-> x]
F(x, extra)   == [do |-> "free", of |-> x, extra |-> extra]
SetFd(f, ty)  == [do |-> "set", fd |-> f, type |-> ty]
GetFd(f, g)   == [do |-> "get", fd |-> f, for |-> g]
CopyFd(f)     == [do |-> "copy", fd |-> f]

\* The thread still has to report a release of x.
Frees(t, x, extra) == \E i \in DOMAIN todo[t] : todo[t][i] = F(x, extra)
PendingFrees(x) == {t \in Threads : Frees(t, x, TRUE) \/ Frees(t, x, FALSE)}

Idle(t) == todo[t] = <<>>

Begin(t, program) ==
    /\ Idle(t)
    /\ todo' = [todo EXCEPT ![t] = program]
    /\ UNCHANGED <<rtfds, noted, filter, mixed>>

\* The things in xs get a new owner, through a program that first reports the
\* release of what is in unowned though nobody had it.
GiveOut(xs, unowned) ==
    LET again == {x \in xs : PendingFrees(x) # {}}
    IN  /\ raced' = raced \cup again
        /\ stolen' = stolen \cup {x \in again :
                x \in unowned \/ \E t \in Threads : Frees(t, x, TRUE)}
        /\ \A x \in xs : filter[x].left + Cardinality(PendingFrees(x)) < MaxLeft[x]

Lowest(S) == CHOOSE f \in S : \A g \in S : f <= g
FreeFds(from) == {f \in FD : kfd[f] = "free" /\ f >= from}

Fd(f) == <<"fd", f>>
Fp(s) == <<"fp", s>>
Extra(x) == status[x] \in {"early", "none"}
Held(x)  == status[x] \in {"owned", "early"}

\* A function that opens a descriptor of one type and reports it.
OpenOne(t, kind) ==
    /\ FreeFds(0) # {}
    /\ LET f == Lowest(FreeFds(0))
       IN  /\ Begin(t, <<A(Fd(f)), SetFd(f, kind)>>)
           /\ kfd' = [kfd EXCEPT ![f] = kind]
           /\ status' = [status EXCEPT ![Fd(f)] = t]
           /\ GiveOut({Fd(f)}, {})
    /\ UNCHANGED <<stream, silent>>

\* A function that opens two descriptors and reports one after the other.
OpenPair(t, kind) ==
    /\ \E f, g \in FreeFds(0) : f # g
    /\ LET f == Lowest(FreeFds(0))
           g == Lowest(FreeFds(0) \ {f})
       IN  /\ Begin(t, <<A(Fd(f)), SetFd(f, kind), A(Fd(g)), SetFd(g, kind)>>)
           /\ kfd' = [kfd EXCEPT ![f] = kind, ![g] = kind]
           /\ status' = [status EXCEPT ![Fd(f)] = t, ![Fd(g)] = t]
           /\ GiveOut({Fd(f), Fd(g)}, {})
    /\ UNCHANGED <<stream, silent>>

\* creat, open, open64 and openat.
OpenFile(t) == OpenOne(t, "file")

Socket(t)     == OpenOne(t, "socket")
Socketpair(t) == OpenPair(t, "socket")

\* accept and accept4 need a socket of the program.
Accept(t) ==
    /\ \E f \in FD : Held(Fd(f)) /\ kfd[f] = "socket"
    /\ OpenOne(t, "socket")

\* inotify_init, inotify_init1, eventfd, signalfd, timerfd_create, epoll_create,
\* epoll_create1, getpt and posix_openpt.
SpecialFd(t) == \E kind \in Single : OpenOne(t, kind)

\* pipe and pipe2.
Pipe(t) == \E kind \in Paired : OpenPair(t, kind)

\* bind and connect report the socket as released and opened again; no other
\* thread uses the socket meanwhile.
BindCommon(t, f) ==
    /\ Held(Fd(f)) /\ kfd[f] = "socket"
    /\ Begin(t, <<F(Fd(f), Extra(Fd(f))), A(Fd(f)), SetFd(f, "socket")>>)
    /\ status' = [status EXCEPT ![Fd(f)] = t]
    /\ UNCHANGED <<kfd, stream, raced, stolen, silent>>

\* What trace_dup_common reports: the release of the descriptor that the call
\* named, when it is the one it got, and the new one with the type of the old.
DupCommon(old, new, ret) ==
    (IF new = ret THEN <<F(Fd(ret), Extra(Fd(ret)))>> ELSE <<>>)
        \o <<GetFd(old, ret), A(Fd(ret)), CopyFd(ret)>>

\* The source may be under a stream, dup(fileno(fp)).  The descriptor that is
\* replaced may not: closing one under its stream is left out.
Duplicate(t, old, new, ret) ==
    /\ status[Fd(old)] \in {"owned", "early", "stream"} /\ old # ret
    /\ Begin(t, DupCommon(old, new, ret))
    /\ kfd' = [kfd EXCEPT ![ret] = kfd[old]]
    /\ status' = [status EXCEPT ![Fd(ret)] = t]
    /\ GiveOut({Fd(ret)}, IF new = ret /\ Extra(Fd(ret)) THEN {Fd(ret)} ELSE {})
    /\ UNCHANGED <<stream, silent>>

\* dup takes the lowest free descriptor, dup2 and dup3 close the one they are
\* given, and fcntl takes the lowest free one from its argument on.
Dup(t, old) ==
    /\ FreeFds(0) # {}
    /\ Duplicate(t, old, NoFd, Lowest(FreeFds(0)))

Dup2(t, old, new) ==
    /\ status[Fd(new)] \in {"none", "owned", "early"}
    /\ Duplicate(t, old, new, new)

FcntlDup(t, old, from) ==
    /\ FreeFds(from) # {}
    /\ Duplicate(t, old, from, Lowest(FreeFds(from)))

\* Mutant: close notes the type for the descriptor it closes.
CloseNotesFd(t, f) ==
    /\ Held(Fd(f))
    /\ Begin(t, <<F(Fd(f), Extra(Fd(f))), SetFd(f, "closed")>>)
    /\ kfd' = [kfd EXCEPT ![f] = "free"]
    /\ status' = [status EXCEPT ![Fd(f)] = "none"]
    /\ UNCHANGED <<stream, raced, stolen, silent>>

\* close notes FD_TYPE_CLOSED for descriptor rc, which is 0, and not for fd.
Close(t, f) ==
    /\ Held(Fd(f))
    /\ Begin(t, <<F(Fd(f), Extra(Fd(f))), SetFd(0, "closed")>>)
    /\ kfd' = [kfd EXCEPT ![f] = "free"]
    /\ status' = [status EXCEPT ![Fd(f)] = "none"]
    /\ UNCHANGED <<stream, raced, stolen, silent>>

\* A close that fails after the kernel has released the descriptor returns -1
\* and is not reported.
CloseFails(t, f) ==
    /\ Held(Fd(f)) /\ Idle(t)
    /\ kfd' = [kfd EXCEPT ![f] = "free"]
    /\ status' = [status EXCEPT ![Fd(f)] = "none"]
    /\ silent' = silent \cup {Fd(f)}
    /\ UNCHANGED <<stream, rtfds, todo, noted, filter, raced, stolen, mixed>>

\* fopen and popen: the descriptor underneath is not reported.
Fopen(t, s) ==
    /\ FreeFds(0) # {} /\ status[Fp(s)] = "none"
    /\ LET f == Lowest(FreeFds(0))
       IN  /\ Begin(t, <<A(Fp(s))>>)
           /\ kfd' = [kfd EXCEPT ![f] = "file"]
           /\ stream' = [stream EXCEPT ![s] = f]
           /\ status' = [status EXCEPT ![Fp(s)] = t, ![Fd(f)] = "stream"]
           /\ GiveOut({Fp(s)}, {})
    /\ UNCHANGED silent

\* fdopen hands the descriptor over to the stream.
Fdopen(t, f, s) ==
    /\ Held(Fd(f)) /\ status[Fp(s)] = "none"
    /\ Begin(t, <<F(Fd(f), Extra(Fd(f))), SetFd(f, "closed"), A(Fp(s))>>)
    /\ stream' = [stream EXCEPT ![s] = f]
    /\ status' = [status EXCEPT ![Fp(s)] = t, ![Fd(f)] = "stream"]
    /\ GiveOut({Fp(s)}, {})
    /\ UNCHANGED <<kfd, silent>>

Freopen(t, s) ==
    /\ status[Fp(s)] = "owned"
    /\ Begin(t, <<F(Fp(s), FALSE), A(Fp(s))>>)
    /\ status' = [status EXCEPT ![Fp(s)] = t]
    /\ UNCHANGED <<kfd, stream, raced, stolen, silent>>

CloseStreams(S) ==
    /\ kfd' = [f \in FD |-> IF \E s \in S : stream[s] = f THEN "free" ELSE kfd[f]]
    /\ stream' = [s \in Streams |-> IF s \in S THEN NoFd ELSE stream[s]]
    /\ status' = [x \in Things |->
                    IF \E s \in S : x = Fp(s) \/ x = Fd(stream[s]) THEN "none" ELSE status[x]]

\* fclose, and pclose of a command that returned 0.
Fclose(t, s) ==
    /\ status[Fp(s)] = "owned"
    /\ Begin(t, <<F(Fp(s), FALSE)>>)
    /\ CloseStreams({s})
    /\ UNCHANGED <<raced, stolen, silent>>

\* pclose of a command that failed, fclose that cannot flush and freopen that
\* cannot open release the stream and report nothing.
FcloseFails(t, s) ==
    /\ status[Fp(s)] = "owned" /\ Idle(t)
    /\ CloseStreams({s})
    /\ silent' = silent \cup {Fp(s)}
    /\ UNCHANGED <<rtfds, todo, noted, filter, raced, stolen, mixed>>

\* fcloseall closes every stream and reports the release of stream -1.
Fcloseall(t) ==
    LET S == {s \in Streams : status[Fp(s)] = "owned"}
    IN  /\ S # {}
        /\ Begin(t, <<F(AllFps, TRUE)>>)
        /\ CloseStreams(S)
        /\ silent' = silent \cup {Fp(s) : s \in S}
        /\ UNCHANGED <<raced, stolen>>

-----------------------------------------------------------------------------
CallOf(step) == [type |-> step.do, res |-> step.of[1], id |-> step.of[2]]

Tracked(f) == f < MaxFdCount

\* rt_fds[f] need not be the type of g, the duplicate of f: f was closed, or
\* opened as something else, after it was duplicated; it is under a stream,
\* where fopen notes no type and fdopen FD_TYPE_CLOSED; it is such a duplicate
\* itself; or it is 0 and a close of any descriptor has noted FD_TYPE_CLOSED.
Misread(f, g) ==
    \/ ~Held(Fd(f)) \/ kfd[f] # kfd[g]
    \/ f \in mixed
    \/ f = 0 /\ rtfds[0] = "closed"

\* One step of a wrapper: a report, a read of rt_fds or a write to it.  When
\* the last one is done the wrapper returns, and what it opened is the
\* program's.
WrapperStep(t) ==
    /\ ~Idle(t)
    /\ LET step == Head(todo[t])
           rest == Tail(todo[t])
       IN  /\ todo' = [todo EXCEPT ![t] = rest]
           /\ status' = [x \in Things |->
                    IF rest = <<>> /\ status[x] = t THEN "owned" ELSE status[x]]
           /\ \/ /\ step.do \in {"alloc", "free"}
                 /\ filter' = RemoveFreed(filter, CallOf(step))
                 /\ UNCHANGED <<rtfds, noted, mixed>>
              \/ /\ step.do = "get"
                 /\ noted' = [noted EXCEPT ![t] =
                        IF Tracked(step.fd) THEN rtfds[step.fd] ELSE "unknown"]
                 /\ mixed' = IF Misread(step.fd, step.for) THEN mixed \cup {step.for}
                                                          ELSE mixed \ {step.for}
                 /\ UNCHANGED <<rtfds, filter>>
              \/ /\ step.do \in {"set", "copy"}
                 /\ LET type == IF step.do = "set" THEN step.type ELSE noted[t]
                    IN  rtfds' = IF Tracked(step.fd)
                                 THEN [rtfds EXCEPT ![step.fd] = type] ELSE rtfds
                 /\ noted' = [noted EXCEPT ![t] = "unknown"]
                 /\ mixed' = IF step.do = "set" /\ step.type # "closed"
                             THEN mixed \ {step.fd} ELSE mixed
                 /\ UNCHANGED filter
    /\ UNCHANGED <<kfd, stream, raced, stolen, silent>>

Step ==
    \E t \in Threads :
        \/ WrapperStep(t) \/ Fcloseall(t)
        \/ OpenFile(t) \/ Socket(t) \/ Socketpair(t) \/ Accept(t) \/ SpecialFd(t) \/ Pipe(t)
        \/ \E f \in FD :
            \/ BindCommon(t, f) \/ Dup(t, f) \/ Close(t, f) \/ CloseFails(t, f)
            \/ \E g \in FD : Dup2(t, f, g) \/ FcntlDup(t, f, g)
            \/ \E s \in Streams : Fdopen(t, f, s)
        \/ \E s \in Streams :
            Fopen(t, s) \/ Freopen(t, s) \/ Fclose(t, s) \/ FcloseFails(t, s)

Next ==
    /\ Step
    /\ Cardinality(raced' \cup silent') <= MaxAstray

Spec == Init /\ [][Next]_vars

-----------------------------------------------------------------------------
\* A descriptor or stream that the program opened is in the leak report in
\* every interleaving of the wrappers, unless it was opened again under the
\* unreported release of one that is not in the trace, or by dup2 or fcntl,
\* which report the release of a descriptor that was already free.
NoMissedLeak ==
    \A x \in Things : (status[x] = "owned" /\ x \notin stolen) => filter[x].left >= 1

\* Where nothing was given out under an unreported release and no call
\* released it without a report, the leak report has exactly the descriptors
\* and streams that the program holds or whose release is being reported.
ExactReport ==
    \A x \in Things :
        (status[x] \notin Threads /\ x \notin raced \cup silent) =>
            filter[x].left =
                IF \/ status[x] = "owned"
                   \/ \E t \in Threads : Frees(t, x, FALSE)
                THEN 1 ELSE 0

\* Though nothing orders the updates of rt_fds with the calls, a descriptor
\* above 0 that the program opened has there the type of what is open, or
\* FD_TYPE_UNKNOWN when it is a duplicate of an inherited one.  The exceptions
\* are the duplicates that trace_dup_common gave a type it read too late, from
\* under a stream, from such a duplicate, or from descriptor 0 after a close
\* (mixed, see Misread).  Descriptor 0 has its type, FD_TYPE_UNKNOWN or
\* FD_TYPE_CLOSED, which trace_close writes to it whatever it closes.
DescriptorTypes ==
    \A f \in FD :
        (Tracked(f) /\ status[Fd(f)] = "owned" /\ f \notin mixed)
            => \/ rtfds[f] \in {kfd[f], "unknown"}
               \/ f = 0 /\ rtfds[f] = "closed"
=============================================================================
