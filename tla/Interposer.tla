----------------------------- MODULE Interposer -----------------------------
(***************************************************************************)
(* How a call of a traced function gets to the original one.  Every        *)
(* tracing library defines the functions it traces; a call goes through    *)
(* the libraries in the order they were preloaded in, through the function *)
(* table each of them has chosen (initializing, not tracing, tracing), and *)
(* the C library's function may call traced functions again.  A library    *)
(* that traces writes the call with a backtrace, and backtrace() calls     *)
(* traced functions too: the thread local backtrace_lock makes them pass.  *)
(*                                                                         *)
(* One thread is modelled: the lock is per thread, and what the threads    *)
(* share is in ModuleInit and MainModule.                                  *)
(***************************************************************************)
EXTENDS Naturals, Sequences

CONSTANTS Preload,         \* the libraries in the order of LD_PRELOAD
          Program,         \* the functions that the program calls
          BacktraceCalls,  \* the functions that backtrace() calls
          MaxCalls,        \* bound on the calls of the program
          MaxInner         \* bound on the traced calls of one original function

VARIABLES
    loaded,  \* libraries that have found their original functions (trace_off)
    table,   \* trace_rt of every library: "init", "off" or "on"
    main,    \* sp_rtrace_initialize has succeeded
    enable,  \* sp_rtrace_options->enable
    lock,    \* backtrace_lock
    stack,   \* the functions that the thread is in, the innermost last
    calls,   \* how many calls the program has made
    trace,   \* what was written: the call, and whether backtrace() made it
    exited,  \* exit(-1) after "infinite recursion detected"
    crashed  \* a function pointer that is still NULL was called

vars == <<loaded, table, main, enable, lock, stack, calls, trace, exited, crashed>>

-----------------------------------------------------------------------------
(***************************************************************************)
(* The functions that each library traces.  A locked one passes when the   *)
(* thread is in backtrace(), a direct one does not look.                   *)
(***************************************************************************)
MemoryLocked      == {"malloc", "calloc", "realloc", "free"}
MemoryDirect      == {"posix_memalign"}
FileLocked        == {"open", "open64", "close"}
FileOpens         == {"creat", "openat"}
FileDuplicates    == {"dup", "dup2", "dup3", "fcntl"}
FileSockets       == {"socket", "socketpair", "bind", "connect", "accept", "accept4"}
FileSpecial       == {"inotify_init", "inotify_init1", "eventfd", "signalfd", "timerfd_create",
                      "epoll_create", "epoll_create1", "getpt", "posix_openpt", "pipe", "pipe2"}
FileStreams       == {"fopen", "fdopen", "freopen", "popen", "pclose", "fclose", "fcloseall"}
ShmPosixLocked    == {"open", "open64", "close"}
ShmPosixDirect    == {"shm_open", "shm_unlink", "creat", "mmap", "mmap64", "munmap"}
ShmSysVDirect     == {"shmget", "shmctl", "shmat", "shmdt"}
TransferBytes     == {"strcpy", "mempcpy", "memmove", "memcpy", "memset", "strncpy", "stpcpy",
                      "strcat", "strncat", "bcopy", "bzero", "strdup", "strndup"}
TransferWide      == {"wmemcpy", "wmempcpy", "wmemmove", "wmemset", "wcscpy", "wcsncpy",
                      "wcpcpy", "wcpncpy", "wcscat", "wcsncat", "wcsdup"}
GObjectDirect     == {"g_object_newv", "g_type_free_instance", "g_object_ref", "g_object_unref"}
QObjectDirect     == {"D0", "D1", "D2", "C1", "C1_char", "C1_priv", "C2", "C2_char", "C2_priv"}

Locked ==
    [memory |-> MemoryLocked, file |-> FileLocked, shmposix |-> ShmPosixLocked,
     shmsysv |-> {}, memtransfer |-> {}, gobject |-> {}, qobject |-> {}]

Direct ==
    [memory      |-> MemoryDirect,
     file        |-> FileOpens \cup FileDuplicates \cup FileSockets
                        \cup FileSpecial \cup FileStreams,
     shmposix    |-> ShmPosixDirect,
     shmsysv     |-> ShmSysVDirect,
     memtransfer |-> TransferBytes \cup TransferWide,
     gobject     |-> GObjectDirect,
     qobject     |-> QObjectDirect]

Traces(lib, f) == f \in Locked[lib] \cup Direct[lib]

\* The entries of the tables trace_init: the function that a library's table
\* holds until the library is initialized.
MemoryStubs        == MemoryLocked \cup MemoryDirect
FileOpenStubs      == FileLocked \cup FileOpens
FileDuplicateStubs == FileDuplicates
FileSocketStubs    == FileSockets
FileSpecialStubs   == FileSpecial
FileStreamStubs    == FileStreams
ShmPosixStubs      == ShmPosixLocked \cup ShmPosixDirect
ShmSysVStubs       == ShmSysVDirect
TransferByteStubs  == TransferBytes
TransferWideStubs  == TransferWide
GObjectStubs       == GObjectDirect
QObjectStubs       == QObjectDirect

Stubs ==
    [memory      |-> MemoryStubs,
     file        |-> FileOpenStubs \cup FileDuplicateStubs \cup FileSocketStubs
                        \cup FileSpecialStubs \cup FileStreamStubs,
     shmposix    |-> ShmPosixStubs,
     shmsysv     |-> ShmSysVStubs,
     memtransfer |-> TransferByteStubs \cup TransferWideStubs,
     gobject     |-> GObjectStubs,
     qobject     |-> QObjectStubs]

\* The wrappers that clear backtrace_lock when the original has returned.
ClearsLock == [lib \in DOMAIN Locked |-> Locked[lib]]

\* The wrappers that only keep a registry and write no call.
WritesNothing ==
    [lib \in DOMAIN Locked |-> IF lib = "shmposix" THEN {"open", "open64", "creat"} ELSE {}]

\* The traced functions that the original functions call: the C library and
\* GLib allocate, duplicate and copy through the dynamic symbols.
Calls(f) ==
    CASE f \in {"strdup", "strndup", "wcsdup"}         -> {"malloc"}
      [] f \in {"fopen", "fdopen", "popen"}            -> {"malloc"}
      [] f \in {"fclose", "pclose"}                    -> {"free"}
      [] f \in {"g_object_newv"}                       -> {"malloc"}
      [] f \in {"g_object_unref"}                      -> {"g_type_free_instance"}
      [] f \in {"g_type_free_instance"}                -> {"free"}
      [] f = "D0"                                      -> {"D2", "free"}
      [] f = "shm_open"                                -> {"open"}
      [] OTHER                                         -> {}

-----------------------------------------------------------------------------
Libs == {Preload[i] : i \in DOMAIN Preload}
Libc == Len(Preload) + 1

\* The position of the next library after i that traces f, or Libc.
After(i, f) ==
    LET later == {k \in DOMAIN Preload : k > i /\ Traces(Preload[k], f)}
    IN  IF later = {} THEN Libc ELSE CHOOSE k \in later : \A l \in later : k <= l

\* A call of f that has got to position at; inner: backtrace() made it.
Frame(f, at, inner) ==
    [f |-> f, at |-> at, inner |-> inner, traced |-> FALSE, made |-> 0,
     pc |-> IF at = Libc THEN "original" ELSE "target"]

Top  == stack[Len(stack)]
At(pc) == stack # <<>> /\ ~exited /\ ~crashed /\ Top.pc = pc
Rest == SubSeq(stack, 1, Len(stack) - 1)
Lib  == Preload[Top.at]

TypeOK ==
    /\ loaded \subseteq Libs
    /\ table \in [Libs -> {"init", "off", "on"}]
    /\ {main, enable, lock, exited, crashed} \subseteq BOOLEAN
    /\ calls \in 0..MaxCalls
    /\ \A i \in DOMAIN stack : stack[i].at \in 1..Libc /\ stack[i].made \in 0..MaxInner

Init ==
    /\ loaded = {} /\ table = [l \in Libs |-> "init"]
    /\ main = FALSE /\ enable = FALSE /\ lock = FALSE
    /\ stack = <<>> /\ calls = 0 /\ trace = {}
    /\ exited = FALSE /\ crashed = FALSE

\* The program calls a function.
ProgramCalls(f) ==
    /\ stack = <<>> /\ calls < MaxCalls
    /\ stack' = <<Frame(f, After(0, f), FALSE)>>
    /\ calls' = calls + 1
    /\ UNCHANGED <<loaded, table, main, enable, lock, trace, exited, crashed>>

-----------------------------------------------------------------------------
\* The target function chooses: under the lock the original function, which
\* for open64 of the shared memory library is open, ...
PassesNotFree == Top.f \in Locked[Lib] /\ lock /\ Top.f # "free"   \* mutant: free does not look
Passes == Top.f \in Locked[Lib] /\ lock
Original == IF Lib = "shmposix" /\ Top.f = "open64" /\ Passes THEN "open" ELSE Top.f

PassLocked ==
    /\ At("target") /\ Passes
    /\ crashed' = (Lib \notin loaded /\ Lib # "memory")   \* emu_* until loaded
    /\ stack' = Append(Rest, [Top EXCEPT !.pc = "original", !.f = Original])
    /\ UNCHANGED <<loaded, table, main, enable, lock, calls, trace, exited>>

\* ... and else the table.
UseTable ==
    /\ At("target") /\ ~Passes
    /\ table[Lib] # "init"
    /\ stack' = Append(Rest, [Top EXCEPT !.pc = "original", !.traced = (table[Lib] = "on")])
    /\ UNCHANGED <<loaded, table, main, enable, lock, calls, trace, exited, crashed>>

\* The functions that sp_rtrace_initialize calls before it reads the options:
\* get_proc_name opens and closes a file.
TouchedNone == {}   \* mutant: the process name is not read from a file
Touched == {l \in Libs : Traces(l, "open") \/ Traces(l, "close")}

\* init_*: trace_initialize finds the original functions, and with them those
\* of the libraries that sp_rtrace_initialize passes; as long as the
\* environment cannot be read it is tried again at the next call (ModuleInit).
Initialize(with, value) ==
    /\ loaded' = loaded \cup with
    /\ table' = [l \in Libs |-> IF l \in with \/ (~main /\ table[l] # "init")
                                THEN (IF value THEN "on" ELSE "off") ELSE table[l]]
    /\ main' = TRUE
    /\ enable' = value
    /\ stack' = Append(Rest, [Top EXCEPT !.pc = "original", !.traced = value])

InitStub ==
    /\ At("target") /\ ~Passes
    /\ table[Lib] = "init" /\ Top.f \in Stubs[Lib]
    /\ \/ main /\ Initialize({Lib}, enable)
       \/ ~main /\ \E value \in BOOLEAN : Initialize({Lib} \cup Touched, value)
       \/ /\ ~main
          /\ loaded' = loaded \cup {Lib}
          /\ stack' = Append(Rest, [Top EXCEPT !.pc = "original"])
          /\ UNCHANGED <<table, main, enable>>
    /\ UNCHANGED <<lock, calls, trace, exited, crashed>>

\* The original function of a library is that of the next one.
CallNext ==
    /\ At("original") /\ Top.at # Libc
    /\ stack' = Append(Append(Rest, [Top EXCEPT !.pc = "returned"]),
                       Frame(Top.f, After(Top.at, Top.f), Top.inner))
    /\ UNCHANGED <<loaded, table, main, enable, lock, calls, trace, exited, crashed>>

\* The C library's function calls traced functions, and returns.
LibcCalls(f) ==
    /\ At("original") /\ Top.at = Libc
    /\ f \in Calls(Top.f) /\ Top.made < MaxInner
    /\ stack' = Append(Append(Rest, [Top EXCEPT !.made = @ + 1]),
                       Frame(f, After(0, f), Top.inner))
    /\ UNCHANGED <<loaded, table, main, enable, lock, calls, trace, exited, crashed>>

LibcReturns ==
    /\ At("original") /\ Top.at = Libc
    /\ stack' = Rest
    /\ UNCHANGED <<loaded, table, main, enable, lock, calls, trace, exited, crashed>>

\* Back in the wrapper.
Returned ==
    /\ At("returned")
    /\ lock' = IF Top.traced /\ Top.f \in ClearsLock[Lib] THEN FALSE ELSE lock
    /\ stack' = IF Top.traced /\ Top.f \notin WritesNothing[Lib]
                THEN Append(Rest, [Top EXCEPT !.pc = "write"]) ELSE Rest
    /\ UNCHANGED <<loaded, table, main, enable, calls, trace, exited, crashed>>

-----------------------------------------------------------------------------
\* sp_rtrace_write_function_call: nothing is written while tracing is off; a
\* call that the filter does not select, or at depth 0, has no backtrace.
WriteCall(c) == trace' = trace \cup {[f |-> c.f, inner |-> c.inner]}

WriteDisabled ==
    /\ At("write") /\ ~enable
    /\ stack' = Rest
    /\ UNCHANGED <<loaded, table, main, enable, lock, calls, trace, exited, crashed>>

WritePlain ==
    /\ At("write") /\ enable
    /\ WriteCall(Top)
    /\ stack' = Rest
    /\ UNCHANGED <<loaded, table, main, enable, lock, calls, exited, crashed>>

TakeBacktrace ==
    /\ At("write") /\ enable
    /\ exited' = lock
    /\ lock' = TRUE
    /\ stack' = Append(Rest, [Top EXCEPT !.pc = "backtrace"])
    /\ UNCHANGED <<loaded, table, main, enable, calls, trace, crashed>>

BacktraceStep(f) ==
    /\ At("backtrace")
    /\ Top.made < MaxInner
    /\ stack' = Append(Append(Rest, [Top EXCEPT !.made = @ + 1]), Frame(f, After(0, f), TRUE))
    /\ UNCHANGED <<loaded, table, main, enable, lock, calls, trace, exited, crashed>>

BacktraceDone ==
    /\ At("backtrace")
    /\ lock' = FALSE
    /\ WriteCall(Top)
    /\ stack' = Rest
    /\ UNCHANGED <<loaded, table, main, enable, calls, exited, crashed>>

\* The toggle signal, at any point of a call.
Toggle ==
    /\ main
    /\ enable' = ~enable
    /\ table' = [l \in Libs |-> IF table[l] = "init" THEN "init"
                                ELSE IF enable THEN "off" ELSE "on"]
    /\ UNCHANGED <<loaded, main, lock, stack, calls, trace, exited, crashed>>

Next ==
    \/ \E f \in Program : ProgramCalls(f)
    \/ PassLocked \/ UseTable \/ InitStub \/ CallNext
    \/ \E f \in (IF stack = <<>> THEN {} ELSE Calls(Top.f)) : LibcCalls(f)
    \/ LibcReturns \/ Returned
    \/ WriteDisabled \/ WritePlain \/ TakeBacktrace
    \/ \E f \in BacktraceCalls : BacktraceStep(f)
    \/ BacktraceDone \/ Toggle

Spec == Init /\ [][Next]_vars

-----------------------------------------------------------------------------
\* What backtrace() calls is not traced, whatever libraries the call passes
\* and whenever tracing is toggled: no call of it is written, no backtrace is
\* taken inside another one, the "infinite recursion" exit is not reached, and
\* the lock is free whenever the program runs.
BacktraceIsNotTraced ==
    /\ ~exited
    /\ \A c \in trace : ~c.inner
    /\ \A i, j \in DOMAIN stack : stack[i].pc = "backtrace" /\ stack[j].pc = "backtrace" => i = j
    /\ lock <=> \E i \in DOMAIN stack : stack[i].pc = "backtrace"

\* A call that passes under the lock never meets a library that has not found
\* its original functions: tracing cannot be on before get_proc_name has
\* opened a file through every library that traces open.
OriginalsKnown == ~crashed
=============================================================================
