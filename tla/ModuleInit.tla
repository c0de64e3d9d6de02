----------------------------- MODULE ModuleInit -----------------------------
(***************************************************************************)
(* How the tracing libraries start (trace_initialize in every library,     *)
(* sp_rtrace_initialize, sp_rtrace_register_module and                     *)
(* sp_rtrace_register_resource in the main library).                       *)
(*                                                                         *)
(* A library starts at its constructor or at the first call of a function  *)
(* that it traces, whichever comes first, in any thread.  Starting calls   *)
(* traced functions itself: sp_rtrace_initialize reads the process name    *)
(* with open and close, which the file and shmposix libraries trace, so    *)
(* trace_initialize runs inside sp_rtrace_initialize, in the library that  *)
(* called it or in another one.  A thread therefore has a stack of calls   *)
(* of trace_initialize.  The inner call finds the initialization lock      *)
(* taken and goes on as if the main library were ready.                    *)
(***************************************************************************)
EXTENDS Naturals, Sequences, FiniteSets

CONSTANTS Threads,      \* threads of the traced process
          MainThread,   \* the one that runs the constructors
          Libraries,    \* the preloaded libraries, in the order of LD_PRELOAD
          Called,       \* those whose functions the program calls
          MaxModules    \* the size of rtrace_modules

ASSUME StartAssumption ==
    /\ MainThread \in Threads
    /\ Libraries \in Seq(STRING \ {"empty"})
    /\ Called \subseteq {Libraries[i] : i \in DOMAIN Libraries}
    /\ MaxModules \in Nat

VARIABLES
    mode,       \* init_mode of every library
    rt,         \* trace_rt: "init", "emu", "off" or "on"
    initrt,     \* trace_init_rt
    lock,       \* initialize_lock
    ready,      \* SP_RTRACE_READY can be read from the environment
    enable,     \* sp_rtrace_options->enable
    slots,      \* rtrace_modules
    nmodules,   \* rtrace_module_index
    resources,  \* rtrace_resources: whose resource types are registered
    known,      \* libraries whose resources have an id (resource->id)
    declared,   \* libraries whose resource types are in the trace
    stack,      \* the calls of trace_initialize that each thread is in
    ctors,      \* constructors that the main thread has yet to run
    refused,    \* open_pipe found no pipe
    overlapped, \* a thread entered a library while another one was starting one
    undeclared  \* a call was written with a resource type that is not in the trace

vars == <<mode, rt, initrt, lock, ready, enable, slots, nmodules, resources, known,
          declared, stack, ctors, refused, overlapped, undeclared>>

Range(s) == {s[i] : i \in DOMAIN s}
Libs     == Range(Libraries)

\* What is particular to the start of each library: whether it sets MODULE_READY
\* before it registers, whether its functions are emulated while it is loaded,
\* and what sp_rtrace_initialize calls of the functions that it traces: open in
\* get_proc_name, or strcpy in sp_rtrace_filter_parse_size_opt.
Memory      == [ready |-> "first", emulates |-> TRUE,  called |-> "never"]
File        == [ready |-> "first", emulates |-> FALSE, called |-> "procname"]
ShmPosix    == [ready |-> "first", emulates |-> FALSE, called |-> "procname"]
ShmSysV     == [ready |-> "last",  emulates |-> FALSE, called |-> "never"]
MemTransfer == [ready |-> "last",  emulates |-> FALSE, called |-> "filter"]
GObject     == [ready |-> "last",  emulates |-> FALSE, called |-> "never"]
QObject     == [ready |-> "last",  emulates |-> FALSE, called |-> "never"]

Kind(m) ==
    CASE m = "memory"      -> Memory
      [] m = "file"        -> File
      [] m = "shmposix"    -> ShmPosix
      [] m = "shmsysv"     -> ShmSysV
      [] m = "memtransfer" -> MemTransfer
      [] m = "gobject"     -> GObject
      [] m = "qobject"     -> QObject

Pcs == {"enter", "load", "start", "environ", "procname", "options", "filter", "pipe", "initial",
        "finish", "register", "count", "enable", "resource", "done"}

\* A call of trace_initialize in library m; passed: how many libraries a call of
\* sp_rtrace_initialize to open or strcpy has passed.
Frames   == [lib : Libs, pc : Pcs, passed : 0..Len(Libraries)]
Frame(m) == [lib |-> m, pc |-> "enter", passed |-> 0]

TypeOK ==
    /\ mode \in [Libs -> {"uninitialized", "loaded", "ready"}]
    /\ rt \in [Libs -> {"init", "emu", "off", "on"}]
    /\ initrt \in [Libs -> {"off", "on"}]
    /\ lock \in 0..2 /\ ready \in BOOLEAN /\ enable \in BOOLEAN
    /\ slots \in [0..(MaxModules - 1) -> Libs \cup {"empty"}]
    /\ nmodules \in Nat
    /\ resources \cup known \cup declared \subseteq Libs
    /\ stack \in [Threads -> Seq(Frames)]
    /\ ctors \in Seq(Libs)
    /\ refused \in BOOLEAN /\ overlapped \in BOOLEAN /\ undeclared \in BOOLEAN

Init ==
    /\ mode = [m \in Libs |-> "uninitialized"]
    /\ rt = [m \in Libs |-> "init"] /\ initrt = [m \in Libs |-> "off"]
    /\ lock = 0 /\ ready \in BOOLEAN /\ enable = FALSE
    /\ slots = [i \in 0..(MaxModules - 1) |-> "empty"] /\ nmodules = 0
    /\ resources = {} /\ known = {} /\ declared = {}
    /\ stack = [t \in Threads |-> <<>>]
    /\ ctors = Libraries
    /\ refused = FALSE /\ overlapped = FALSE /\ undeclared = FALSE

-----------------------------------------------------------------------------
Top(t) == stack[t][Len(stack[t])]
Pop(s) == SubSeq(s, 1, Len(s) - 1)
At(t, pc) == stack[t] # <<>> /\ Top(t).pc = pc

\* The call of trace_initialize goes on at pc, or returns.
Goto(t, pc)  == stack' = [stack EXCEPT ![t] = [@ EXCEPT ![Len(@)].pc = pc]]
Return(t)    == stack' = [stack EXCEPT ![t] = Pop(@)]

\* The call goes on at pc, where a call of a traced function begins.
Pass(t, pc)  == stack' = [stack EXCEPT ![t] = [@ EXCEPT ![Len(@)] =
                            [lib |-> Top(t).lib, pc |-> pc, passed |-> 0]]]

\* Thread t does something that another thread's start does not expect.
Overlap(t) ==
    overlapped' = (overlapped \/ \E u \in Threads \ {t} : stack[u] # <<>>)

Registered == {slots[i] : i \in {j \in DOMAIN slots : j < nmodules}} \ {"empty"}

SwitchAllNot(value) == rt' = rt   \* mutant: the libraries are not told

\* enable_tracing: every registered library is switched.
SwitchAll(value) ==
    rt' = [m \in Libs |-> IF m \in Registered THEN (IF value THEN "on" ELSE "off") ELSE rt[m]]

\* The environment becomes readable once libc is initialized; the constructors
\* of the libraries run after that.
EnvironmentReady ==
    /\ ~ready
    /\ ready' = TRUE
    /\ UNCHANGED <<mode, rt, initrt, lock, enable, slots, nmodules, resources, known,
                   declared, stack, ctors, refused, overlapped, undeclared>>

Constructor ==
    /\ ready /\ ctors # <<>> /\ stack[MainThread] = <<>>
    /\ stack' = [stack EXCEPT ![MainThread] = <<Frame(Head(ctors))>>]
    /\ ctors' = Tail(ctors)
    /\ Overlap(MainThread)
    /\ UNCHANGED <<mode, rt, initrt, lock, ready, enable, slots, nmodules, resources,
                   known, declared, refused, undeclared>>

\* The program calls a traced function.  Tracing it writes a call with the id
\* of the library's resource type.
TracedCall(t, m) ==
    /\ stack[t] = <<>>
    /\ \/ /\ rt[m] = "init"
          /\ stack' = [stack EXCEPT ![t] = <<Frame(m)>>]
          /\ UNCHANGED undeclared
       \/ /\ rt[m] = "on" /\ enable
          /\ undeclared' = (undeclared \/ m \notin known \cap declared)
          /\ UNCHANGED stack
    /\ Overlap(t)
    /\ UNCHANGED <<mode, rt, initrt, lock, ready, enable, slots, nmodules, resources,
                   known, declared, ctors, refused>>

-----------------------------------------------------------------------------
\* trace_initialize looks at init_mode ...
Enter(t) ==
    /\ At(t, "enter")
    /\ CASE mode[Top(t).lib] = "uninitialized" -> Goto(t, "load")
         [] mode[Top(t).lib] = "loaded"        -> Goto(t, "start")
         [] OTHER                              -> Return(t)
    /\ UNCHANGED <<mode, rt, initrt, lock, ready, enable, slots, nmodules, resources,
                   known, declared, ctors, refused, overlapped, undeclared>>

\* ... and finds the original functions.
Load(t) ==
    /\ At(t, "load")
    /\ LET m == Top(t).lib
       IN  /\ mode' = [mode EXCEPT ![m] = "loaded"]
           /\ rt' = [rt EXCEPT ![m] = IF Kind(m).emulates THEN "emu" ELSE @]
    /\ Goto(t, "start")
    /\ UNCHANGED <<initrt, lock, ready, enable, slots, nmodules, resources, known,
                   declared, ctors, refused, overlapped, undeclared>>

\* Mutant: a call that does not get the lock gives up.
TakeLockOrReturn(t) ==
    /\ At(t, "start")
    /\ IF lock = 0 THEN lock' = 1 /\ Goto(t, "environ")
                   ELSE UNCHANGED lock /\ Return(t)
    /\ UNCHANGED <<mode, rt, initrt, ready, enable, slots, nmodules, resources, known,
                   declared, ctors, refused, overlapped, undeclared>>

\* sp_rtrace_initialize: a call that does not get the lock returns true.
TakeLock(t) ==
    /\ At(t, "start")
    /\ IF lock = 0 THEN lock' = 1 /\ Goto(t, "environ")
                   ELSE UNCHANGED lock /\ Goto(t, "register")
    /\ UNCHANGED <<mode, rt, initrt, ready, enable, slots, nmodules, resources, known,
                   declared, ctors, refused, overlapped, undeclared>>

\* Without the environment it returns false, to be tried again later.
ReadEnvironment(t) ==
    /\ At(t, "environ")
    /\ IF ready
       THEN Pass(t, "procname") /\ UNCHANGED lock
       ELSE lock' = 0 /\ Return(t)
    /\ UNCHANGED <<mode, rt, initrt, ready, enable, slots, nmodules, resources, known,
                   declared, ctors, refused, overlapped, undeclared>>

\* A call inside sp_rtrace_initialize goes by the libraries in the order they
\* were preloaded in, and starts those that trace it and have not been started.
AllPassed(t) == Top(t).passed = Len(Libraries)
PassNext(t) ==
    LET i    == Top(t).passed + 1
        m    == Libraries[i]
        rest == [stack[t] EXCEPT ![Len(stack[t])].passed = i]
    IN  stack' = [stack EXCEPT ![t] =
                    IF Kind(m).called = Top(t).pc /\ rt[m] = "init"
                    THEN Append(rest, Frame(m)) ELSE rest]

\* get_proc_name opens and closes a file.
ProcName(t) ==
    /\ At(t, "procname")
    /\ IF AllPassed(t) THEN Goto(t, "options") ELSE PassNext(t)
    /\ UNCHANGED <<mode, rt, initrt, lock, ready, enable, slots, nmodules, resources,
                   known, declared, ctors, refused, overlapped, undeclared>>

\* The start option decides whether tracing is enabled now.
ReadOptions(t) ==
    /\ At(t, "options")
    /\ enable' \in BOOLEAN
    /\ Pass(t, "filter")
    /\ UNCHANGED <<mode, rt, initrt, lock, ready, slots, nmodules, resources, known,
                   declared, ctors, refused, overlapped, undeclared>>

\* The size filter copies its option, if there is one.
ParseFilter(t) ==
    /\ At(t, "filter")
    /\ \/ ~AllPassed(t) /\ PassNext(t)
       \/ Goto(t, IF enable THEN "pipe" ELSE "finish")
    /\ UNCHANGED <<mode, rt, initrt, lock, ready, enable, slots, nmodules, resources,
                   known, declared, ctors, refused, overlapped, undeclared>>

\* open_pipe disables tracing again when there is no pipe; the call goes on.
OpenPipe(t) ==
    /\ At(t, "pipe")
    /\ \/ UNCHANGED <<enable, rt, refused>>
       \/ enable' = FALSE /\ SwitchAll(FALSE) /\ refused' = TRUE
    /\ Goto(t, "initial")
    /\ UNCHANGED <<mode, initrt, lock, ready, slots, nmodules, resources, known,
                   declared, ctors, overlapped, undeclared>>

\* Mutant: the initial data has no resources.
InitialDataNoResources(t) ==
    /\ At(t, "initial")
    /\ SwitchAll(TRUE)
    /\ Goto(t, "finish")
    /\ UNCHANGED <<mode, initrt, lock, ready, enable, slots, nmodules, resources, known,
                   declared, ctors, refused, overlapped, undeclared>>

\* write_initial_data, then enable_tracing(true).
InitialData(t) ==
    /\ At(t, "initial")
    /\ declared' = IF enable THEN resources ELSE declared
    /\ SwitchAll(TRUE)
    /\ Goto(t, "finish")
    /\ UNCHANGED <<mode, initrt, lock, ready, enable, slots, nmodules, resources, known,
                   ctors, refused, overlapped, undeclared>>

Finish(t) ==
    /\ At(t, "finish")
    /\ lock' = 2
    /\ Goto(t, "register")
    /\ UNCHANGED <<mode, rt, initrt, ready, enable, slots, nmodules, resources, known,
                   declared, ctors, refused, overlapped, undeclared>>

-----------------------------------------------------------------------------
\* sp_rtrace_register_module: the library takes the next slot, if there is one,
Register(t) ==
    /\ At(t, "register")
    /\ LET m == Top(t).lib
       IN  /\ mode' = [mode EXCEPT ![m] = IF Kind(m).ready = "first" THEN "ready" ELSE @]
           /\ slots' = IF nmodules < MaxModules
                       THEN [slots EXCEPT ![nmodules] = m] ELSE slots
    /\ Goto(t, IF nmodules < MaxModules THEN "count" ELSE "resource")
    /\ UNCHANGED <<rt, initrt, lock, ready, enable, nmodules, resources, known, declared,
                   ctors, refused, overlapped, undeclared>>

\* counts it (no lock is held between the two),
Count(t) ==
    /\ At(t, "count")
    /\ nmodules' = nmodules + 1
    /\ Goto(t, "enable")
    /\ UNCHANGED <<mode, rt, initrt, lock, ready, enable, slots, resources, known,
                   declared, ctors, refused, overlapped, undeclared>>

\* and is switched on or off.
Enable(t) ==
    /\ At(t, "enable")
    /\ rt' = [rt EXCEPT ![Top(t).lib] = IF enable THEN "on" ELSE "off"]
    /\ Goto(t, "resource")
    /\ UNCHANGED <<mode, initrt, lock, ready, enable, slots, nmodules, resources, known,
                   declared, ctors, refused, overlapped, undeclared>>

\* sp_rtrace_register_resource: a type that is registered keeps its id; a new
\* one is declared in the trace when tracing is on.
RegisterResource(t) ==
    /\ At(t, "resource")
    /\ LET m == Top(t).lib
       IN  /\ known' = known \cup {m}
           /\ resources' = resources \cup {m}
           /\ declared' = IF enable /\ m \notin resources THEN declared \cup {m} ELSE declared
    /\ Goto(t, "done")
    /\ UNCHANGED <<mode, rt, initrt, lock, ready, enable, slots, nmodules, ctors, refused,
                   overlapped, undeclared>>

Done(t) ==
    /\ At(t, "done")
    /\ LET m == Top(t).lib
       IN  /\ initrt' = [initrt EXCEPT ![m] = IF rt[m] = "on" THEN "on" ELSE "off"]
           /\ mode' = [mode EXCEPT ![m] = "ready"]
    /\ Return(t)
    /\ UNCHANGED <<rt, lock, ready, enable, slots, nmodules, resources, known, declared,
                   ctors, refused, overlapped, undeclared>>

InitStep(t) ==
    \/ Enter(t) \/ Load(t) \/ TakeLock(t) \/ ReadEnvironment(t) \/ ProcName(t)
    \/ ReadOptions(t) \/ ParseFilter(t) \/ OpenPipe(t) \/ InitialData(t) \/ Finish(t)
    \/ Register(t) \/ Count(t) \/ Enable(t) \/ RegisterResource(t) \/ Done(t)

Next ==
    \/ EnvironmentReady \/ Constructor
    \/ \E t \in Threads : InitStep(t) \/ \E m \in Called : TracedCall(t, m)

\* The program's threads keep running, libc gets initialized and the loader
\* runs the constructors; nothing makes the program call a traced function.
Fairness ==
    /\ WF_vars(EnvironmentReady) /\ WF_vars(Constructor)
    /\ \A t \in Threads : WF_vars(InitStep(t))

Spec == Init /\ [][Next]_vars /\ Fairness

-----------------------------------------------------------------------------
Quiet == \A t \in Threads : stack[t] = <<>>

\* What the libraries do agrees with the enable option, when no thread entered
\* a library while another one was starting it, a pipe was found and there was
\* room in the table: a library that registered early, with the option still
\* unread, is switched on later.
TracingConsistent ==
    (Quiet /\ lock = 2 /\ ~overlapped /\ ~refused /\ nmodules < MaxModules) =>
        \A m \in Libs : mode[m] = "ready" =>
            /\ m \in Registered
            /\ rt[m] = IF enable THEN "on" ELSE "off"

\* Without such an overlap no call is written whose resource type the reader
\* has not been told of.
CallsDeclared == ~overlapped => ~undeclared

\* Start-up comes to an end: the libraries are eventually started for good, and
\* none goes on emulating its functions, as long as the table is not full.
EventuallyStarted ==
    <>[](\A m \in Libs : /\ mode[m] = "ready"
                         /\ nmodules < MaxModules => rt[m] \in {"off", "on"})
=============================================================================
