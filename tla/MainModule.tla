----------------------------- MODULE MainModule -----------------------------
(***************************************************************************)
(* The main tracing module, src/modules/sp_rtrace_main.c: the library that *)
(* is preloaded into the traced process, collects the packets of the       *)
(* tracing modules in pipe_buffer and sends them to the pre-processor.     *)
(*                                                                         *)
(* Every thread of the traced process may be inside the library, and the   *)
(* toggle signal may interrupt any of them at any point.  A thread is      *)
(* therefore a stack of activations: the call it makes, above it a nested  *)
(* call (enable_tracing called by a failing flush) or the signal handler.  *)
(* An activation is the sequence of steps it still has to take, with the   *)
(* place it has reached inside the first of them.                          *)
(*                                                                         *)
(* pipe_buffer is an array of cells.  A packet of kind k fills Size[k]     *)
(* cells, each of them labelled with the packet and its position in it, so *)
(* that what a write() sends can be told exactly, whatever interfered.     *)
(***************************************************************************)
EXTENDS Integers, Sequences, FiniteSets

CONSTANTS
    Threads,          \* the threads of the traced process
    BufferSize,       \* BUFFER_SIZE; pipe_buffer is twice as large
    Size,             \* the number of cells of a packet, by its kind
    MaxModules,       \* ARRAY_SIZE(rtrace_modules)
    MaxResources,     \* ARRAY_SIZE(rtrace_resources)
    Registers,        \* Registers[m]: the resource types tracing module m has
    Attaching,        \* the modules whose enable(false) writes attachments
    Buffering,        \* sp_rtrace_options->enable_packet_buffering
    Managed,          \* sp_rtrace_options->manage_preproc
    StartEnabled,     \* the OPT_START environment variable is "1"
    StoreHeap,        \* the memory module calls sp_rtrace_store_heap_info
    Quiescent,        \* environment: see MayEnter
    OpenFailures,     \* environment: how open_pipe may fail, see OpenPipe
    WriteMayFail,     \* environment: write() to an open pipe may fail
    MaxCalls,         \* bound: calls the threads make into the library
    MaxToggles        \* bound: toggle signals delivered

Kinds == {"HS", "OS", "PI", "MI", "RR", "CR", "NL", "HI", "AT", "FC"}

ASSUME BufferAssumption ==
    /\ BufferSize \in Nat \ {0}
    /\ Size \in [Kinds -> 1 .. BufferSize]

ASSUME RegistryAssumption ==
    /\ MaxModules \in Nat
    /\ MaxResources \in Nat
    /\ Registers \in Seq(Seq(Nat \ {0}))
    /\ Attaching \subseteq Nat

ASSUME OptionAssumption ==
    /\ {Buffering, Managed, StartEnabled, StoreHeap} \subseteq BOOLEAN
    /\ {Quiescent, WriteMayFail} \subseteq BOOLEAN
    /\ OpenFailures \subseteq {"missing", "error"}
    /\ MaxCalls \in Nat
    /\ MaxToggles \in Nat

VARIABLES
    enable,       \* sp_rtrace_options->enable
    fd_proc,      \* -1, 0, or k: the pipe of the k-th tracing session
    closed,       \* the descriptors (0 or a session's pipe) closed
    out,          \* out[k]: what the k-th session has sent through its pipe
    own,          \* what has been sent to descriptor 0
    pipe_buffer,  \* the array of cells
    head,         \* pipe_buffer_head - pipe_buffer
    locked,       \* pipe_buffer_locked
    initMode,     \* initMode[m]: the init_mode of tracing module m
    moduleOn,     \* moduleOn[m]: module m uses its tracing functions
    moduleAt,     \* rtrace_modules[i], 0 when unused
    modules,      \* rtrace_module_index
    resourceType, \* rtrace_resources[i].type, 0 when unused
    resources,    \* rtrace_resource_index
    arena,        \* heap_info.arena # 0
    initLock,     \* initialize_lock of sp_rtrace_initialize
    exited,       \* some thread has run the destructors (trace_main_fini)
    stack,        \* stack[t]: the activations of thread t, outermost first
    calls,        \* calls the threads have made into the library
    toggles,      \* toggle signals delivered
    accepted      \* history: <<k, t, n>>, a call accepted during session k

vars == <<enable, fd_proc, closed, out, own, pipe_buffer, head, locked,
          initMode, moduleOn, moduleAt, modules, resourceType, resources, arena,
          initLock, exited, stack, calls, toggles, accepted>>
pipeVars     == <<fd_proc, closed, out, own>>
bufferVars   == <<pipe_buffer, head, locked>>
registryVars == <<initMode, moduleOn, moduleAt, modules, resourceType,
                  resources>>
lifeVars     == <<initLock, exited, toggles>>

TracingModules == DOMAIN Registers
Sessions == DOMAIN out

-----------------------------------------------------------------------------
(* Steps and activations.                                                  *)

Ops == {"packet", "reset", "flush", "open", "openinit", "modules",
        "resources", "enable", "register", "resource", "heapinfo", "store",
        "close", "clear", "nopipe", "ready"}
Places == {"start", "lock", "unlock", "write", "fail", "rewind", "copy",
           "release"}

Step == [op : Ops, kind : Kinds, id : Nat, n : Nat]
Reasons == {"call", "init", "signal", "exit"}
Activation == [todo : Seq(Step), at : Places, ptr : Nat, why : Reasons]
Library == "library"
Cell == [by : Threads \cup {Library}, kind : Kinds, id : Nat, n : Nat, i : Nat]

(* What static memory holds before anything is written to it, and what a   *)
(* read past the end of pipe_buffer finds.                                 *)
Blank == [by |-> Library, kind |-> "HS", id |-> 0, n |-> 0, i |-> 0]

Packet(kind, id, n) == [op |-> "packet", kind |-> kind, id |-> id, n |-> n]
Do(op, id, n) == [op |-> op, kind |-> "HS", id |-> id, n |-> n]
Call(todo, why) == [todo |-> todo, at |-> "start", ptr |-> 0, why |-> why]

Top(t) == stack[t][Len(stack[t])]
Current(t) == Head(Top(t).todo)
Running(t, op, at) ==
    /\ stack[t] # <<>>
    /\ Top(t).at = at
    /\ Current(t).op = op

(* The stack s with its top activation replaced by a, which is popped when *)
(* it has nothing left to do.                                              *)
WithTop(s, a) ==
    IF a.todo = <<>> THEN SubSeq(s, 1, Len(s) - 1) ELSE [s EXCEPT ![Len(s)] = a]

Goto(t, place) ==
    stack' = [stack EXCEPT ![t] = WithTop(@, [Top(t) EXCEPT !.at = place])]
(* The current step is over and is replaced by the steps of more.          *)
Continue(t, more) ==
    stack' = [stack EXCEPT ![t] =
                WithTop(@, [todo |-> more \o Tail(Top(t).todo), at |-> "start",
                            ptr |-> Top(t).ptr, why |-> Top(t).why])]
Return(t) == Continue(t, <<>>)
Enter(t, todo, why) ==
    stack' = [stack EXCEPT ![t] =
                IF todo = <<>> THEN @ ELSE Append(@, Call(todo, why))]

InHandler(t) == \E i \in DOMAIN stack[t] : stack[t][i].why = "signal"

(* enable_tracing(value)                                                   *)
EnableTracing(value) == Do("enable", value, 1)

(* Mutant: the resource registry is not sent again when a session starts.  *)
WriteInitialDataNoResources ==
    <<Do("reset", 0, 0), Packet("HS", 0, 0), Packet("OS", 0, 0),
      Packet("PI", 0, 0), Packet("MI", 0, 0), Do("modules", 0, 1),
      Packet("NL", 0, 0), Do("flush", 0, 0)>>

(* write_initial_data.  The main module's own module info is number 0.     *)
WriteInitialData ==
    <<Do("reset", 0, 0), Packet("HS", 0, 0), Packet("OS", 0, 0),
      Packet("PI", 0, 0), Packet("MI", 0, 0), Do("modules", 0, 1),
      Do("resources", 0, 1), Packet("NL", 0, 0), Do("flush", 0, 0)>>

-----------------------------------------------------------------------------
(* The environment.  Nothing in the code keeps the toggle signal, the      *)
(* initialization and the exit handler apart from calls in progress: that  *)
(* is the behaviour when Quiescent is FALSE.  When it is TRUE they happen  *)
(* while no thread is inside the library, and no thread enters it before   *)
(* they are done: modules are initialized by their constructors, before    *)
(* main, and the signal comes while the program does not call them.        *)
Idle(t) == stack[t] = <<>>
Alone == Quiescent => \A t \in Threads : Idle(t)
MayEnter(t) ==
    /\ Idle(t)
    /\ calls < MaxCalls
    /\ initLock # 0
    /\ Quiescent => /\ ~exited
                    /\ \A u \in Threads, i \in 1 .. 2 :
                           i \in DOMAIN stack[u] => stack[u][i].why = "call"

-----------------------------------------------------------------------------
Init ==
    /\ enable = FALSE
    /\ fd_proc = 0
    /\ closed = {}
    /\ out = <<>>
    /\ own = <<>>
    /\ pipe_buffer = [j \in 0 .. 2 * BufferSize - 1 |-> Blank]
    /\ head = 0
    /\ locked = 0
    /\ initMode = [m \in TracingModules |-> "loaded"]
    /\ moduleOn = [m \in TracingModules |-> FALSE]
    /\ moduleAt = [i \in 1 .. MaxModules |-> 0]
    /\ modules = 0
    /\ resourceType = [i \in 1 .. MaxResources |-> 0]
    /\ resources = 0
    /\ arena = FALSE
    /\ initLock = 0
    /\ exited = FALSE
    /\ stack = [t \in Threads |-> <<>>]
    /\ calls = 0
    /\ toggles = 0
    /\ accepted = {}

-----------------------------------------------------------------------------
(* Entry points.                                                           *)

(* sp_rtrace_initialize.  A thread that loses the race for initialize_lock *)
(* returns true at once and goes on while initialization is in progress.   *)
(* The options are read in the step that takes the lock, and an attempt    *)
(* before the environment is ready (SP_RTRACE_READY), which gives the lock *)
(* back and changes nothing, is no step at all: ModuleInit has the lock,   *)
(* the check of the environment and the options as steps of their own,     *)
(* with other threads and libraries starting between them.                 *)
InitializeSteps ==
    IF initLock # 0 THEN <<>>
    ELSE (IF StartEnabled THEN <<Do("openinit", 0, 0)>> ELSE <<>>)
            \o <<Do("ready", 0, 0)>>
TakeInitializeLock ==
    IF initLock # 0 THEN UNCHANGED <<initLock, enable>>
    ELSE initLock' = 1 /\ enable' = StartEnabled

(* trace_main_init, the constructor of the main module.                    *)
Initialize(t) ==
    /\ Idle(t)
    /\ Alone
    /\ initLock = 0
    /\ TakeInitializeLock
    /\ Enter(t, InitializeSteps, "init")
    /\ UNCHANGED <<pipeVars, bufferVars, registryVars, arena, exited,
                   calls, toggles, accepted>>

(* trace_initialize of tracing module m, called by its constructor or by   *)
(* the first function of it that is called.                                *)
InitializeModule(t, m) ==
    /\ Idle(t)
    /\ Alone
    /\ ~exited
    /\ initMode[m] = "loaded"
    /\ TakeInitializeLock
    /\ Enter(t, InitializeSteps \o <<Do("register", m, 0)>> \o
                [i \in DOMAIN Registers[m] |-> Do("resource", Registers[m][i], 0)],
             "init")
    /\ UNCHANGED <<pipeVars, bufferVars, registryVars, arena, exited,
                   calls, toggles, accepted>>

(* The identifier of a resource type, 0 as long as it has none.            *)
IdOf(type) ==
    IF \E i \in 1 .. resources : resourceType[i] = type
    THEN CHOOSE i \in 1 .. resources : resourceType[i] = type
    ELSE 0

(* A wrapper of an enabled tracing module reports a call on a resource of  *)
(* the type with sp_rtrace_write_function_call.  The call, its arguments   *)
(* and its backtrace are written under one lock: one packet here.          *)
FunctionCall(t, m, type) ==
    /\ MayEnter(t)
    /\ moduleOn[m]
    /\ Enter(t, <<Packet("FC", IdOf(type), calls + 1)>>
                    \o (IF StoreHeap THEN <<Do("store", 0, 0)>> ELSE <<>>),
             "call")
    /\ calls' = calls + 1
    /\ UNCHANGED <<enable, pipeVars, bufferVars, registryVars, arena,
                   lifeVars, accepted>>

(* The dlopen wrapper, and the sp_context_create wrapper.                  *)
Dlopen(t) ==
    /\ MayEnter(t)
    /\ enable
    /\ Enter(t, <<Packet("NL", 2, calls + 1)>>, "call")
    /\ calls' = calls + 1
    /\ UNCHANGED <<enable, pipeVars, bufferVars, registryVars, arena, lifeVars,
                   accepted>>

CreateContext(t) ==
    /\ MayEnter(t)
    /\ Enter(t, <<Packet("CR", 0, calls + 1)>>, "call")
    /\ calls' = calls + 1
    /\ UNCHANGED <<enable, pipeVars, bufferVars, registryVars, arena, lifeVars,
                   accepted>>

(* What the end of a session sends: all of the maps, the heap state.       *)
WriteFinalData == <<Packet("NL", 1, 0), Do("heapinfo", 0, 0)>>

(* signal_toggle_tracing, on the thread t the signal interrupts.  It is    *)
(* blocked while its handler runs on t, but not on the other threads.      *)
ToggleTracing(t) ==
    /\ initLock = 2
    /\ ~exited
    /\ ~InHandler(t)
    /\ Alone
    /\ toggles < MaxToggles
    /\ toggles' = toggles + 1
    /\ enable' = ~enable
    /\ Enter(t, CASE ~enable      -> <<Do("open", 0, 0)>>
                  [] enable /\ fd_proc > 0 ->
                       WriteFinalData \o
                       <<EnableTracing(0), Do("flush", 0, 0),
                         Do("close", 0, 0), Do("clear", 0, 0)>>
                  [] OTHER        -> <<>>, "signal")
    /\ UNCHANGED <<pipeVars, bufferVars, registryVars, arena, initLock, exited,
                   calls, accepted>>

(* trace_main_fini, run by the thread that exits the process.              *)
Exit(t) ==
    /\ Idle(t)
    /\ initLock = 2
    /\ ~exited
    /\ Alone
    /\ exited' = TRUE
    /\ Enter(t, IF fd_proc > 0
                THEN (IF enable THEN WriteFinalData ELSE <<>>) \o
                     <<EnableTracing(0), Do("flush", 0, 0), Do("close", 0, 0)>>
                ELSE <<>>, "exit")
    /\ UNCHANGED <<enable, pipeVars, bufferVars, registryVars, arena, initLock,
                   calls, toggles, accepted>>

-----------------------------------------------------------------------------
(* Writing a packet: PACKET_INIT ... PACKET_FINISH.                        *)

(* The functions that return at once when tracing is disabled.             *)
Checked == {"MI", "RR", "CR", "FC"}

CheckEnable(t) ==
    /\ Running(t, "packet", "start")
    /\ IF Current(t).kind \in Checked /\ ~enable
       THEN /\ Return(t)
            /\ UNCHANGED accepted
       ELSE /\ Goto(t, "lock")
            /\ accepted' = IF Current(t).kind = "FC"
                           THEN accepted \cup {<<fd_proc, t, Current(t).n>>}
                           ELSE accepted
    /\ UNCHANGED <<enable, pipeVars, bufferVars, registryVars, arena, lifeVars,
                   calls>>

(* Only the packets a call of the traced program causes carry a number n;  *)
(* who wrote the others makes no difference.                               *)
CellOf(t, step, i) ==
    [by |-> IF step.n = 0 THEN Library ELSE t,
     kind |-> step.kind, id |-> step.id, n |-> step.n, i |-> i]

LockAndFill(t) ==
    /\ pipe_buffer' =
         [j \in DOMAIN pipe_buffer |->
            IF j \in head .. head + Size[Current(t).kind] - 1
            THEN CellOf(t, Current(t), j - head + 1)
            ELSE pipe_buffer[j]]
    /\ stack' = [stack EXCEPT ![t] =
                   WithTop(@, [Top(t) EXCEPT !.at = "unlock", !.ptr = head])]
    /\ UNCHANGED <<enable, pipeVars, head, registryVars, arena, lifeVars, calls,
                   accepted>>

(* Mutants: the lock is a counter, or is set without comparing it.         *)
LockCounts(t) ==
    /\ Running(t, "packet", "lock")
    /\ locked' = locked + 1
    /\ LockAndFill(t)
LockWithoutCompare(t) ==
    /\ Running(t, "packet", "lock")
    /\ locked' = 1
    /\ LockAndFill(t)

(* pipe_buffer_lock, and the packet written at the head it returns: nobody *)
(* else writes or sends those cells before pipe_buffer_unlock.             *)
Lock(t) ==
    /\ Running(t, "packet", "lock")
    /\ locked = 0
    /\ locked' = 1
    /\ LockAndFill(t)

(* Mutant: the whole array is taken for the sending buffer.                *)
OverflowsArray(a) == a.ptr + Size[Head(a.todo).kind] > 2 * BufferSize
Overflows(a) == a.ptr + Size[Head(a.todo).kind] > BufferSize

(* write() to the descriptor in fd_proc.  It is 0 when there is no pipe,   *)
(* and 0 is a descriptor of the traced program.                            *)
Writable == fd_proc >= 0 /\ fd_proc \notin closed
Send(cells) ==
    IF fd_proc = 0
    THEN own' = own \o cells /\ UNCHANGED out
    ELSE out' = [out EXCEPT ![fd_proc] = @ \o cells] /\ UNCHANGED own

(* Mutant: a packet that does not fit is sent ahead of the buffer.         *)
UnlockSendsAhead(t) ==
    /\ Running(t, "packet", "unlock")
    /\ Top(t).ptr = head
    /\ IF Overflows(Top(t))
       THEN /\ Send([j \in 1 .. Size[Current(t).kind] |->
                       pipe_buffer[head + j - 1]])
            /\ UNCHANGED head
       ELSE /\ head' = head + Size[Current(t).kind]
            /\ UNCHANGED <<out, own>>
    /\ Goto(t, "release")
    /\ UNCHANGED <<enable, fd_proc, closed, pipe_buffer, locked,
                   registryVars, arena, lifeVars, calls, accepted>>

(* pipe_buffer_unlock up to its first write to the pipe or its last        *)
(* assignment.  It returns with the buffer still locked when the head is   *)
(* not where pipe_buffer_lock found it.                                    *)
Unlock(t) ==
    /\ Running(t, "packet", "unlock")
    /\ CASE Top(t).ptr # head -> Return(t) /\ UNCHANGED head
         [] Top(t).ptr = head /\ Overflows(Top(t)) ->
              Goto(t, "write") /\ UNCHANGED head
         [] OTHER ->
              /\ head' = head + Size[Current(t).kind]
              /\ Goto(t, IF Buffering THEN "release" ELSE "write")
    /\ UNCHANGED <<enable, pipeVars, pipe_buffer, locked, registryVars, arena,
                   lifeVars, calls, accepted>>

(* The loop that moves the last packet to the start of the buffer, and the *)
(* assignment that releases the lock.                                      *)
CopyCell(t) ==
    /\ Running(t, "packet", "copy")
    /\ head < Size[Current(t).kind]
    /\ pipe_buffer' = [pipe_buffer EXCEPT ![head] =
                         IF Top(t).ptr \in DOMAIN pipe_buffer
                         THEN pipe_buffer[Top(t).ptr] ELSE Blank]
    /\ head' = head + 1
    /\ stack' = [stack EXCEPT ![t] =
                   WithTop(@, [Top(t) EXCEPT !.ptr = @ + 1])]
    /\ UNCHANGED <<enable, pipeVars, locked, registryVars, arena, lifeVars, calls,
                   accepted>>

(* Mutant: the lock is left set.                                           *)
ReleaseKeepsLock(t) ==
    /\ \/ Running(t, "packet", "release")
       \/ /\ Running(t, "packet", "copy")
          /\ head >= Size[Current(t).kind]
    /\ Return(t)
    /\ UNCHANGED <<enable, pipeVars, bufferVars, registryVars, arena, lifeVars,
                   calls, accepted>>

Release(t) ==
    /\ \/ Running(t, "packet", "release")
       \/ /\ Running(t, "packet", "copy")
          /\ head >= Size[Current(t).kind]
    /\ locked' = 0
    /\ Return(t)
    /\ UNCHANGED <<enable, pipeVars, pipe_buffer, head, registryVars, arena,
                   lifeVars, calls, accepted>>

-----------------------------------------------------------------------------
(* pipe_buffer_flush, inside pipe_buffer_unlock or on its own (and then    *)
(* without the lock).                                                      *)

Flushing(t, at) == Running(t, "packet", at) \/ Running(t, "flush", at)

(* A "flush" step has no place of its own before its write().              *)
AtWrite(t) == Running(t, "packet", "write") \/ Running(t, "flush", "start")

WriteSent(t) ==
    /\ AtWrite(t)
    /\ Writable
    /\ Send([j \in 1 .. head |-> pipe_buffer[j - 1]])
    /\ Goto(t, "rewind")
    /\ UNCHANGED <<enable, fd_proc, closed, bufferVars, registryVars,
                   arena, lifeVars, calls, accepted>>

(* On an error enable_tracing(false) is called from inside the flush.      *)
WriteFailed(t) ==
    /\ AtWrite(t)
    /\ Writable => WriteMayFail /\ fd_proc > 0
    /\ stack' = [stack EXCEPT ![t] =
                   Append(WithTop(@, [Top(t) EXCEPT !.at = "fail"]),
                          Call(<<EnableTracing(0)>>, "call"))]
    /\ UNCHANGED <<enable, pipeVars, bufferVars, registryVars, arena, lifeVars,
                   calls, accepted>>

DisableAfterError(t) ==
    /\ Flushing(t, "fail")
    /\ enable' = FALSE
    /\ fd_proc' = 0
    /\ Goto(t, "rewind")
    /\ UNCHANGED <<closed, out, own, bufferVars, registryVars, arena,
                   lifeVars, calls, accepted>>

(* Mutants: the head is not moved back after a write, or the packet that   *)
(* did not fit is not kept.                                                *)
RewindKeepsHead(t) ==
    /\ Flushing(t, "rewind")
    /\ IF Current(t).op = "flush" THEN Return(t) ELSE Goto(t, "release")
    /\ UNCHANGED <<enable, pipeVars, bufferVars, registryVars, arena, lifeVars,
                   calls, accepted>>
RewindDropsPacket(t) ==
    /\ Flushing(t, "rewind")
    /\ head' = 0
    /\ IF Current(t).op = "flush" THEN Return(t) ELSE Goto(t, "release")
    /\ UNCHANGED <<enable, pipeVars, pipe_buffer, locked, registryVars, arena,
                   lifeVars, calls, accepted>>

(* The head goes back to the start whether the write succeeded or not.     *)
Rewind(t) ==
    /\ Flushing(t, "rewind")
    /\ head' = 0
    /\ CASE Current(t).op = "flush" -> Return(t)
         [] Current(t).op = "packet" /\ Overflows(Top(t)) -> Goto(t, "copy")
         [] OTHER -> Goto(t, "release")
    /\ UNCHANGED <<enable, pipeVars, pipe_buffer, locked, registryVars, arena,
                   lifeVars, calls, accepted>>

-----------------------------------------------------------------------------
(* The other steps of the entry points.                                    *)

(* open_pipe and what follows it.  A missing named pipe disables tracing;  *)
(* an open(), or in managed mode a pipe2() or fork(), that fails does not. *)
(* The signal handler goes on only with a pipe, sp_rtrace_initialize goes  *)
(* on in any case.                                                         *)
OpenPipe(t) ==
    /\ Running(t, "open", "start") \/ Running(t, "openinit", "start")
    /\ LET data == Append(WriteInitialData, EnableTracing(1))
           failed == <<Do("nopipe", 0, 0)>> \o
                     (IF Current(t).op = "open" THEN <<>> ELSE data)
       IN  \/ /\ out' = Append(out, <<>>)
              /\ fd_proc' = Len(out) + 1
              /\ UNCHANGED enable
              /\ Continue(t, data)
           \/ /\ "missing" \in OpenFailures
              /\ ~Managed
              /\ enable' = FALSE
              /\ Continue(t, <<EnableTracing(0)>> \o failed)
              /\ UNCHANGED <<out, fd_proc>>
           \/ /\ "error" \in OpenFailures
              /\ Continue(t, failed)
              /\ UNCHANGED <<enable, out, fd_proc>>
    /\ UNCHANGED <<closed, own, bufferVars, registryVars, arena, lifeVars, calls,
                   accepted>>

(* pipe_buffer_reset                                                       *)
Reset(t) ==
    /\ Running(t, "reset", "start")
    /\ head' = 0
    /\ Return(t)
    /\ UNCHANGED <<enable, pipeVars, pipe_buffer, locked, registryVars, arena,
                   lifeVars, calls, accepted>>

(* The loops of write_initial_data over the two registries.                *)
WriteRegistries(t) ==
    /\ \/ Running(t, "modules", "start")
       \/ Running(t, "resources", "start")
    /\ LET step == Current(t)
           count == IF step.op = "modules" THEN modules ELSE resources
           kind == IF step.op = "modules" THEN "MI" ELSE "RR"
       IN  Continue(t, IF step.n <= count
                       THEN <<Packet(kind, step.n, 0),
                              [step EXCEPT !.n = @ + 1]>>
                       ELSE <<>>)
    /\ UNCHANGED <<enable, pipeVars, bufferVars, registryVars, arena, lifeVars,
                   calls, accepted>>

(* Mutant: the last registered module is left out.                         *)
EnableModuleShort(t) ==
    /\ Running(t, "enable", "start")
    /\ LET step == Current(t)
           m == moduleAt[step.n]
       IN  IF step.n >= modules THEN Return(t) /\ UNCHANGED moduleOn
           ELSE /\ moduleOn' = [moduleOn EXCEPT ![m] = (step.id = 1)]
                /\ Continue(t, <<[step EXCEPT !.n = @ + 1]>>)
    /\ UNCHANGED <<enable, pipeVars, bufferVars, initMode, moduleAt, modules,
                   resourceType, resources, arena, lifeVars, calls, accepted>>

(* enable_tracing, one module after the other.  The pagemap module writes  *)
(* its two attachments when it is disabled (kind marks that it has).       *)
EnableModule(t) ==
    /\ Running(t, "enable", "start")
    /\ LET step == Current(t)
           m == moduleAt[step.n]
       IN  CASE step.n > modules -> Return(t) /\ UNCHANGED moduleOn
             [] /\ step.n <= modules
                /\ step.id = 0 /\ moduleOn[m] /\ m \in Attaching
                /\ step.kind # "AT" ->
                  /\ Continue(t, <<Packet("AT", 2 * m, 0), Packet("AT", 2 * m + 1, 0),
                                   [step EXCEPT !.kind = "AT"]>>)
                  /\ UNCHANGED moduleOn
             [] OTHER ->
                  /\ moduleOn' = [moduleOn EXCEPT ![m] = (step.id = 1)]
                  /\ Continue(t, <<[step EXCEPT !.n = @ + 1, !.kind = "HS"]>>)
    /\ UNCHANGED <<enable, pipeVars, bufferVars, initMode, moduleAt, modules,
                   resourceType, resources, arena, lifeVars, calls, accepted>>

(* init_mode = MODULE_READY and sp_rtrace_register_module.  A module that  *)
(* finds the registry full is neither enabled nor disabled ever after.     *)
RegisterModule(t) ==
    /\ Running(t, "register", "start")
    /\ initMode' = [initMode EXCEPT ![Current(t).id] = "ready"]
    /\ IF modules < MaxModules
       THEN /\ modules' = modules + 1
            /\ moduleAt' = [moduleAt EXCEPT ![modules'] = Current(t).id]
            /\ moduleOn' = [moduleOn EXCEPT ![Current(t).id] = enable]
            /\ Continue(t, IF enable THEN <<Packet("MI", modules', 0)>> ELSE <<>>)
       ELSE Return(t) /\ UNCHANGED <<modules, moduleAt, moduleOn>>
    /\ UNCHANGED <<enable, pipeVars, bufferVars, resourceType, resources,
                   arena, lifeVars, calls, accepted>>

(* sp_rtrace_register_resource: a type that is already registered gets the *)
(* identifier it has, one too many gets none.                              *)
RegisterResource(t) ==
    /\ Running(t, "resource", "start")
    /\ IF IdOf(Current(t).id) = 0 /\ resources < MaxResources
       THEN /\ resources' = resources + 1
            /\ resourceType' =
                 [resourceType EXCEPT ![resources'] = Current(t).id]
            /\ Continue(t, IF enable THEN <<Packet("RR", resources', 0)>>
                           ELSE <<>>)
       ELSE Return(t) /\ UNCHANGED <<resources, resourceType>>
    /\ UNCHANGED <<enable, pipeVars, bufferVars, initMode, moduleAt, modules,
                   moduleOn, arena, lifeVars, calls, accepted>>

(* write_heap_info writes a packet only once heap information was stored.  *)
HeapInfo(t) ==
    /\ Running(t, "heapinfo", "start")
    /\ Continue(t, IF arena THEN <<Packet("HI", 0, 0)>> ELSE <<>>)
    /\ UNCHANGED <<enable, pipeVars, bufferVars, registryVars, arena, lifeVars,
                   calls, accepted>>

StoreHeapInfo(t) ==
    /\ Running(t, "store", "start")
    /\ arena' = TRUE
    /\ Return(t)
    /\ UNCHANGED <<enable, pipeVars, bufferVars, registryVars, lifeVars, calls,
                   accepted>>

(* close_pipe(fd_proc), whatever fd_proc is by then; the handler's         *)
(* fd_proc = 0 after it; fd_proc = open_pipe() when open_pipe returns -1.  *)
ClosePipe(t) ==
    /\ Running(t, "close", "start")
    /\ closed' = closed \cup ({fd_proc} \ {-1})
    /\ Return(t)
    /\ UNCHANGED <<enable, fd_proc, out, own, bufferVars, registryVars,
                   arena, lifeVars, calls, accepted>>

ClearPipe(t) ==
    /\ \/ Running(t, "clear", "start") /\ fd_proc' = 0
       \/ Running(t, "nopipe", "start") /\ fd_proc' = -1
    /\ Return(t)
    /\ UNCHANGED <<enable, closed, out, own, bufferVars, registryVars,
                   arena, lifeVars, calls, accepted>>

(* The end of sp_rtrace_initialize: initialize_lock = 2.                   *)
Ready(t) ==
    /\ Running(t, "ready", "start")
    /\ initLock' = 2
    /\ Return(t)
    /\ UNCHANGED <<enable, pipeVars, bufferVars, registryVars, arena, exited,
                   toggles, calls, accepted>>

-----------------------------------------------------------------------------
EntryPoint(t) ==
    \/ Initialize(t)
    \/ \E m \in TracingModules :
          \/ InitializeModule(t, m)
          \/ \E i \in DOMAIN Registers[m] : FunctionCall(t, m, Registers[m][i])
    \/ Dlopen(t)
    \/ CreateContext(t)
    \/ ToggleTracing(t)
    \/ Exit(t)

(* What thread t does once it is inside the library.                       *)
Progress(t) ==
    \/ CheckEnable(t) \/ Lock(t) \/ Unlock(t) \/ CopyCell(t) \/ Release(t)
    \/ WriteSent(t) \/ WriteFailed(t) \/ DisableAfterError(t) \/ Rewind(t)
    \/ OpenPipe(t) \/ Reset(t) \/ WriteRegistries(t) \/ EnableModule(t)
    \/ RegisterModule(t) \/ RegisterResource(t)
    \/ HeapInfo(t) \/ StoreHeapInfo(t) \/ ClosePipe(t) \/ ClearPipe(t)
    \/ Ready(t)

Next == \E t \in Threads : EntryPoint(t) \/ Progress(t)

Spec == Init /\ [][Next]_vars

(* The scheduler runs every thread that can take a step.  The lock is a    *)
(* spin lock: a thread that tries again and again finds it free.           *)
FairSpec ==
    /\ Spec
    /\ \A t \in Threads : WF_vars(Progress(t)) /\ SF_vars(Lock(t))

-----------------------------------------------------------------------------
(* Properties.                                                             *)

OptionTypes ==
    /\ enable \in BOOLEAN
    /\ arena \in BOOLEAN
    /\ exited \in BOOLEAN
PipeTypes ==
    /\ out \in Seq(Seq(Cell))
    /\ own \in Seq(Cell)
    /\ fd_proc \in -1 .. Len(out)
    /\ closed \subseteq 0 .. Len(out)
BufferTypes ==
    /\ pipe_buffer \in [0 .. 2 * BufferSize - 1 -> Cell]
    /\ head \in Nat
    /\ locked \in {0, 1}
RegistryTypes ==
    /\ initMode \in [TracingModules -> {"loaded", "ready"}]
    /\ moduleOn \in [TracingModules -> BOOLEAN]
    /\ moduleAt \in [1 .. MaxModules -> Nat]
    /\ modules \in 0 .. MaxModules
    /\ resourceType \in [1 .. MaxResources -> Nat]
    /\ resources \in 0 .. MaxResources
LifeTypes ==
    /\ initLock \in 0 .. 2
    /\ calls \in 0 .. MaxCalls
    /\ toggles \in 0 .. MaxToggles
    /\ accepted \subseteq Int \X Threads \X Nat
StackTypes == stack \in [Threads -> Seq(Activation)]

(* Every variable keeps its type: the registries never index past their    *)
(* arrays, and fd_proc is a descriptor open_pipe returned, 0 or -1.        *)
TypeOK ==
    /\ OptionTypes
    /\ PipeTypes
    /\ BufferTypes
    /\ RegistryTypes
    /\ LifeTypes
    /\ StackTypes

(* The activation a is between pipe_buffer_lock and the end of             *)
(* pipe_buffer_unlock.                                                     *)
Holding(a) ==
    /\ a.todo # <<>>
    /\ Head(a.todo).op = "packet"
    /\ a.at \in {"unlock", "write", "fail", "rewind", "copy", "release"}

(* However calls, toggle signals and failing writes interleave, at most    *)
(* one activation is between pipe_buffer_lock and the end of               *)
(* pipe_buffer_unlock, and the buffer is locked while one is.              *)
LockExcludes ==
    \A t, u \in Threads : \A i \in DOMAIN stack[t], j \in DOMAIN stack[u] :
        Holding(stack[t][i]) /\ Holding(stack[u][j]) =>
            t = u /\ i = j /\ locked = 1

(* No store leaves pipe_buffer: a packet put at the head fits behind it,   *)
(* and the packet moved to the start ends in the first half.  The unlocked *)
(* pipe_buffer_reset and pipe_buffer_flush of the signal handler included. *)
StoresInBounds ==
    /\ head <= BufferSize
    /\ \A k \in Kinds : head + Size[k] <= 2 * BufferSize

(* s is a sequence of whole packets: each cell that is not the first of    *)
(* its packet follows the one before it, and each that is not the last is  *)
(* followed by the next.                                                   *)
WholePackets(s) ==
    \A j \in DOMAIN s :
        /\ s[j].i >= 1
        /\ s[j].i > 1 => /\ j > 1
                         /\ s[j - 1] = [s[j] EXCEPT !.i = @ - 1]
        /\ s[j].i < Size[s[j].kind] => j < Len(s)

(* The stream of every session starts with a handshake, followed by whole  *)
(* packets, each sent once: what the pre-processor and the binary parser   *)
(* rely on (process_handshake, read_generic_packet).                       *)
StreamsWellFormed ==
    \A k \in Sessions :
        /\ WholePackets(out[k])
        /\ \A j \in DOMAIN out[k] : (out[k][j].kind = "HS") <=> j <= Size["HS"]
        /\ \A i, j \in DOMAIN out[k] : out[k][i] = out[k][j] => i = j

(* A function call names its resource type by number, so the resource      *)
(* registry packet of that number is in the same session before it,        *)
(* whenever and by whichever thread the type was registered.               *)
DeclaredBeforeUse ==
    \A k \in Sessions : \A j \in DOMAIN out[k] :
        out[k][j].kind = "FC" =>
            \E i \in 1 .. j : out[k][i].kind = "RR" /\ out[k][i].id = out[k][j].id

(* The calls of one thread are sent in the order they were made.           *)
CallOrder ==
    \A k \in Sessions : \A i, j \in DOMAIN out[k] :
        /\ i < j
        /\ out[k][i].kind = "FC"
        /\ out[k][j].kind = "FC"
        /\ out[k][i].by = out[k][j].by
        => out[k][i].n <= out[k][j].n

SentCalls(k) ==
    {<<k, out[k][j].by, out[k][j].n>> :
        j \in {i \in DOMAIN out[k] : out[k][i].kind = "FC"}}

(* When a session's pipe is closed, by the toggle signal or at exit, every *)
(* call that was accepted while it was open has been sent through it, and  *)
(* none that was accepted in another session.                              *)
NoLostCalls ==
    \A k \in closed \ {0} : SentCalls(k) = {a \in accepted : a[1] = k}

(* Between calls, whatever toggles, failed opens and late registrations    *)
(* came before: with a session's pipe every registered module traces and   *)
(* the pipe is open; without one no module traces unless the option says   *)
(* so.  (fd_proc = -1 is left out: after an open() that failed the option  *)
(* is set and the next toggle clears it without calling enable_tracing.)   *)
AllIdle == \A t \in Threads : Idle(t)
TracingConsistent ==
    AllIdle /\ initLock = 2 /\ ~exited =>
        /\ fd_proc = 0 /\ ~enable =>
              \A i \in 1 .. modules : ~moduleOn[moduleAt[i]]
        /\ fd_proc > 0 => /\ enable /\ fd_proc \notin closed
                          /\ \A i \in 1 .. modules : moduleOn[moduleAt[i]]

(* Whatever a thread does inside the library, the handler of the toggle    *)
(* signal included, it gets out of it again.                               *)
CallsReturn == \A t \in Threads : []<>Idle(t)

(* "Unlocks pipe buffer": once no activation is between pipe_buffer_lock   *)
(* and the end of pipe_buffer_unlock the buffer is not locked.             *)
LockReleased ==
    locked = 1 =>
        \E t \in Threads : \E i \in DOMAIN stack[t] : Holding(stack[t][i])
=============================================================================
