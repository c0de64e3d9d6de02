# A TLA+ verification of sp-rtrace

sp-rtrace records how a program uses resources (memory, files, shared memory,
objects).  This directory holds TLA+ models of the parts in which several
actors meet, the TLC configurations that check them, and TLAPS proofs.
Paths below are relative to the repository.

## 1. The system

| Part | Source | State | Operations |
|---|---|---|---|
| tracing modules | `src/modules/sp_rtrace_{memory,file,shmposix,shmsysv,memtransfer,gobject,qobject}.c`, `src/rtrace-pagemap/sp_rtrace_pagemap.c` | `init_mode`, the table of functions in use, per-module registries | initialize, wrap a function and report the call, enable/disable |
| main tracing module | `src/modules/sp_rtrace_main.c` | options, `fd_proc`, `pipe_buffer`, its head and lock, module and resource registries | initialize, register, write packets, toggle signal, exit |
| pre-processor, control | `src/rtrace/sp_rtrace.c` | `rtrace_stop_requests`, `fd_in`, the named pipe `/tmp/rtrace-<pid>` | launch (`-x`), toggle (`-t`), listen (`-L`), SIGINT |
| pre-processor, packet loop | `src/rtrace/listener.c` | input and output buffer, cached handshake, mapping cache | read, frame, forward, scan mappings |
| post-processor | `src/rtrace-postproc/` | lists of calls, backtraces, resources | parse, filter leaks, compress, sort, write |
| libraries | `src/library/`, `src/common/` | context registry, lists, hash tables, reference counts | contexts, text records, containers |
| resolver | `src/rtrace-resolve/` | mappings, symbol and name caches, temporary files | name the frames of a text log |
| timeline, allocmap, pagemap | `src/rtrace-*` | per-run only | drawing |

The main module and the tracing modules are preloaded into the traced process,
and every thread of it calls them.  The main module sends packets through a
pipe to the pre-processor.  In the usual mode this is a named pipe which the
pre-processor creates; in managed mode the main module starts the pre-processor
itself.  The pre-processor forwards the packets to a file or to the
post-processor, adding memory mapping packets.

What is hard here: all threads share one buffer under a spin lock; the toggle
signal interrupts them anywhere and its handler works on the same buffer,
partly without the lock; a failed write turns tracing off from inside a flush;
packets are cut by reads; mappings change while they are scanned; two or more
processes and a user set a session up and down through signals and the
existence of a file.  `PROJECT.json` lists these hazards line by line.

What makes the parts correct:

* main module: a session's stream is a handshake followed by whole packets;
  what a call refers to is declared before it; the order of each thread's calls
  is kept; no accepted call is lost; the buffer is never overrun; every call
  returns; only the pipe is written to and closed.
* packet loop: it never loses the packet boundaries, forwards each packet once
  and in order, announces each change of the executable mappings, and ends when
  the process closes the pipe.
* control: the named pipe tells whether the process traces; each reader gets
  one whole session; nobody is left waiting.
* tracing modules: what the program holds is in the leak report, and nothing
  else is, though each wrapper reports after the fact and holds no lock; the
  calls that backtrace() makes are not traced; every library gets started, in
  whatever order they call each other.
* post-processor: it is known what of a trace its text log keeps, a call is reported
  as a leak exactly if nothing frees it later, totals agree with the calls
  listed; the container behind it is a plain log of calls.
* libraries: chunks of the emulation heap do not overlap, contexts of threads
  do not mix; the resolver names each frame from its own mapping, in place.

## 2. Modules

| Module | Models | Checked by |
|---|---|---|
| `MainModule` | the main module with the threads and the signal | `MCMainModule` |
| `MainModule_proof` | types, memory safety of `pipe_buffer`, mutual exclusion of its lock, agreement of pipe, option and modules | TLAPS |
| `MainStreams_proof` | the streams: calls in order and none lost, types declared, whole packets sent once | TLAPS |
| `Listener` | the packet loop with the pipe and the output | `MCListener` |
| `Listener_proof` | framing, buffers and order of the packet loop, memory mapping packets | TLAPS |
| `Session` | launcher, togglers, named pipe, the process's handler | `MCSession` |
| `Session_proof` | one reader, one whole session, for any number of togglers | TLAPS |
| `ModuleInit` | how the tracing libraries start and register | `MCModuleInit` |
| `ModuleInit_proof` | declared resource types, consistent switching | TLAPS |
| `Interposer` | how a call passes the libraries, `backtrace_lock` | `MCTracers` |
| `HeapTracer` | memory, memory transfer and QObject modules | `MCTracers` |
| `FileTracer` | file module | `MCTracers` |
| `GObjectTracer` | GObject module | `MCTracers` |
| `MCTracers_proof` | racing wrappers against the leak report; backtrace() is not traced, originals are known | TLAPS |
| `ShmPosix`, `ShmSysV` | the shared memory modules | `MCSharedMemory` |
| `ShmReport_proof` | the shared memory modules against the leak report | TLAPS |
| `LeakFilter` | one record through `filter_leaks` | with the tracers and `PostProc` |
| `PostProc` | readers, filters, writer and text reader | `MCPostProc` |
| `CallLog` | what the trace data container promises | refined by `RtraceData` |
| `RtraceData`, `DList`, `HTable` | the container, its lists and its table | `MCSupport` |
| `EmuHeap` | the emulation heap of the memory module | `MCSupport` |
| `CallContext` | call contexts and their mask | `MCSupport` |
| `Resolver` | sp-rtrace-resolve | `MCSupport` |
| `Induction` | induction over numbers and sequences, for the proofs | TLAPS |

A run that has several modules without common state chooses one of them in the
initial state (`part`, `api`) and leaves the others alone.

### MainModule

A thread is a stack of activations, outermost first: the call it has made and
above it the signal handler or `enable_tracing` called by a failing flush.  An
activation is the list of steps it still has to take (`todo`) and the place
inside the first of them (`at`).  A step is a packet to write or one of the
other statements of the entry points; `WriteInitialData`, for example, is the
list of steps of `write_initial_data`.  One action moves one activation past one
access to shared state: `CheckEnable` (the early return), `Lock`
(`pipe_buffer_lock` and composing the packet), `Unlock`, `WriteSent` /
`WriteFailed` / `DisableAfterError` / `Rewind` (`pipe_buffer_flush`), `CopyCell`
and `Release` (the rest of `pipe_buffer_unlock`), `OpenPipe`, `EnableModule`,
`RegisterModule`, `RegisterResource`, and so on.  Entry points are `Initialize`,
`InitializeModule`, `FunctionCall`, `Dlopen`, `CreateContext`, `ToggleTracing`
and `Exit`.  `TakeInitializeLock` is one step: the lock, the check of the environment
and the reading of the options, which no packet depends on, are separate steps in
`ModuleInit`.

The buffer holds cells, each labelled with its packet and position, so that a
torn, repeated or lost packet shows in what `write()` sent.  `out[k]` is the
stream of the k-th session, `own` what went to descriptor 0, which `fd_proc` is
when there is no session.  The three packets of a function call (call,
arguments, backtrace) are written under one lock and are one packet here.

The environment has two settings.  With `Quiescent` false nothing is assumed:
signal, initialization and exit may interrupt anything.  With `Quiescent` true
they happen while no thread is inside the library.  The code does nothing to
ensure that; the stream properties hold only then, and the `main_lock` run shows
one way in which they fail otherwise.

### Listener

The traced process writes whole packets, at most `BufferSize` cells at a time
(that it does so is what `MainModule` shows), atomically; reads return any
prefix the sizes allow.  `process_data` is cut at its reads and packets.
`process_packet` is one action with the cases output settings, new library and
the rest.  When `ptr_in` would not be at the start of a packet, the header found
there is any type and length.  A cell names its packet by the write and the place
in it, so that `ForwardedInOrder` is an equation of sequences: what is passed on,
without the mapping packets, is what was sent up to the packet reached, without
the new library packets.  A mapping is a range of addresses and a module
name, and `Layouts` lists the contents `/proc/<pid>/maps` may have.

### Session

Each `sp-rtrace` instance is a program counter through `start_process` or
`toggle_tracing`, `begin_tracing` and the cleanup; the process has the places of
its handler and constructor.  Named pipes are numbered, since a pipe that is
removed and created again is another pipe; `open()` waits for the other side,
and who opens second lets the first go on.  A toggle signal that arrives while
one is pending is merged with it; before the handler is installed it terminates
the process, and so does a write without a reader (SIGPIPE).  `Serial` describes
a user who waits until a command has had its effect.

### The tracing libraries and the leak filter

Every wrapper calls the original function and reports it afterwards; nothing
orders the two with the calls of other threads.  In `HeapTracer`, `FileTracer`,
`GObjectTracer`, `ShmPosix` and `ShmSysV` a call is therefore a short program of
steps of its thread: the original function, changes of the library's own
registries, the report.  A report goes through `RemoveFreed` of `LeakFilter`, one
pass of `fcall_remove_freed`, so that the variable that holds its result is always
the leak report of the trace so far.  Two kinds of property relate it to what
the program holds.  One is unconditional: what is held is reported.  The other
says that the report is exact, and holds unless an address or a descriptor was
given out again while its release was still unreported; that happens in the
code, and the models record it in a variable (`raced`) instead of excluding it.
`stolen` is the part of it where the release has no allocation in the trace, for
which even the first property fails: the late report takes the new owner's
allocation out of the list.

`HeapTracer` marks the report of a destructor that leaves the memory under the
object to its caller (`leaves`): the object is gone and its address is not yet
free, so that the block may be released, or another object built in it, while
the report is pending.

`FileTracer` has in addition the types `rt_fds` keeps of descriptors.
`DescriptorTypes` says what remains true of them; the code gives a wrong type to

* descriptor 0, which `trace_close` marks as closed whatever it closes: it writes
  to the entry of the return value (`sp_rtrace_file.c:429`);
* duplicates: `trace_dup_common` reads the type of the source from `rt_fds` after
  the original `dup()` has returned (`sp_rtrace_file.c:449`), and what it finds is
  wrong when another thread has closed the source in between or opened it as
  something else, when the source is descriptor 0 after a close, when it is
  under a stream (`fopen` notes no type, `fdopen` the type closed), and when it is
  such a duplicate itself.

`Misread` is this list and `mixed` has the duplicates it applies to.  Those are
excepted, and descriptor 0 may be marked as closed; any other descriptor the
program opened has its type or, as a duplicate of an inherited one,
`FD_TYPE_UNKNOWN`.  Closing or replacing a descriptor under its stream, and the
use of a socket by another thread during its `bind` or `connect`, are left out.
`ReportIsExact` excepts in addition to `raced` the resources that a call released
without a report (`silent`: a `close` or `pclose` that returns an error,
`fcloseall`).

`ShmPosix` has the registries of descriptors, addresses and names, `ShmSysV` the
attachment counts, which another process changes too.  `shmget` is reported only
with `IPC_CREAT` (`sp_rtrace_shmsysv.c:231`): a segment that the key `IPC_PRIVATE`
makes without the flag (`ShmgetPrivate`) is the process's own and never in the
trace, and `SegmentsAreReported` says so.  Resources are model values; path
names, sizes and arguments are left out.

`Interposer` is the way of one call through the preloaded libraries: which of
them define the function, which wrap it in `BT_EXECUTE_LOCKED`, which function
table each uses, what the C library's function calls in turn, and what
`backtrace()` calls when a library writes the call.

`ModuleInit` is the start: constructors, first calls from any thread, the
`initialize_lock`, the reading of the environment and of the process name (which
opens a file and so enters the libraries again), registration.  A thread is a
stack of calls of `trace_initialize`; a call that opens a file passes the
libraries in their order (`passed`).  `TracingConsistent` needs room in the table
of modules: `sp_rtrace_register_module` returns 0 when the table is full, without
switching the library, and `enable_tracing` does not reach it either.

### Post-processor

`PostProc` is `main` of sp-rtrace-postproc as a sequence of stages: the binary
packets, one action each; the filters in the order of the code; the leak totals;
the text, plain or compressed; and the text reader on that text.  A call is a
record of its type, resource, context, timestamp, arguments and backtrace, a
line of text the record it stands for.  `read_packet_*` give the rule to which
call arguments and backtraces belong.

An argument value, the name of a mapping and the path of an attachment are
sequences of words.  They are printed as they are and read with `%s`, that is by
words: a value or a path with a blank comes back as its first word, a mapping
with a blank is not recognized, and a value without a word does not match the
format of an argument.  A line that matches nothing is a comment, and a comment
between a call and its frames ends the call with an empty backtrace.
`TextReadsBack` states exactly this loss (`ShownCalls`, `ShownRecords`) and that
nothing else is lost.  The findings say which values the libraries write that it
concerns.

### Trace data

`RtraceData` works on lists and a hash table whose nodes have the links of
`dlist.c` and `htable.c` (`DList`, `HTable`; removal, sorted insertion and the
merge sort of `dlist_sort` are translated link by link), and on reference counts.
`CallLog` has one variable, a sequence of calls with their backtraces, to which a
call is appended, a backtrace given, from which a call is removed, and which is
sorted stably.  The refinement maps the container to the sequence of its call
list with the backtrace each call points at; `ImplementsCallLog` is `CallLog`'s
specification as a property.

### Support

`EmuHeap` has real addresses, so that alignment, the size word and the return of
the last chunk are as in the code; the content of a chunk is one owner per byte.
`CallContext` splits the read and the write of the mask.  `Resolver` has the
sorted array and its bisection, the symbol cache (one record or one per module),
the name cache with its slots, and the three modes with the temporary files of
the multi-pass one; BFD's symbol lookup is external.

## 3. Runs

| Run | Result | What it shows |
|---|---|---|
| `main_quiescent` | pass | `StreamsWellFormed`, `DeclaredBeforeUse`, `CallOrder`, `NoLostCalls`, `TracingConsistent`, `CallsReturn`: the streams of up to three sessions with two threads |
| `main_free` | pass | `TypeOK`, `LockExcludes`, `StoresInBounds` with interruption anywhere and failing writes |
| `main_lock` | violated | the buffer can stay locked for ever (`pipe_buffer_unlock`'s early return) |
| `main_deadlock` | violated | a failed flush with the pagemap module enabled waits for its own lock |
| `listener` | pass | `Synchronized`, `BuffersFit`, `ForwardedInOrder`, `DrainedAtEnd`, `MapsAnnounced`, `Terminates` |
| `session` | pass | `PipeTellsState`, `OneReader`, `WholeSessions`, `HandlerReturns`, `ToolsEnd` for a user who waits |
| `session_toggle` | violated | a toggle before the old pipe is removed leaves the process in its handler |
| `tracers` | pass | `HeldIsReported`, `ReportIsExact`, `DescriptorTypes`, `BacktraceIsNotTraced`, `OriginalsKnown`: racing wrappers against the leak report, and the calls of backtrace() |
| `shm` | pass | `AddressIsReported`, `PosixReportIsExact`, `ObjectsHaveOwnIds`, `SegmentsAreReported` |
| `init` | pass | `TracingConsistent`, `CallsDeclared`, `EventuallyStarted`: the start of three libraries in two threads |
| `support` | pass | `ImplementsCallLog` (refinement), `TableHoldsTheCalls`, `ChunksIntact`, `ContextsKeptApart`, `ResolvedInPlace` |
| `postproc` | pass | `TextReadsBack`, `LeakReportIsExact`, `TotalsAreOfTheirType` |

A violated run states what a comment, message or document of the repository
says and shows that the code does otherwise; `PROJECT.json` quotes the line.
Findings without a run were met while modelling.  Some can be seen by changing a
constant: `BuffersFit` fails with `WriteMayFail` true in `MCListener.cfg` (a full
disk overruns the output buffer), and `MapsAnnounced` with a layout in which one
mapping covers two others, or with layouts in which one touches two others.

Some properties of passing runs are stated with an exception because the code
does the wrong thing in the excepted case: `fd_proc = -1` in `TracingConsistent`
of `MainModule`, `overlapped` in the start of the libraries, `raced`, `stolen`, `silent`,
`mixed`, `confused`, `clashed` and `overtaken` in the tracers, `raced` in
`CallContext`, a tool that waits in `open()` in `ToolsEnd`, and a user who does not
wait (`Serial` false, where `PipeTellsState` and `OneReader` are violated).  What
the property shows is that the damage is confined to that case.  The hazards in
`PROJECT.json` say for each which part of it is caught and which is excepted.

### Bounds

* `main_*`: a buffer of 3 cells (4096 bytes in the code), function calls of 2
  cells and other packets of 1: the initial data of a session already overflows
  it, and calls straddle its middle.  Two threads, since the
  lock and the order of calls are about pairs; one tracing module with one
  resource type; two calls and two toggle signals give up to three sessions.
  `main_free` has one call and one signal, and compares states without the
  contents of the buffer and the streams (`ControlView`), which no action's
  guard and none of its invariants reads.
* `main_quiescent` leaves writes to an open pipe alone (failures come from the
  descriptor -1 of a failed open) and has no module that writes attachments:
  that case is `main_deadlock`.
* `listener`: buffers of 4 cells, function calls of 3: packets end in the
  middle of a read at every offset.  Four writes, three layouts, two SIGINTs
  (`REQUEST_STOP` is 2).  The layouts add, touch and replace mappings.
* `session*`: a launcher and up to three togglers, three signals by the user,
  one write of calls: stop, start and stop again in every combination.
* `tracers`, `shm`: two threads (three for reference counts) and one or two
  addresses or objects, since a race is between two holders of one resource;
  descriptors 0 and 1, of which 0 is inherited, two types of them and one stream:
  both may be closed and opened again as the other type, and each may be a
  duplicate of the other or under the stream.  `MaxLeft`, `MaxRaced` and
  `MaxAstray` bound the calls left over by known races, not the number of calls:
  one heap resource and one descriptor or stream may be raced in a behaviour, and
  only descriptors are opened again under an unreported release.  Resources do
  not influence one another's entry of the filter, and the theorems of
  `MCTracers_proof` hold without these bounds being small.
* `init`: three libraries are the smallest case in which a library that emulates
  its functions, one that is entered by `open`, and one that is neither meet.
* `support`: five calls let `dlist_sort` merge segments of two and three; two
  backtraces in one bucket; a heap that three chunks can exceed, at an aligned
  and at an odd address; three threads and room for two contexts; logs of up to
  three mappings, two of them touching, and three frames, whose addresses share
  slots of the name cache.
* `postproc`: traces of up to three calls, the shortest with an allocation, its
  release and a bystander, or with two calls that share a backtrace and one that
  has none; three resource types, the third with an id that is not a power of
  two; eight option sets that combine every filter with those it affects.  One
  call of a trace has a context or arguments, whose first value is a word, two
  words or empty, and the others may share its backtrace; a mapping or an
  attachment with such a name comes with two calls.

### Fairness

* `MainModule`: weak fairness for each thread inside the library (the scheduler
  runs it) and strong fairness for taking the lock.  The second is stronger than
  what a spin lock guarantees in theory; the lock is held for a bounded number
  of steps and is not handed over by the code, so that a thread that never gets
  it would need the others to call without end.
* `Listener`: the pre-processor runs.  Nothing is assumed of the process.
* `ModuleInit`: a thread inside the start of a library goes on, and the loader
  runs the constructors.  Nothing makes the program call a traced function.
* `Session`: each process runs; the user, the calls, exit and termination are
  never forced.

Deadlock checking is off: programs end, users stop.

## 4. Proofs

What TLC shows for one instance, these theorems show for every value of the
constants.  Each states a property that a run checks.

| Module | Theorem | Property |
|---|---|---|
| `MainModule_proof` | `TypeCorrect`, `StoresSafe`, `LockExclusion`, `TracingStaysConsistent` | `TypeOK`, `StoresInBounds`, `LockExcludes`, `TracingConsistent` |
| `MainStreams_proof` | `CallsStayInOrder`, `NoCallIsLost`, `TypesAreDeclared`, `StreamsStayWellFormed` | `CallOrder`, `NoLostCalls`, `DeclaredBeforeUse`, `StreamsWellFormed` |
| `Listener_proof` | `PacketsAligned`, `NoOverflow`, `StreamIntact`, `NothingLeftBehind`, `MapsStayAnnounced` | `Synchronized`, `BuffersFit`, `ForwardedInOrder`, `DrainedAtEnd`, `MapsAnnounced` |
| `Session_proof` | `ReadersApart`, `PipeIsSession`, `SessionsWhole` | `OneReader`, `PipeTellsState`, `WholeSessions` |
| `ModuleInit_proof` | `ResourceTypesDeclared`, `StartedAsOptioned` | `CallsDeclared`, `TracingConsistent` |
| `MCTracers_proof` | `NoLeakMissed`, `NoFalseLeak`, `TypesAreRight`, `BacktraceGuarded`, `OriginalsFound` | `HeldIsReported`, `ReportIsExact`, `DescriptorTypes`, `BacktraceIsNotTraced`, `OriginalsKnown` |
| `ShmReport_proof` | `SysVReport`, `PosixAddresses`, `PosixExact`, `PosixObjects` | `SegmentsAreReported`, `AddressIsReported`, `PosixReportIsExact`, `ObjectsHaveOwnIds` |

### Main module

For any set of threads, any buffer size, any packet sizes not above it and any
registries.  Neither `TypeOK` nor `StoresInBounds` is inductive.  The invariant
is `Inv == TypeOK /\ Busy /\ HeadFits`: `Busy` says that an activation on a stack
has something left to do (so that the step an action looks at exists), and
`HeadFits` that the head is at most `BufferSize`.  The interesting case is
`CopyCell`, which moves a packet cell by cell while the signal handler of another
thread may reset the head: it adds a cell only while the head is below the
packet's size, which is at most `BufferSize`, whatever else happens to the head.

Mutual exclusion follows from the same invariant and itself: an activation
enters only through `Lock`, which needs `locked = 0`, and `locked` is only
cleared by an activation that holds it.  The early return of
`pipe_buffer_unlock` weakens liveness (the `main_lock` run) but not exclusion.

`TracingStaysConsistent` has two hypotheses besides, `Quiescent` (toggle signals,
starts and exit come while no call is in progress) and `~WriteMayFail` (a write
to an open pipe works; open_pipe may fail in every way the model knows).  Neither
can be dropped.  A signal that arrives during a start interleaves two
`enable_tracing` loops, and when the flush of `write_initial_data` fails the
library has cleared `fd_proc` and the option, and then goes on to
`enable_tracing(true)`: with `WriteMayFail` true in `MCMainQuiescent.cfg` TLC shows
the modules on without a pipe.  The inductive invariant is
`Calm == Inv /\ LockExcludes /\ Shape /\ Control`:

* `Shape`: a thread that initializes, handles the signal or exits is alone in the
  library; a thread has at most two activations, the second being the
  `enable_tracing(false)` of a flush that failed; and the steps an activation
  still has to take come in the order of their ranks.  The rank of the step a
  thread is at tells which steps are over, so that the rest of a sequence can be
  spoken of as a set.
* `Control`: what the pipe, the option and the modules may be (`Standing`) and what
  each remaining step promises about them (`Doing`).  For example, tracing that is
  on without a pipe has an open step left; a pipe with the option off has a clear
  step left; a loop of `enable_tracing` that is at module n has switched all the
  modules below n; while a failed flush is being handled `fd_proc` is -1 and
  either all modules are off or the loop that disables them is still there.

`LockExcludes` is part of it because two threads must not be inside a failing
flush at once: the second could see the modules that the first is disabling.

`CallsStayInOrder`, `NoCallIsLost`, `TypesAreDeclared` and
`StreamsStayWellFormed`, in `MainStreams_proof`, have the same two hypotheses and
build on `Calm`.  What is sent of a session and what the buffer holds is one
sequence,

    Stream == IF Moving THEN out[fd_proc] ELSE out[fd_proc] \o Content

where `Moving` says that a flush has written the buffer and not yet put its head
back, or is moving the packet that did not fit to the start of the buffer.  A
step of thread t (`Streams(t)`) leaves `Stream` alone, or appends to it all the
cells of the packet t is writing, or makes it empty (`pipe_buffer_reset`).  A
write to the pipe is of the first kind: it moves the buffer into `out`.  So the
buffer, the overflow path and the flush are dealt with once, and a property of
the streams is a property of whole packets appended to `Stream`.  This needs

* `Holds`: until its packet is part of `Stream`, a thread that writes one finds
  its cells where `pipe_buffer_unlock` will look for them, behind the head or, in
  the loop that moves them cell by cell, on both sides of the gap (the source and
  the target of the move may overlap);
* `Fresh`: the session whose buffer is still to be reset has sent nothing.

For the order, `StreamOrder` says that the calls in `Stream` are in the order of
each thread and that a call a thread has yet to append is later than those.
For `NoLostCalls`, `StreamSent` says that while the pipe is open the calls
accepted in the session are exactly those in `Stream` and those accepted and not
yet appended; `Numbered` and `Unused` say that a new session starts without calls;
`Closing` says that the thread that will close the pipe has a flush to do before,
or has done it and has nothing else to do, with the head at the start.  When it
closes the pipe it is alone, so that nothing is on the way, and `Stream` is what
was sent.  A closed session gets no calls since tracing is off by then.

For `DeclaredBeforeUse`, `Registry` says that a module that traces is registered,
that its types have numbers or its thread is about to give them, and that no two
numbers have one type; by then `Named`, that a call on its way names a type with a
number.  `Declaring` says that in a session with tracing enabled the declaration
of each such type is in `Stream` or `Announced`: a thread has a packet or a rest of
`write_initial_data`'s loop before it which will add it.  `Opened` gives this at
the start of a session, when `Stream` is empty.  A thread that announces a type is
not in a call, and then no other thread is in one, so that a call which is appended
finds the declaration in `Stream`.  This theorem has a third hypothesis,
`RoomForTypes`: `rtrace_resources` has an entry for every type the modules have.
Without it a type gets no number and its calls are reported with the number 0.

For `StreamsWellFormed`, `Whole` (the packets of `Stream` are whole) follows from
`Streams` alone.  `Greeting` says that `Stream` is empty and a thread, which is then
the only one that does anything, is about to append the handshake, or that it
starts with the handshake and no thread has another to append.  That no packet is
sent twice is the hard part.  `Sole` says that the cells of `Stream` differ, and
that the packets a thread has yet to append are not in it; but a packet that a
loop is about to make must also be new.  `Ahead` therefore speaks of the packets
nobody has made (`Future`): those of modules and types with numbers that are not
given out yet or that a loop of `write_initial_data` has yet to reach, those at
the end of the session as long as neither the toggle nor exit has begun it, and
the attachment reports of the modules that are still to be switched off.  None of
them is in `Stream` or waiting to be appended.  A loop and a registration do not make
the same packet, since a thread registers a module after the loops of the start it
is part of and no other start or toggle runs meanwhile; the end of a session is
made once because nothing else enters the library during a toggle or at exit.

Assumptions: `BufferAssumption` (no packet is larger than `BUFFER_SIZE`; the code
relies on this and does not check it), `RegistryAssumption`, `OptionAssumption`.

### Packet loop

For any buffer size, any packet sizes up to it, any writes and any cuts by reads
and SIGINT.  `ListenerInv` says that the cells of the process are those handled
(`d`) followed by those in the input buffer and the pipe, and that the latter are
a sequence of whole packets (`Aligned`).  Hence less than one packet stays in the
buffer when the loop goes back to reading, a read of `BUFFER_SIZE` fits behind
it, and nothing is left when the pipe is empty, which is when a read can wait and
be interrupted.  `OutputInv` relates the output, its buffer and the cached
handshake to `d`.

Assumptions: `SizeAssumption`; `WritesAssumption` (a stream begins with a
handshake and the output settings, in one write, and has no others, which is how
`write_initial_data` begins); and `Reliable`: output can be written, and, when it
is not buffered, connected.  Without the last the properties are false (a full
disk overruns the output buffer, see the findings).

`MapsStayAnnounced` is about any sequence of layouts and adds `MapsInv`: what the
cache has, and what the last scan found, is `Announced` (the last packet for one of
its addresses is its own), and the cache has no two mappings that overlap or touch
(`Grouped`).  A scan keeps this line by line (`LineKept`): when a line is not the
first entry that overlaps or touches it, that entry is taken out, and no other one
can share an address with the packet that is written.  This needs `InGroups`:
mappings are not empty, those of one scan do not overlap, and overlapping or
touching is transitive among the mappings of all scans.  The layouts of the run
satisfy it; without it the property is false (see the findings).  The scan is a
recursive function over the lines, whose values `ScanLoop` gives by induction.

### Sessions

For any number of togglers, pipes, signals and calls of a user who lets each
command take effect (`Serial`; the `session_toggle` run shows what happens
otherwise).  The properties speak of settled states or of two readers, and say
nothing of the states between.  `SessionInv` has, for each place a tool can be
at, what the traced process is doing meanwhile (`Phase`), and that at most one
tool is on its way to a pipe and at most one has one.  `DataInv` adds what a tool
has read and what is in its pipe: a session from its start, cut nowhere.
`SessionsWhole` assumes in addition that `REQUEST_STOP` is above 1 (it is 2,
`src/rtrace/sp_rtrace.h:86`; with 1 the SIGINT that asks for the end of the
session would also cut off what the process still writes) and that there are
finitely many togglers.

### Start of the libraries

For any libraries in any order, any threads and any size of the module table.
`DeclaredInv`: a library that reports calls is known to the reader or inside its
registration, and what is known is declared.  `StartInv` describes the stacks of
nested starts: below the top of a stack are only starts that are reading the
process name or the size filter, at most one call is inside
`sp_rtrace_initialize` and the options are unread before it reads them, and a
library in the table is switched as the option says or will be, by its own start
or by `write_initial_data`, which a call on a stack still has to reach.  Both properties except the
behaviours in which a thread entered a library while another was starting one
(`overlapped`), since registration takes no lock; that hazard is listed.

### Calls of backtrace()

For any preloaded libraries of sp-rtrace in any order and any nesting.
`CallsInv` describes the stack of calls: `backtrace_lock` is set exactly while
one of them takes a backtrace, all calls above it and no others are
`backtrace()`'s, and those are of functions that `BT_EXECUTE_LOCKED` guards in
every library that traces them.  Assumption: `CallsAssumption` (of the traced
functions, `backtrace()` calls only guarded ones).

### Leak report

For any number of threads, addresses, objects, descriptors and streams, though a
report comes after the call and nothing orders those of two threads.

Heap resources, descriptors and streams have the same kind of invariant, a
ledger of each resource.  `own` are the threads that still have to report the
release of a resource whose allocation the trace has, `ext` those with a release
that has none, `tak` those with an allocation to report.  `Clash`: a resource is
given out under an unreported release only if it is marked so.  `Books`: the
report has a call for everybody who holds the resource or has still to report
its release, and when there are two of them and the filter's index refers to one
call, there are two calls, so that the late release takes only one of them.  This
last part is what `HeldIsReported` needs and does not say: `fcall_remove_freed`
forgets the index of the earlier call and keeps the call.  The lemmas about the
ledger are proved once, for sets and one filter entry, and used for both tracers.

`FileInv` adds the kernel's view (what is free is nobody's; the descriptor under
a stream is the stream's), who has which resource while a wrapper runs (`Taken`),
and for each descriptor that its noted type is right, or that of descriptor 0
closed, or a wrapper that has the descriptor will still write it (`Typed`).  The
last part is also why the stray writes of `trace_close` to entry 0 do no more harm:
they write the type closed and nothing else.  `ObjectsInv` counts: the references of
an object are those held and those being reported (`Takers`), the filter's count
is the held ones and those whose release is not written (`Droppers`).
`ReportInv` is the one of the part that runs.

Assumptions: `ThreadsAssumption` (finitely many threads, for counting),
`FilesAssumption` (descriptors are numbered from 0, and the names the model uses
for owners, free descriptors and the stream -1 are not names of threads, types
or streams).

### Shared memory

For any number of threads, descriptors, addresses, names and segments.  A thread
carries the rest of its wrapper as a list of steps; the proof first shows that
such a list is always one of a few (`Prog`, `PProg`), told apart by its first
step, so that the invariants can speak of what a thread is about to do.

System V (`SysVInv`): of the threads at one address one at most attaches and one
at most detaches (`PlacesApart`); the report has a call for the attachment and for
each detach that is not reported (`PlaceCounted`); `addr2shmid` knows an own
segment between the two (`PlaceKnown`); a segment marked for removal that exists
is attached (`SegLife`); and, as long as nobody overtook the thread, the count of
attachments it read is still the count (`Watch`), which is why the one thread that
sees the last attachment go, and no other, reports the end of the segment.

POSIX (`PosixInv`): `FdInv` and `MapInv` are ledgers like those of the leak report:
a call for the mapping and one for every `munmap` not reported yet, whatever their
types.  Names have no ledger of their own, since a call is reported under an id
that another name may share; `IdInv` therefore counts over all names of an id, and
`NameInv` covers names that have none yet.  That `nreg_calc_hash` finds a free id
is the pigeonhole principle and the least element of a set of numbers.

Assumptions: `ProcessAssumption` and `SysVAssumption` (finitely many threads, names
and addresses, for counting; descriptors, addresses and the value for "none" are
different).  The first attempt at the proof showed that two guards of a CASE in
`ShmPosix` overlapped, so that `busy` after a wrapper's last step was left to the
evaluation order; they are disjoint now.

### What is not proved

Facts about sequences of any length (that a filtered concatenation is the
concatenation of the filtered parts, for example) need induction over data.
`Induction` derives it from the least element of a set of numbers; each use
defines the set of the lengths for which a fact holds.  This serves functions
defined by recursion, such as `Sent` and those inside `Without`; it does not reach
RECURSIVE operators.

Only model-checked:

* all liveness properties (`CallsReturn`, `Terminates`, `HandlerReturns`,
  `ToolsEnd`, `EventuallyStarted`), since TLAPS does not handle fairness here;
* the post-processor, the contexts, the emulation
  heap and the resolver;
* the container and its refinement: `DList`, `HTable` and `RtraceData` walk linked
  lists with RECURSIVE operators, which TLAPS cannot use.

## 5. Not modelled

* Managed mode's daemon, listen mode, `--follow-forks`, option parsing and the
  environment handling of the pre-processor.
* The characters of packets and text lines beyond the words of argument values and
  names, lines longer than the reader's buffer (4096 bytes, after which `fgets`
  goes on with the rest as a line of its own), timestamps beyond their order and
  their wrap at midnight.
* Context records in `TextReadsBack`: the text reader does not keep them (see
  the findings).
* Overlapping mappings, and two mappings of files with one base name, in the
  resolver: with the first the bisection may miss, with the second the temporary
  files of the multi-pass mode collide.
* `close_pipe`'s `wait()` and the traced program's own children and signal
  handlers.  A pipe is never full: a write to it does not wait.
* The tracker of the trace file library and the drawing tools: they read a file
  once and keep no state that several actors share.

## 6. Plan

1. Proofs: the lock and numbering part of `ContextsKeptApart`.
2. An abstract session channel (accepted calls delivered in order, once) which
   `MainModule` with quiescent signals implements.
3. Registration in `MainModule` split into its steps; managed mode in `Session`.
