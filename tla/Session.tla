------------------------------ MODULE Session ------------------------------
(***************************************************************************)
(* How a tracing session is set up and torn down without managed mode: the *)
(* sp-rtrace instances of src/rtrace/sp_rtrace.c (one that launched the    *)
(* process, others run to toggle its tracing), the named pipe              *)
(* /tmp/rtrace-<pid> they share with it, and the part of the traced        *)
(* process that reacts, open_pipe and signal_toggle_tracing of             *)
(* src/modules/sp_rtrace_main.c.                                           *)
(*                                                                         *)
(* A named pipe that is removed and created again is another pipe: pipes   *)
(* are numbered, and path is the number of the one that has the name.  A   *)
(* session's data is a "hello" (write_initial_data), calls and a "bye".    *)
(***************************************************************************)
EXTENDS Integers, Sequences, FiniteSets

CONSTANTS
    Launcher,      \* the sp-rtrace -x instance
    Togglers,      \* the sp-rtrace -t instances the user may run
    Start,         \* rtrace_options.start (-s)
    RequestStop,   \* REQUEST_STOP
    Serial,        \* environment: see UserMay
    ChildMayFail,  \* environment: see ChildFails
    MaxSignals,    \* bound: SIGINTs and toggle signals the user sends
    MaxCalls       \* bound: writes of the traced process during sessions

Tools == Togglers \cup {Launcher}

ASSUME SessionAssumption ==
    /\ Launcher \notin Togglers
    /\ RequestStop \in Nat \ {0}
    /\ {Start, Serial, ChildMayFail} \subseteq BOOLEAN

VARIABLES
    proc,      \* the traced process: "none", "child" (between fork and exec),
               \* "loading" (in the constructors), "running" or "gone"
    killed,    \* it was terminated without running its destructors
    pending,   \* the toggle signal is pending
    enable,    \* sp_rtrace_options->enable
    at,        \* where its signal handler or constructor is
    wait,      \* the pipe its open() waits for
    fd_proc,   \* its end of a pipe, 0 or -1
    path,      \* the pipe that has the name /tmp/rtrace-<pid>, 0 when none
    made,      \* how many pipes have been created
    pipe,      \* pipe[n]: the data in pipe n
    pc,        \* pc[i]: where tool i is
    fd_in,     \* fd_in[i]: its end of a pipe, 0 or -1
    stops,     \* stops[i]: its rtrace_stop_requests
    got,       \* got[i]: the data it has processed
    signals, calls

vars == <<proc, killed, pending, enable, at, wait, fd_proc, path, made, pipe,
          pc, fd_in, stops, got, signals, calls>>
procVars == <<proc, killed, pending, enable, at, wait, fd_proc>>
fifoVars == <<path, made, pipe>>
toolVars == <<pc, fd_in, stops, got>>
bounds   == <<signals, calls>>

MaxPipes == Cardinality(Tools)

Init ==
    /\ proc = "none"
    /\ killed = FALSE
    /\ pending = FALSE
    /\ enable = FALSE
    /\ at = "idle"
    /\ wait = 0
    /\ fd_proc = 0
    /\ path = 0
    /\ made = 0
    /\ pipe = [n \in 1 .. MaxPipes |-> <<>>]
    /\ pc = [i \in Tools |-> IF i = Launcher THEN "fork" ELSE "none"]
    /\ fd_in = [i \in Tools |-> 0]
    /\ stops = [i \in Tools |-> 0]
    /\ got = [i \in Tools |-> <<>>]
    /\ signals = 0
    /\ calls = 0

-----------------------------------------------------------------------------
(* The environment.  A user who waits, when Serial, does nothing before    *)
(* the last thing he did has had its full effect: the process is outside   *)
(* the handler, and a tool that has not exited waits for data.             *)

Writing(n) == fd_proc = n \/ wait = n
Waiting(i) == pc[i] = "read" /\ Writing(fd_in[i]) /\ pipe[fd_in[i]] = <<>>
Quiet ==
    /\ proc \in {"running", "gone"}
    /\ ~pending
    /\ at = "idle"
    /\ \A i \in Tools : pc[i] \in {"none", "exited"} \/ Waiting(i)
UserMay == Serial => Quiet

(* The traced process is terminated, and its end of the pipe closed.       *)
Die(without) ==
    /\ proc' = "gone"
    /\ killed' = (killed \/ without)
    /\ pending' = FALSE
    /\ at' = "idle"
    /\ wait' = 0
    /\ fd_proc' = 0
    /\ UNCHANGED enable

(* kill(pid, toggle_signal).  Its default action, before the main module   *)
(* has installed its handler, is to terminate the process.                 *)
SendToggle ==
    CASE proc = "running"             -> /\ pending' = TRUE
                                         /\ UNCHANGED <<proc, killed, enable, at,
                                                        wait, fd_proc>>
      [] proc \in {"child", "loading"} -> Die(TRUE)
      [] OTHER                        -> UNCHANGED procVars

Goto(i, place) == pc' = [pc EXCEPT ![i] = place]

-----------------------------------------------------------------------------
(* The launcher: start_process.                                            *)

Fork ==
    /\ pc[Launcher] = "fork"
    /\ proc' = "child"
    /\ Goto(Launcher, IF Start THEN "access" ELSE "exited")
    /\ UNCHANGED <<killed, pending, enable, at, wait, fd_proc, fifoVars, fd_in,
                   stops, got, bounds>>

(* set_environment: the options reach the main module through variables;   *)
(* of those that matter here the managed mode's is not set.                *)
SetEnvironment == [start |-> Start]

(* The child waits for the pipe, when tracing starts at once, and executes *)
(* the program: sp_rtrace_initialize runs in the main module's constructor.*)
Exec ==
    /\ proc = "child"
    /\ Start => path # 0
    /\ proc' = "loading"
    /\ enable' = SetEnvironment.start
    /\ at' = IF SetEnvironment.start THEN "connect" ELSE "idle"
    /\ UNCHANGED <<killed, pending, wait, fd_proc, fifoVars, toolVars, bounds>>

(* execvp fails, or the wait for the pipe times out.                       *)
ChildFails ==
    /\ ChildMayFail
    /\ proc = "child"
    /\ Die(TRUE)
    /\ UNCHANGED <<fifoVars, toolVars, bounds>>

-----------------------------------------------------------------------------
(* A toggler: toggle_tracing.                                              *)

RunToggler(i) ==
    /\ UserMay
    /\ pc[i] = "none"
    /\ proc \in {"loading", "running", "gone"}
    /\ Goto(i, "check")
    /\ UNCHANGED <<procVars, fifoVars, fd_in, stops, got, bounds>>

(* Mutant: is_process_tracing_enabled is never true.                       *)
CheckTargetAlwaysBegins(i) ==
    /\ pc[i] = "check"
    /\ Goto(i, IF proc \in {"loading", "running"} THEN "access" ELSE "exited")
    /\ UNCHANGED <<procVars, fifoVars, fd_in, stops, got, bounds>>

(* is_process_traced, is_process_tracing_enabled                           *)
CheckTarget(i) ==
    /\ pc[i] = "check"
    /\ Goto(i, CASE proc \notin {"loading", "running"} -> "exited"
                 [] proc \in {"loading", "running"} /\ path # 0 -> "stop"
                 [] OTHER -> "access")
    /\ UNCHANGED <<procVars, fifoVars, fd_in, stops, got, bounds>>

(* stop_tracing                                                            *)
StopTracing(i) ==
    /\ pc[i] = "stop"
    /\ SendToggle
    /\ Goto(i, "exited")
    /\ UNCHANGED <<fifoVars, fd_in, stops, got, bounds>>

(* create_preproc_pipe: access, then mkfifo, which fails when another tool *)
(* has created the pipe in between.                                        *)
AccessPipe(i) ==
    /\ pc[i] = "access"
    /\ Goto(i, CASE path = 0 -> "mkfifo"
                 [] path # 0 /\ i = Launcher -> "open"
                 [] OTHER -> "signal")
    /\ UNCHANGED <<procVars, fifoVars, fd_in, stops, got, bounds>>
MakePipe(i) ==
    /\ pc[i] = "mkfifo"
    /\ IF path # 0
       THEN Goto(i, "exited") /\ UNCHANGED <<path, made>>
       ELSE /\ made' = made + 1
            /\ path' = made + 1
            /\ Goto(i, IF i = Launcher THEN "open" ELSE "signal")
    /\ UNCHANGED <<procVars, pipe, fd_in, stops, got, bounds>>

(* begin_tracing: the process is told to connect to the pipe.              *)
SignalTarget(i) ==
    /\ pc[i] = "signal"
    /\ SendToggle
    /\ Goto(i, "open")
    /\ UNCHANGED <<fifoVars, fd_in, stops, got, bounds>>

(* The tools that have pipe n open, or wait for its other side.            *)
Readers(n) == {i \in Tools : fd_in[i] = n /\ pc[i] \in {"opening", "first",
                                                        "read", "close"}}

(* What is left in pipe n is lost once nobody has it open: found out by    *)
(* the next to open it.                                                    *)
Drained(n) ==
    IF Readers(n) = {} /\ ~Writing(n) THEN [pipe EXCEPT ![n] = <<>>] ELSE pipe

(* connect_input.  An open() of a named pipe waits for the other side; the *)
(* one that comes second lets the first go on.                             *)
ConnectInput(i) ==
    /\ pc[i] = "open"
    /\ IF path = 0
       THEN /\ fd_in' = [fd_in EXCEPT ![i] = -1]
            /\ Goto(i, "first")
            /\ UNCHANGED <<wait, at, fd_proc, pipe>>
       ELSE /\ fd_in' = [fd_in EXCEPT ![i] = path]
            /\ Goto(i, IF Writing(path) THEN "first" ELSE "opening")
            /\ pipe' = Drained(path)
            /\ IF wait = path
               THEN wait' = 0 /\ at' = "start" /\ fd_proc' = path
               ELSE UNCHANGED <<wait, at, fd_proc>>
    /\ UNCHANGED <<proc, killed, pending, enable, path, made, stops, got, bounds>>

-----------------------------------------------------------------------------
(* process_data, seen from outside; Listener has its inside.               *)

(* A read returns what is in the pipe.  Once RequestStop SIGINTs have been *)
(* received what the loop reads is not processed any more.                 *)
ReadData(i) ==
    /\ pc[i] \in {"first", "read"}
    /\ fd_in[i] > 0
    /\ pipe[fd_in[i]] # <<>>
    /\ pipe' = [pipe EXCEPT ![fd_in[i]] = <<>>]
    /\ IF pc[i] = "read" /\ stops[i] >= RequestStop
       THEN Goto(i, "close") /\ UNCHANGED got
       ELSE Goto(i, "read") /\ got' = [got EXCEPT ![i] = @ \o pipe[fd_in[i]]]
    /\ UNCHANGED <<procVars, path, made, fd_in, stops, bounds>>

(* The end of the data, or a read that fails because the open() had.       *)
EndOfData(i) ==
    /\ pc[i] \in {"first", "read"}
    /\ fd_in[i] > 0 => ~Writing(fd_in[i]) /\ pipe[fd_in[i]] = <<>>
    /\ Goto(i, "close")
    /\ UNCHANGED <<procVars, fifoVars, fd_in, stops, got, bounds>>

(* disconnect_output, and close(fd_in).  fd_in keeps its value, so that    *)
(* sigint_handler goes on sending toggle signals; pc tells it is closed.   *)
DisconnectInput(i) ==
    /\ pc[i] = "close"
    /\ Goto(i, "remove")
    /\ UNCHANGED <<procVars, fifoVars, fd_in, stops, got, bounds>>

(* Mutant: the pipe is left behind.                                        *)
RemovePipeNot(i) ==
    /\ pc[i] = "remove"
    /\ Goto(i, "exited")
    /\ UNCHANGED <<procVars, fifoVars, fd_in, stops, got, bounds>>

(* remove(pipe_path), whichever pipe has the name by then.  A launcher     *)
(* that was interrupted forwards SIGINT, which terminates the process      *)
(* unless it handles it.                                                   *)
RemovePipe(i) ==
    /\ pc[i] = "remove"
    /\ path' = 0
    /\ Goto(i, "exited")
    /\ \/ i = Launcher /\ stops[i] > 0 /\ proc # "gone" /\ Die(TRUE)
       \/ UNCHANGED procVars
    /\ UNCHANGED <<made, pipe, fd_in, stops, got, bounds>>

(* Mutant: sigint_handler only counts.                                     *)
InterruptCounts(i) ==
    /\ UserMay
    /\ signals < MaxSignals
    /\ pc[i] \notin {"none", "exited", "fork"}
    /\ signals' = signals + 1
    /\ stops' = [stops EXCEPT ![i] = @ + 1]
    /\ UNCHANGED <<procVars, fifoVars, pc, fd_in, got, calls>>

(* SIGINT and sigint_handler.  An open() or a read() that waits fails with *)
(* EINTR, unless the signal came just before it.  The loop reads again; a  *)
(* failed open() or first read ends process_data.                          *)
Interrupt(i) ==
    /\ UserMay
    /\ signals < MaxSignals
    /\ pc[i] \notin {"none", "exited", "fork"}
    /\ signals' = signals + 1
    /\ stops' = [stops EXCEPT ![i] = @ + 1]
    /\ IF fd_in[i] # 0 /\ pc[i] # "opening" THEN SendToggle
       ELSE UNCHANGED procVars
    /\ \/ UNCHANGED <<pc, fd_in>>
       \/ /\ pc[i] = "opening"
          /\ fd_in' = [fd_in EXCEPT ![i] = -1]
          /\ Goto(i, "first")
       \/ /\ pc[i] \in {"first", "read"}
          /\ fd_in[i] > 0
          /\ Writing(fd_in[i]) /\ pipe[fd_in[i]] = <<>>
          /\ pc[i] = "first" \/ stops'[i] >= RequestStop
          /\ Goto(i, "close")
          /\ UNCHANGED fd_in
    /\ UNCHANGED <<fifoVars, got, calls>>

-----------------------------------------------------------------------------
(* The traced process.                                                     *)

(* The user sends the toggle signal himself.                               *)
UserToggles ==
    /\ UserMay
    /\ signals < MaxSignals
    /\ proc # "none"
    /\ signals' = signals + 1
    /\ SendToggle
    /\ UNCHANGED <<fifoVars, toolVars, calls>>

(* The end of trace_main_init: the handler of the toggle signal is there.  *)
InstallHandler ==
    /\ proc = "loading"
    /\ at = "idle"
    /\ proc' = "running"
    /\ UNCHANGED <<killed, pending, enable, at, wait, fd_proc, fifoVars,
                   toolVars, bounds>>

(* signal_toggle_tracing up to its first call.                             *)
HandleToggle ==
    /\ proc = "running"
    /\ pending
    /\ at = "idle"
    /\ pending' = FALSE
    /\ enable' = ~enable
    /\ at' = CASE ~enable -> "connect"
               [] enable /\ fd_proc > 0 -> "stop"
               [] OTHER -> "idle"
    /\ UNCHANGED <<proc, killed, wait, fd_proc, fifoVars, toolVars, bounds>>

(* Mutant: the option stays set when there is no pipe.                     *)
CheckPipeKeepsOption ==
    /\ at = "connect"
    /\ IF path # 0
       THEN at' = "open" /\ UNCHANGED fd_proc
       ELSE at' = "idle" /\ fd_proc' = -1
    /\ UNCHANGED <<proc, killed, pending, enable, wait, fifoVars, toolVars,
                   bounds>>

(* open_pipe: access().  Without a pipe tracing is disabled again; in the  *)
(* constructor write_initial_data then clears fd_proc, too.                *)
CheckPipe ==
    /\ at = "connect"
    /\ IF path # 0
       THEN at' = "open" /\ UNCHANGED <<enable, fd_proc>>
       ELSE /\ at' = "idle"
            /\ enable' = FALSE
            /\ fd_proc' = IF proc = "loading" THEN 0 ELSE -1
    /\ UNCHANGED <<proc, killed, pending, wait, fifoVars, toolVars, bounds>>

(* open_pipe: open().  When the pipe is gone by now the handler leaves the *)
(* option set.                                                             *)
OpenPipe ==
    /\ at = "open"
    /\ CASE path = 0 ->
              /\ at' = "idle"
              /\ enable' = (proc # "loading")
              /\ fd_proc' = IF proc = "loading" THEN 0 ELSE -1
              /\ UNCHANGED <<wait, pc, pipe>>
         [] path # 0 /\ Readers(path) # {} ->
              /\ at' = "start"
              /\ fd_proc' = path
              /\ pc' = [i \in Tools |-> IF i \in Readers(path) /\ pc[i] = "opening"
                                        THEN "first" ELSE pc[i]]
              /\ UNCHANGED <<enable, wait, pipe>>
         [] OTHER ->
              /\ at' = "wait"
              /\ wait' = path
              /\ pipe' = Drained(path)
              /\ UNCHANGED <<enable, fd_proc, pc>>
    /\ UNCHANGED <<proc, killed, pending, path, made, fd_in, stops, got, bounds>>

(* A write without a reader raises SIGPIPE, which nobody handles.          *)
WriteInitialData ==
    /\ at = "start"
    /\ IF Readers(fd_proc) = {} THEN Die(TRUE) /\ UNCHANGED pipe
       ELSE /\ at' = "idle"
            /\ pipe' = [pipe EXCEPT ![fd_proc] = Append(@, "hello")]
            /\ UNCHANGED <<proc, killed, pending, enable, wait, fd_proc>>
    /\ UNCHANGED <<path, made, toolVars, bounds>>

WriteCalls ==
    /\ at = "idle"
    /\ enable
    /\ fd_proc > 0
    /\ calls < MaxCalls
    /\ calls' = calls + 1
    /\ IF Readers(fd_proc) = {} THEN Die(TRUE) /\ UNCHANGED pipe
       ELSE /\ pipe' = [pipe EXCEPT ![fd_proc] = Append(@, "call")]
            /\ UNCHANGED procVars
    /\ UNCHANGED <<path, made, toolVars, signals>>

(* Mutant: the buffer is not flushed before the pipe is closed.            *)
StopSessionNoFlush ==
    /\ at = "stop"
    /\ at' = "idle"
    /\ fd_proc' = 0
    /\ UNCHANGED <<proc, killed, pending, enable, wait, fifoVars, toolVars,
                   bounds>>

(* The end of a session: the final data, the flush and close_pipe.         *)
StopSession ==
    /\ at = "stop"
    /\ IF Readers(fd_proc) = {} THEN Die(TRUE) /\ UNCHANGED pipe
       ELSE /\ at' = "idle"
            /\ fd_proc' = 0
            /\ pipe' = [pipe EXCEPT ![fd_proc] = Append(@, "bye")]
            /\ UNCHANGED <<proc, killed, pending, enable, wait>>
    /\ UNCHANGED <<path, made, toolVars, bounds>>

(* The process exits, through trace_main_fini, or it is terminated.        *)
Exit ==
    /\ UserMay
    /\ proc = "running"
    /\ at = "idle"
    /\ IF fd_proc > 0 /\ Readers(fd_proc) # {}
       THEN pipe' = [pipe EXCEPT ![fd_proc] = Append(@, "bye")]
       ELSE UNCHANGED pipe
    /\ Die(fd_proc > 0 /\ Readers(fd_proc) = {})
    /\ UNCHANGED <<path, made, toolVars, bounds>>
Terminate ==
    /\ UserMay
    /\ proc = "running"
    /\ Die(TRUE)
    /\ UNCHANGED <<fifoVars, toolVars, bounds>>

-----------------------------------------------------------------------------
(* What the tool i and the traced process do by themselves.                *)
ToolStep(i) ==
    \/ CheckTarget(i) \/ StopTracing(i)
    \/ AccessPipe(i) \/ MakePipe(i) \/ SignalTarget(i) \/ ConnectInput(i)
    \/ ReadData(i) \/ EndOfData(i) \/ DisconnectInput(i) \/ RemovePipe(i)
TargetStep ==
    \/ InstallHandler \/ HandleToggle \/ CheckPipe \/ OpenPipe
    \/ WriteInitialData \/ StopSession

Next ==
    \/ Fork \/ Exec \/ ChildFails
    \/ \E i \in Togglers : RunToggler(i)
    \/ \E i \in Tools : ToolStep(i) \/ Interrupt(i)
    \/ TargetStep
    \/ WriteCalls \/ UserToggles \/ Exit \/ Terminate

Spec == Init /\ [][Next]_vars

(* Every process that can run is scheduled; the user need not do anything. *)
FairSpec ==
    /\ Spec
    /\ WF_vars(Fork) /\ WF_vars(Exec) /\ WF_vars(TargetStep)
    /\ \A i \in Tools : WF_vars(ToolStep(i))

-----------------------------------------------------------------------------
(* Properties.                                                             *)

(* When everything has settled the named pipe is there exactly while the   *)
(* process traces, the process writes to that pipe and one tool reads it:  *)
(* what is_process_tracing_enabled concludes from the pipe is right.       *)
PipeTellsState ==
    Quiet =>
        /\ path # 0 <=> (proc = "running" /\ enable)
        /\ path # 0 => /\ fd_proc = path
                       /\ Cardinality(Readers(path)) = 1

(* Two tools never read the same pipe: they would share out its data.      *)
OneReader == \A n \in 1 .. MaxPipes : Cardinality(Readers(n)) <= 1

(* A tool that has exited has processed nothing or one whole session, from *)
(* its first data to its last, unless the process was terminated.          *)
WholeSessions ==
    \A i \in Tools :
        pc[i] = "exited" /\ got[i] # <<>> =>
            /\ \A j \in DOMAIN got[i] : (got[i][j] = "hello") <=> (j = 1)
            /\ \A j \in DOMAIN got[i] : got[i][j] = "bye" => j = Len(got[i])
            /\ killed \/ got[i][Len(got[i])] = "bye"

(* The traced process gets out of its signal handler and constructor.      *)
HandlerReturns == []<>(at = "idle")

(* A tool that is interrupted exits, and when the traced process is gone   *)
(* so does every tool that had connected to it.                            *)
ToolsEnd ==
    /\ \A i \in Tools : stops[i] > 0 ~> pc[i] = "exited"
    /\ \A i \in Tools :
           proc = "gone" ~> pc[i] \in {"none", "opening", "exited"}
=============================================================================
