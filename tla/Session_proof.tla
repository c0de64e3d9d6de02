--------------------------- MODULE Session_proof ---------------------------
(***************************************************************************)
(* Proofs about the set-up of tracing sessions (Session), for any number   *)
(* of sp-rtrace instances, signals and calls, as long as the user lets one *)
(* command take its full effect before the next (Serial).                  *)
(*                                                                         *)
(* The properties speak of the states in which everything has settled, or  *)
(* of the tools that read; neither is inductive.  The invariant relates    *)
(* where each tool is to what the traced process is doing meanwhile: the   *)
(* process and the tools agree on the session although each sees of the    *)
(* other only the name of the pipe, its two ends and the toggle signal.    *)
(***************************************************************************)
EXTENDS Session, FiniteSetTheorems, SequenceTheorems, TLAPS

\* What the traced process may be doing.
Closed == fd_proc = 0 \/ fd_proc = -1
None   == /\ proc = "none" /\ at = "idle" /\ ~enable /\ ~pending
          /\ wait = 0 /\ fd_proc = 0
Child  == /\ proc = "child" /\ at = "idle" /\ ~enable /\ ~pending
          /\ wait = 0 /\ fd_proc = 0
Gone   == proc = "gone" /\ at = "idle" /\ ~pending /\ wait = 0 /\ fd_proc = 0
Up     == proc = "loading" \/ proc = "running"
Off    == Up /\ at = "idle" /\ ~enable /\ ~pending /\ wait = 0 /\ Closed
Told   == proc = "running" /\ at = "idle" /\ ~enable /\ pending /\ wait = 0 /\ Closed
Coming == /\ Up /\ (at = "connect" \/ at = "open") /\ enable /\ ~pending
          /\ wait = 0 /\ Closed
Waits  == Up /\ at = "wait" /\ enable /\ ~pending /\ wait = path /\ path # 0 /\ Closed
On     == /\ Up /\ (at = "start" \/ at = "idle") /\ enable /\ ~pending
          /\ wait = 0 /\ fd_proc = path /\ path # 0
Ending == /\ proc = "running" /\ wait = 0 /\ fd_proc > 0
          /\ \/ at = "idle" /\ enable /\ pending
             \/ at = "stop" /\ ~enable /\ ~pending

\* What it is doing while tool i is where it is.
Phase(i) ==
    /\ pc[i] = "fork" => i = Launcher /\ None /\ path = 0
    /\ (pc[i] = "access" \/ pc[i] = "mkfifo") =>
          /\ path = 0
          /\ i = Launcher => Child \/ Gone
          /\ i # Launcher => proc = "running" /\ Off
    /\ pc[i] = "signal" => i # Launcher /\ proc = "running" /\ Off
    /\ pc[i] = "open" =>
          /\ i = Launcher => Child \/ Gone \/ (proc = "loading" /\ (Coming \/ Waits))
          /\ i # Launcher => Told \/ (proc = "running" /\ (Coming \/ Waits))
    /\ pc[i] = "opening" =>
          /\ i = Launcher => Child \/ Gone \/ (proc = "loading" /\ Coming)
          /\ i # Launcher => Told \/ (proc = "running" /\ Coming)
    /\ pc[i] = "first" => On
    /\ pc[i] = "read" => On \/ Ending \/ Off \/ Gone
    /\ (pc[i] = "close" \/ pc[i] = "remove") => Ending \/ Off \/ Gone
    /\ pc[i] = "check" =>
          /\ i # Launcher
          /\ path = 0 => Gone \/ (proc = "running" /\ Off)
          /\ path # 0 => proc = "running" /\ On /\ at = "idle"
    /\ pc[i] = "stop" => proc = "running" /\ On /\ at = "idle"

\* The tools that are on their way to a pipe, and those that have one.
Early   == {"fork", "check", "stop", "access", "mkfifo", "signal", "open"}
Late    == {"opening", "first", "read", "close", "remove"}
Holding == {"signal", "open"} \cup Late
Places  == Early \cup Late \cup {"none", "exited"}

Typed ==
    /\ path \in Nat /\ made \in Nat /\ wait \in Nat /\ fd_proc \in Int
    /\ enable \in BOOLEAN /\ pending \in BOOLEAN
    /\ pc \in [Tools -> Places] /\ fd_in \in [Tools -> Int] /\ stops \in [Tools -> Nat]
Phases    == \A i \in Tools : Phase(i)
OneEarly  == \A i, j \in Tools : pc[i] \in Early /\ pc[j] \in Early => i = j
OneHolder == \A i, j \in Tools : pc[i] \in Holding /\ pc[j] \in Holding => i = j
PipeHeld  == path # 0 <=> \E i \in Tools : pc[i] \in Holding
PipeOpen  == \A i \in Tools : pc[i] \in Late => fd_in[i] = path
NoPipe ==
    path = 0 => \/ None \/ Child \/ Gone \/ Off \/ Told \/ Ending
                \/ Coming /\ at = "connect"
LauncherStarts == pc[Launcher] # "fork" /\ pc[Launcher] # "exited" => Start
Settled ==
    \A i, j \in Tools : (pc[i] = "check" \/ pc[i] = "stop") => pc[j] # "first"
Interrupted ==
    \A i \in Tools : stops[i] > 0 => /\ pc[i] \in {"read", "close", "remove", "exited"}
                                     /\ pc[i] = "read" => ~On

SessionInv ==
    /\ Serial /\ Typed /\ Phases /\ OneEarly /\ OneHolder /\ PipeHeld /\ PipeOpen /\ NoPipe
    /\ LauncherStarts /\ Settled /\ Interrupted

\* Which kind of place a place is.
LEMMA PlaceKinds ==
    /\ \A p \in {"fork", "check", "stop", "access", "mkfifo"} :
          p \in Places /\ p \in Early /\ p \notin Holding /\ p \notin Late
    /\ \A p \in {"signal", "open"} :
          p \in Places /\ p \in Early /\ p \in Holding /\ p \notin Late
    /\ \A p \in {"opening", "first", "read", "close", "remove"} :
          p \in Places /\ p \notin Early /\ p \in Holding /\ p \in Late
    /\ \A p \in {"none", "exited"} :
          p \in Places /\ p \notin Early /\ p \notin Holding /\ p \notin Late
    /\ \A p \in Holding : p \in {"signal", "open", "opening", "first", "read", "close", "remove"}
BY DEF Early, Holding, Late, Places

\* The process is always in one of its states.
LEMMA ProcessStates ==
    ASSUME SessionInv
    PROVE  None \/ Child \/ Gone \/ Off \/ Told \/ Coming \/ Waits \/ On \/ Ending
<1>1. CASE path = 0
    BY <1>1 DEF SessionInv, NoPipe
<1>2. CASE path # 0
    <2>1. PICK i \in Tools : pc[i] \in Holding
        BY <1>2 DEF SessionInv, PipeHeld
    <2>2. Phase(i)
        BY DEF SessionInv, Phases
    <2> QED BY <2>1, <2>2, PlaceKinds DEF Phase
<1> QED BY <1>1, <1>2

\* While the process writes somebody reads.
LEMMA OnIsRead ==
    ASSUME SessionInv, On
    PROVE  /\ \E i \in Tools : (pc[i] = "first" \/ pc[i] = "read") /\ fd_in[i] = path
           /\ Readers(path) # {}
<1>1. PICK i \in Tools : pc[i] \in Holding
    BY DEF SessionInv, PipeHeld, On
<1>2. Phase(i)
    BY DEF SessionInv, Phases
<1>3. pc[i] = "first" \/ pc[i] = "read"
    BY <1>1, <1>2, PlaceKinds DEF Phase, On, Child, Gone, Off, Told, Coming, Waits, Ending, Closed,
       SessionInv, Typed
<1>4. fd_in[i] = path
    BY <1>3, PlaceKinds DEF SessionInv, PipeOpen
<1> QED BY <1>3, <1>4 DEF Readers

\* Steps of the process and of the user that leave the tools alone.
LEMMA ProcessStep ==
    ASSUME SessionInv, UNCHANGED <<path, pc, fd_in, stops>>, Typed', Phases', NoPipe',
           On' => On
    PROVE  SessionInv'
<1>1. OneEarly' /\ OneHolder' /\ PipeHeld' /\ PipeOpen' /\ Settled' /\ LauncherStarts'
    BY DEF SessionInv, OneEarly, OneHolder, PipeHeld, PipeOpen, Settled, LauncherStarts
<1>2. Interrupted'
    BY DEF SessionInv, Interrupted
<1> QED BY <1>1, <1>2 DEF SessionInv

\* The process goes from one state to the next, and where the tools are allows
\* for both.
LEMMA PhaseChange ==
    ASSUME SessionInv, UNCHANGED <<path, pc, fd_in, stops>>, Typed', NoPipe',
           \/ Told /\ Coming' /\ proc' = proc
           \/ Ending /\ (Ending' \/ Off' \/ Gone')
           \/ On /\ On' /\ at' = "idle" /\ (proc' = "running" \/ proc' = proc)
           \/ Coming /\ path # 0 /\ Coming' /\ proc' = proc
           \/ Off /\ proc = "loading" /\ Off'
           \/ Child /\ Gone'
    PROVE  SessionInv'
<1>1. On' => On
    BY DEF Told, Coming, Ending, Off, Gone, Child, On, SessionInv, Typed, Closed
<1>2. ASSUME NEW i \in Tools PROVE Phase(i)'
    <2>1. Phase(i)
        BY DEF SessionInv, Phases
    <2>2. CASE Told /\ Coming' /\ proc' = proc
        BY <2>1, <2>2 DEF Phase, None, Child, Gone, Off, Told, Coming, Waits, On, Ending, Up, Closed
    <2>3. CASE Ending /\ (Ending' \/ Off' \/ Gone')
        BY <2>1, <2>3 DEF Phase, None, Child, Gone, Off, Told, Coming, Waits, On, Ending, Up, Closed
    <2>4. CASE On /\ On' /\ at' = "idle" /\ (proc' = "running" \/ proc' = proc)
        BY <2>1, <2>4 DEF Phase, None, Child, Gone, Off, Told, Coming, Waits, On, Ending, Up, Closed,
           SessionInv, Typed
    <2>5. CASE Coming /\ path # 0 /\ Coming' /\ proc' = proc
        BY <2>1, <2>5 DEF Phase, None, Child, Gone, Off, Told, Coming, Waits, On, Ending, Up, Closed
    <2>6. CASE Off /\ proc = "loading" /\ Off'
        BY <2>1, <2>6 DEF Phase, None, Child, Gone, Off, Told, Coming, Waits, On, Ending, Up, Closed
    <2>7. CASE Child /\ Gone'
        BY <2>1, <2>7 DEF Phase, None, Child, Gone, Off, Told, Coming, Waits, On, Ending, Up, Closed
    <2> QED BY <2>2, <2>3, <2>4, <2>5, <2>6, <2>7
<1> QED BY <1>1, <1>2, ProcessStep DEF Phases

\* A process that dies is gone.
LEMMA DieGone ==
    ASSUME Typed, NEW without, Die(without)
    PROVE  Gone' /\ NoPipe' /\ ~On' /\ wait' \in Nat /\ fd_proc' \in Int /\ pending' \in BOOLEAN
           /\ enable' \in BOOLEAN
<1>1. /\ proc' = "gone" /\ pending' = FALSE /\ at' = "idle" /\ wait' = 0 /\ fd_proc' = 0
      /\ enable' = enable
    BY DEF Die
<1>2. Gone' /\ ~On'
    BY <1>1 DEF Gone, On, Up
<1>3. wait' \in Nat /\ fd_proc' \in Int
    BY <1>1
<1>4. pending' \in BOOLEAN /\ enable' \in BOOLEAN
    BY <1>1, Zenon DEF Typed
<1> QED BY <1>2, <1>3, <1>4 DEF NoPipe

LEMMA HandleToggleStep == SessionInv /\ HandleToggle => SessionInv'
<1> SUFFICES ASSUME SessionInv, HandleToggle PROVE SessionInv'
    OBVIOUS
<1>1. /\ UNCHANGED <<path, made, pc, fd_in, stops, proc, wait, fd_proc>>
      /\ proc = "running" /\ pending /\ at = "idle" /\ ~pending' /\ pending' \in BOOLEAN
      /\ enable' \in BOOLEAN
    BY DEF HandleToggle, fifoVars, toolVars
<1>2. /\ enable' <=> ~enable
      /\ ~enable => at' = "connect"
      /\ enable /\ fd_proc > 0 => at' = "stop"
    BY DEF HandleToggle, SessionInv, Typed
<1>3. Told \/ Ending
    BY <1>1, ProcessStates DEF None, Child, Gone, Off, Told, Coming, Waits, On, Ending
<1>4. Typed'
    BY <1>1 DEF SessionInv, Typed
<1>5. CASE Told
    <2>1. Coming' /\ at' = "connect"
        BY <1>1, <1>2, <1>5 DEF Told, Coming, Up, Closed
    <2> QED BY <1>1, <1>4, <1>5, <2>1, PhaseChange DEF NoPipe
<1>6. CASE Ending
    <2>1. Ending'
        BY <1>1, <1>2, <1>6 DEF Ending
    <2> QED BY <1>1, <1>4, <1>6, <2>1, PhaseChange DEF NoPipe
<1> QED BY <1>3, <1>5, <1>6

LEMMA CheckPipeStep == SessionInv /\ CheckPipe => SessionInv'
<1> SUFFICES ASSUME SessionInv, CheckPipe PROVE SessionInv'
    OBVIOUS
<1>1. /\ UNCHANGED <<path, made, pc, fd_in, stops, proc, wait, pending>> /\ at = "connect"
      /\ path # 0 => at' = "open" /\ enable' = enable /\ fd_proc' = fd_proc
      /\ path = 0 => at' = "idle" /\ enable' = FALSE /\ (fd_proc' = 0 \/ fd_proc' = -1)
    BY DEF CheckPipe, fifoVars, toolVars
<1>2. Coming
    BY <1>1, ProcessStates DEF None, Child, Gone, Off, Told, Waits, On, Ending
<1>3. Typed'
    <2>1. enable' \in BOOLEAN
        BY <1>1, Zenon DEF SessionInv, Typed
    <2>2. fd_proc' \in Int
        BY <1>1 DEF SessionInv, Typed
    <2> QED BY <1>1, <2>1, <2>2 DEF SessionInv, Typed
<1>4. CASE path # 0
    <2>1. Coming'
        BY <1>1, <1>2, <1>4 DEF Coming, Up, Closed
    <2> QED BY <1>1, <1>2, <1>3, <1>4, <2>1, PhaseChange DEF NoPipe
\* The user sent the toggle signal himself: no tool is on its way.
<1>5. CASE path = 0
    <2>1. Off' /\ ~On'
        BY <1>1, <1>2, <1>5 DEF Coming, Off, Up, Closed, On
    <2>2. ASSUME NEW i \in Tools PROVE Phase(i)'
        <3>1. Phase(i) /\ pc[i] \notin Holding
            BY <1>5 DEF SessionInv, Phases, PipeHeld
        <3> QED BY <1>1, <1>2, <1>5, <3>1, PlaceKinds DEF Phase, None, Child, Gone, Off, Told,
                Coming, Waits, On, Ending, Up, Closed
    <2> QED BY <1>1, <1>3, <2>1, <2>2, ProcessStep DEF Phases, NoPipe
<1> QED BY <1>4, <1>5

LEMMA WriteInitialDataStep == SessionInv /\ WriteInitialData => SessionInv'
<1> SUFFICES ASSUME SessionInv, WriteInitialData PROVE SessionInv'
    OBVIOUS
<1>1. On /\ at = "start"
    BY ProcessStates DEF WriteInitialData, None, Child, Gone, Off, Told, Coming, Waits, On, Ending
<1>2. Readers(fd_proc) # {}
    BY <1>1, OnIsRead DEF On
<1>3. /\ UNCHANGED <<path, made, pc, fd_in, stops, proc, wait, fd_proc, pending, enable>>
      /\ at' = "idle"
    BY <1>2 DEF WriteInitialData, toolVars
<1>4. On' /\ Typed' /\ NoPipe'
    BY <1>1, <1>3 DEF On, Up, SessionInv, Typed, NoPipe
<1> QED BY <1>1, <1>3, <1>4, PhaseChange

LEMMA WriteCallsStep == SessionInv /\ WriteCalls => SessionInv'
<1> SUFFICES ASSUME SessionInv, WriteCalls PROVE SessionInv'
    OBVIOUS
<1>0. Typed
    BY DEF SessionInv
<1>1. /\ UNCHANGED <<path, made, pc, fd_in, stops>> /\ at = "idle" /\ enable /\ fd_proc > 0
      /\ \/ Readers(fd_proc) = {} /\ Die(TRUE)
         \/ UNCHANGED procVars
    BY DEF WriteCalls, toolVars
<1>2. On \/ Ending
    BY <1>0, <1>1, ProcessStates DEF None, Child, Gone, Off, Told, Coming, Waits, Closed, Typed
<1>3. CASE UNCHANGED procVars
    BY <1>0, <1>1, <1>2, <1>3, PhaseChange DEF SessionInv, procVars, On, Up, Ending, Typed, NoPipe,
       Coming, Told, Off, None, Gone, Child, Closed
<1>4. CASE Readers(fd_proc) = {} /\ Die(TRUE)
    <2>1. Ending
        BY <1>2, <1>4, OnIsRead DEF On
    <2>2. Gone' /\ NoPipe' /\ Typed'
        BY <1>0, <1>1, <1>4, DieGone DEF Typed
    <2> QED BY <1>1, <2>1, <2>2, PhaseChange
<1> QED BY <1>1, <1>3, <1>4

LEMMA StopSessionStep == SessionInv /\ StopSession => SessionInv'
<1> SUFFICES ASSUME SessionInv, StopSession PROVE SessionInv'
    OBVIOUS
<1>0. Typed
    BY DEF SessionInv
<1>1. UNCHANGED <<path, made, pc, fd_in, stops>> /\ at = "stop"
    BY DEF StopSession, toolVars
<1>2. Ending /\ ~enable /\ ~pending
    BY <1>1, ProcessStates DEF None, Child, Gone, Off, Told, Coming, Waits, On, Ending
<1>3. CASE Die(TRUE)
    BY <1>0, <1>1, <1>2, <1>3, DieGone, PhaseChange DEF Typed
<1>4. CASE at' = "idle" /\ fd_proc' = 0 /\ UNCHANGED <<proc, pending, enable, wait>>
    <2>1. Off' /\ NoPipe' /\ Typed'
        BY <1>0, <1>1, <1>2, <1>4 DEF Ending, Off, Up, Closed, NoPipe, Typed
    <2> QED BY <1>1, <1>2, <2>1, PhaseChange
<1> QED BY <1>3, <1>4 DEF StopSession

LEMMA InstallHandlerStep == SessionInv /\ InstallHandler => SessionInv'
<1> SUFFICES ASSUME SessionInv, InstallHandler PROVE SessionInv'
    OBVIOUS
<1>1. /\ UNCHANGED <<path, made, pc, fd_in, stops, wait, fd_proc, pending, enable, at>>
      /\ at = "idle" /\ proc = "loading" /\ proc' = "running"
    BY DEF InstallHandler, toolVars, fifoVars
<1>2. Typed'
    BY <1>1 DEF SessionInv, Typed
<1>3. On \/ Off
    BY <1>1, ProcessStates DEF None, Child, Gone, Told, Coming, Waits, Ending
<1>4. CASE On
    <2>1. On' /\ NoPipe'
        BY <1>1, <1>4 DEF On, Up, NoPipe
    <2> QED BY <1>1, <1>2, <1>4, <2>1, PhaseChange
<1>5. CASE Off
    <2>1. Off' /\ NoPipe'
        BY <1>1, <1>5 DEF Off, Up, NoPipe, Closed
    <2> QED BY <1>1, <1>2, <1>5, <2>1, PhaseChange
<1> QED BY <1>3, <1>4, <1>5

\* The child either waits for the launcher's pipe, or needs none.
LEMMA ExecStep == SessionInv /\ (Exec \/ ChildFails) => SessionInv'
<1> SUFFICES ASSUME SessionInv, Exec \/ ChildFails PROVE SessionInv'
    OBVIOUS
<1>0. Typed /\ Start \in BOOLEAN
    BY SessionAssumption DEF SessionInv
<1>1. UNCHANGED <<path, made, pc, fd_in, stops>> /\ proc = "child"
    BY DEF Exec, ChildFails, fifoVars, toolVars
<1>2. Child
    BY <1>1, ProcessStates DEF None, Gone, Off, Told, Coming, Waits, On, Ending, Up
<1>3. CASE ChildFails
    <2>1. Gone' /\ NoPipe' /\ Typed'
        BY <1>0, <1>1, <1>3, DieGone DEF ChildFails, Typed
    <2> QED BY <1>1, <1>2, <2>1, PhaseChange
<1>4. CASE Exec
    <2>1. /\ Start => path # 0
          /\ proc' = "loading" /\ enable' = Start /\ UNCHANGED <<pending, wait, fd_proc>>
          /\ at' = IF Start THEN "connect" ELSE "idle"
        BY <1>4 DEF Exec, SetEnvironment
    <2>2. Typed' /\ ~On'
        BY <1>0, <1>1, <1>2, <2>1 DEF Typed, Child, On
    <2>3. CASE Start
        <3>1. Coming' /\ proc' = "loading" /\ path' # 0
            BY <1>1, <1>2, <2>1, <2>3 DEF Child, Coming, Up, Closed
        <3>2. ASSUME NEW i \in Tools PROVE Phase(i)'
            <4>1. Phase(i)
                BY DEF SessionInv, Phases
            <4> QED BY <1>1, <1>2, <3>1, <4>1 DEF Phase, None, Child, Gone, Off, Told, Coming,
                    Waits, On, Ending, Up
        <3> QED BY <1>1, <2>2, <3>1, <3>2, ProcessStep DEF Phases, NoPipe
    <2>4. CASE ~Start
        <3>1. Off'
            BY <1>1, <1>2, <2>1, <2>4 DEF Child, Off, Up, Closed
        <3>2. pc[Launcher] = "fork" \/ pc[Launcher] = "exited"
            BY <2>4 DEF SessionInv, LauncherStarts
        <3>3. ASSUME NEW i \in Tools PROVE Phase(i)'
            <4>1. Phase(i)
                BY DEF SessionInv, Phases
            <4> QED BY <1>1, <1>2, <3>1, <3>2, <4>1 DEF Phase, None, Child, Gone, Off, Told, Coming,
                    Waits, On, Ending, Up
        <3> QED BY <1>1, <2>2, <3>1, <3>3, ProcessStep DEF Phases, NoPipe
    <2> QED BY <2>3, <2>4
<1> QED BY <1>3, <1>4

\* A user who waits acts when the tools and the process have settled: either
\* there is no session, or there is one that is on.
LEMMA QuietStates ==
    ASSUME SessionInv, Quiet
    PROVE  \/ /\ path = 0 /\ (Gone \/ (proc = "running" /\ Off))
              /\ \A i \in Tools : pc[i] = "none" \/ pc[i] = "exited"
           \/ /\ path # 0 /\ proc = "running" /\ On /\ at = "idle"
              /\ \A i \in Tools : pc[i] = "none" \/ pc[i] = "exited" \/ pc[i] = "read"
<1>1. \A i \in Tools : pc[i] = "none" \/ pc[i] = "exited" \/ pc[i] = "read"
    BY DEF Quiet, Waiting
<1>2. Gone \/ Off \/ On
    BY ProcessStates DEF Quiet, None, Child, Told, Coming, Waits, Ending
<1>3. CASE path = 0
    <2>1. \A i \in Tools : pc[i] # "read"
        BY <1>3, PlaceKinds DEF SessionInv, PipeHeld
    <2>2. Gone \/ Off
        BY <1>2, <1>3 DEF On
    <2>3. Gone \/ (proc = "running" /\ Off)
        BY <2>2 DEF Quiet, Gone, Off, Up
    <2> QED BY <1>1, <1>3, <2>1, <2>3
<1>4. CASE path # 0
    <2>1. PICK i \in Tools : pc[i] \in Holding
        BY <1>4 DEF SessionInv, PipeHeld
    <2>2. pc[i] = "read"
        BY <1>1, <2>1, PlaceKinds
    <2>3. fd_in[i] = path
        BY <2>2, PlaceKinds DEF SessionInv, PipeOpen
    <2>4. fd_proc = path \/ wait = path
        BY <2>2, <2>3 DEF Quiet, Waiting, Writing
    <2>5. On
        BY <1>2, <1>4, <2>4 DEF Gone, Off, Closed, SessionInv, Typed
    <2>6. proc = "running" /\ at = "idle"
        BY <2>5 DEF Quiet, On, Up
    <2> QED BY <1>1, <1>4, <2>5, <2>6
<1> QED BY <1>3, <1>4

LEMMA UserStep ==
    ASSUME SessionInv, UserToggles \/ Exit \/ Terminate
    PROVE  SessionInv'
<1>0. Typed /\ Quiet
    BY DEF SessionInv, UserToggles, Exit, Terminate, UserMay
<1>1. UNCHANGED <<path, made, pc, fd_in, stops>>
    BY DEF UserToggles, Exit, Terminate, fifoVars, toolVars
<1>2. CASE Exit \/ Terminate
    <2>1. PICK without : Die(without)
        BY <1>2 DEF Exit, Terminate
    <2>2. Gone' /\ NoPipe' /\ ~On'
        BY <1>0, <2>1, DieGone
    <2>3. Typed'
        BY <1>0, <1>1, <2>1, DieGone DEF Typed
    <2>4. Phases'
        BY <1>0, <1>1, <2>2, QuietStates DEF Phases, Phase
    <2> QED BY <1>1, <2>2, <2>3, <2>4, ProcessStep
<1>3. CASE UserToggles /\ proc = "running"
    <2>1. pending' = TRUE /\ UNCHANGED <<proc, enable, at, wait, fd_proc>>
        BY <1>3 DEF UserToggles, SendToggle
    <2>2. Typed'
        <3>1. pending' \in BOOLEAN
            BY <2>1, Zenon
        <3> QED BY <1>0, <1>1, <2>1, <3>1 DEF Typed
    <2>3. CASE path = 0
        <3>1. Off /\ \A i \in Tools : pc[i] = "none" \/ pc[i] = "exited"
            BY <1>0, <1>3, <2>3, QuietStates DEF Gone
        <3>2. Told' /\ ~On'
            BY <1>1, <1>3, <2>1, <3>1 DEF Off, Told, Closed, On
        <3>3. Phases'
            BY <1>1, <3>1 DEF Phases, Phase
        <3> QED BY <1>1, <2>2, <3>2, <3>3, ProcessStep DEF NoPipe
    <2>4. CASE path # 0
        <3>1. On /\ at = "idle" /\ \A i \in Tools : pc[i] \in {"none", "exited", "read"}
            BY <1>0, <2>4, QuietStates
        <3>2. Ending' /\ ~On'
            BY <1>0, <1>1, <1>3, <2>1, <3>1 DEF On, Ending, Typed
        <3>3. Phases'
            BY <1>1, <3>1, <3>2 DEF Phases, Phase
        <3> QED BY <1>1, <2>2, <3>2, <3>3, ProcessStep DEF NoPipe
    <2> QED BY <2>3, <2>4
<1>4. CASE UserToggles /\ proc # "running"
    <2>1. proc = "gone"
        BY <1>0, <1>4 DEF Quiet
    <2>2. UNCHANGED procVars
        BY <1>4, <2>1 DEF UserToggles, SendToggle
    <2>3. Typed' /\ NoPipe' /\ (On' => On)
        BY <1>1, <2>2 DEF SessionInv, procVars, Typed, NoPipe, None, Child, Gone, Off, Told, Coming,
           Ending, On, Up, Closed
    <2>4. Phases'
        BY <1>0, <1>1, <2>1, <2>2, QuietStates DEF procVars, Phases, Phase, Gone, On
    <2> QED BY <1>1, <2>3, <2>4, ProcessStep
<1> QED BY <1>2, <1>3, <1>4

-----------------------------------------------------------------------------
\* Where tool i may go to, so far as the tools are concerned.
LEMMA GotoPlace ==
    ASSUME Typed, NEW i \in Tools, NEW p \in Places, Goto(i, p)
    PROVE  /\ pc' \in [Tools -> Places] /\ pc'[i] = p
           /\ \A j \in Tools : j # i => pc'[j] = pc[j]
BY DEF Typed, Goto

LEMMA ToolMoves ==
    ASSUME SessionInv, NEW i \in Tools, NEW p \in Places, Goto(i, p), UNCHANGED stops,
           Typed', Phases', NoPipe', PipeHeld', PipeOpen',
           p \in Early => pc[i] \in Early,
           p \in Holding => pc[i] \in Holding \/ path = 0,
           i = Launcher => p = "exited" \/ Start,
           p = "check" \/ p = "stop" => pc[i] = "check",
           p = "first" => pc[i] = "open",
           stops[i] > 0 => p \in {"read", "close", "remove", "exited"},
           p = "read" => pc[i] = "read" \/ pc[i] = "first",
           On' => On \/ pc[i] = "open"
    PROVE  SessionInv'
<1>0. /\ pc'[i] = p /\ \A j \in Tools : j # i => pc'[j] = pc[j]
    BY GotoPlace DEF SessionInv
<1>1. OneEarly' /\ OneHolder'
    BY <1>0 DEF SessionInv, OneEarly, OneHolder, PipeHeld
<1>2. LauncherStarts'
    <2>1. Launcher \in Tools
        BY DEF Tools
    <2> QED BY <1>0, <2>1 DEF SessionInv, LauncherStarts
<1>3. Settled'
    BY <1>0, PlaceKinds DEF SessionInv, Settled, OneEarly
<1>4. Interrupted'
    <2> SUFFICES ASSUME NEW j \in Tools, stops[j] > 0
                 PROVE  /\ pc'[j] \in {"read", "close", "remove", "exited"}
                        /\ pc'[j] = "read" => ~On'
        BY DEF Interrupted
    <2>1. /\ pc[j] \in {"read", "close", "remove", "exited"}
          /\ pc[j] = "read" => ~On
        BY DEF SessionInv, Interrupted
    <2>2. CASE j = i
        BY <1>0, <2>1, <2>2
    <2>3. CASE j # i
        <3>1. pc[j] = "read" => pc[i] # "open"
            BY <2>3, PlaceKinds DEF SessionInv, OneHolder
        <3> QED BY <1>0, <2>1, <2>3, <3>1
    <2> QED BY <2>2, <2>3
<1> QED BY <1>1, <1>2, <1>3, <1>4 DEF SessionInv

\* A tool that goes on by itself: the process and the name stay.
LEMMA ToolAlone ==
    ASSUME SessionInv, NEW i \in Tools, NEW p \in Places, Goto(i, p),
           UNCHANGED <<procVars, path, made, fd_in, stops>>,
           Phase(i)', pc[i] \notin {"fork", "exited", "none"},
           p \in Early => pc[i] \in Early,
           p \in Holding <=> pc[i] \in Holding,
           p \in Late => pc[i] \in Late,
           p = "check" \/ p = "stop" => pc[i] = "check",
           p # "first",
           stops[i] > 0 => p \in {"read", "close", "remove", "exited"},
           p = "read" => pc[i] = "read" \/ pc[i] = "first"
    PROVE  SessionInv'
<1>0. /\ pc' \in [Tools -> Places] /\ pc'[i] = p
      /\ \A j \in Tools : j # i => pc'[j] = pc[j]
    BY GotoPlace DEF SessionInv
<1>1. UNCHANGED <<proc, pending, enable, at, wait, fd_proc, path>>
    BY DEF procVars
<1>2. Typed'
    BY <1>0, <1>1 DEF SessionInv, Typed
<1>3. Phases'
    <2> SUFFICES ASSUME NEW j \in Tools, j # i PROVE Phase(j)'
        BY DEF Phases
    <2>1. Phase(j) /\ pc'[j] = pc[j]
        BY <1>0 DEF SessionInv, Phases
    <2> QED BY <1>1, <2>1 DEF Phase, None, Child, Gone, Off, Told, Coming, Waits, On, Ending, Up,
                              Closed
<1>4. NoPipe' /\ (On' <=> On)
    BY <1>1 DEF SessionInv, NoPipe, None, Child, Gone, Off, Told, Coming, Waits, On, Ending, Up,
                Closed
<1>5. PipeHeld'
    BY <1>0, <1>1 DEF SessionInv, PipeHeld
<1>6. PipeOpen'
    BY <1>0, <1>1 DEF SessionInv, PipeOpen
<1>7. i = Launcher => Start
    BY DEF SessionInv, LauncherStarts
<1> QED BY <1>2, <1>3, <1>4, <1>5, <1>6, <1>7, ToolMoves

LEMMA AloneSteps ==
    ASSUME SessionInv, NEW i \in Tools,
           \/ CheckTarget(i) \/ AccessPipe(i) \/ ReadData(i) \/ EndOfData(i) \/ DisconnectInput(i)
    PROVE  SessionInv'
<1>0. Phase(i) /\ Typed /\ RequestStop \in Nat \ {0}
    BY SessionAssumption DEF SessionInv, Phases
<1>1. UNCHANGED <<procVars, path, made, fd_in, stops>>
    BY DEF CheckTarget, AccessPipe, ReadData, EndOfData, DisconnectInput, fifoVars
<1>2. UNCHANGED <<proc, pending, enable, at, wait, fd_proc, path>>
    BY <1>1 DEF procVars
<1>3. stops[i] > 0 => pc[i] \in {"read", "close", "remove", "exited"} /\ (pc[i] = "read" => ~On)
    BY DEF SessionInv, Interrupted
\* What the place that tool i gets to asks of the process.
<1>4. ASSUME NEW p \in Places, Goto(i, p) PROVE pc'[i] = p
    BY <1>0, <1>4, GotoPlace
<1>5. CASE CheckTarget(i)
    <2>1. pc[i] = "check"
        BY <1>5 DEF CheckTarget
    <2>2. \/ Goto(i, "exited")
          \/ proc \in {"loading", "running"} /\ path # 0 /\ Goto(i, "stop")
          \/ proc \in {"loading", "running"} /\ path = 0 /\ Goto(i, "access")
        BY <1>5 DEF CheckTarget, Goto
    <2>3. CASE Goto(i, "exited")
        <3>1. Phase(i)'
            BY <1>4, <2>3, PlaceKinds DEF Phase
        <3> QED BY <1>1, <1>3, <2>1, <2>3, <3>1, ToolAlone, PlaceKinds
    <2>4. CASE path # 0 /\ Goto(i, "stop")
        <3>1. proc = "running" /\ On /\ at = "idle"
            BY <1>0, <2>1, <2>4 DEF Phase
        <3>2. Phase(i)'
            BY <1>2, <1>4, <2>4, <3>1, PlaceKinds DEF Phase, On, Up
        <3> QED BY <1>1, <1>3, <2>1, <2>4, <3>2, ToolAlone, PlaceKinds
    <2>5. CASE proc \in {"loading", "running"} /\ path = 0 /\ Goto(i, "access")
        <3>1. proc = "running" /\ Off
            BY <1>0, <2>1, <2>5 DEF Phase, Gone
        <3>2. i # Launcher
            BY <1>0, <2>1 DEF Phase
        <3>3. Phase(i)'
            BY <1>2, <1>4, <2>5, <3>1, <3>2, PlaceKinds DEF Phase, Off, Up, Closed
        <3> QED BY <1>1, <1>3, <2>1, <2>5, <3>3, ToolAlone, PlaceKinds
    <2> QED BY <2>2, <2>3, <2>4, <2>5
<1>6. CASE AccessPipe(i)
    <2>1. pc[i] = "access" /\ path = 0
        BY <1>0, <1>6 DEF AccessPipe, Phase
    <2>2. Goto(i, "mkfifo")
        BY <1>6, <2>1 DEF AccessPipe, Goto
    <2>3. Phase(i)'
        BY <1>0, <1>2, <1>4, <2>1, <2>2, PlaceKinds DEF Phase, Child, Gone, Off, Up, Closed
    <2> QED BY <1>1, <1>3, <2>1, <2>2, <2>3, ToolAlone, PlaceKinds
\* Data is left unread only after an interrupt, when the session ends.
<1>7. CASE ReadData(i)
    <2>1. pc[i] = "first" \/ pc[i] = "read"
        BY <1>7 DEF ReadData
    <2>2. Goto(i, "read") \/ (pc[i] = "read" /\ stops[i] >= RequestStop /\ Goto(i, "close"))
        BY <1>7 DEF ReadData
    <2>3. CASE Goto(i, "read")
        <3>1. Phase(i)'
            BY <1>0, <1>2, <1>4, <2>1, <2>3, PlaceKinds DEF Phase, On, Ending, Off, Gone, Up, Closed
        <3> QED BY <1>1, <1>3, <2>1, <2>3, <3>1, ToolAlone, PlaceKinds
    <2>4. CASE pc[i] = "read" /\ stops[i] >= RequestStop /\ Goto(i, "close")
        <3>1. stops[i] > 0
            BY <1>0, <2>4 DEF Typed
        <3>2. Ending \/ Off \/ Gone
            BY <1>0, <1>3, <2>4, <3>1 DEF Phase
        <3>3. Phase(i)'
            BY <1>2, <1>4, <2>4, <3>2, PlaceKinds DEF Phase, Ending, Off, Gone, Up, Closed
        <3> QED BY <1>1, <1>3, <2>1, <2>4, <3>3, ToolAlone, PlaceKinds
    <2> QED BY <2>2, <2>3, <2>4
\* The data ends when the process has closed its end.
<1>8. CASE EndOfData(i)
    <2>1. (pc[i] = "first" \/ pc[i] = "read") /\ Goto(i, "close")
        BY <1>8 DEF EndOfData
    <2>2. fd_in[i] = path
        BY <2>1, PlaceKinds DEF SessionInv, PipeOpen
    <2>3. ~On
        BY <1>0, <1>8, <2>2 DEF EndOfData, Writing, On, Typed
    <2>4. Ending \/ Off \/ Gone
        BY <1>0, <2>1, <2>3 DEF Phase
    <2>5. Phase(i)'
        BY <1>2, <1>4, <2>1, <2>4, PlaceKinds DEF Phase, Ending, Off, Gone, Up, Closed
    <2> QED BY <1>1, <1>3, <2>1, <2>5, ToolAlone, PlaceKinds
<1>9. CASE DisconnectInput(i)
    <2>1. pc[i] = "close" /\ Goto(i, "remove")
        BY <1>9 DEF DisconnectInput
    <2>2. Phase(i)'
        BY <1>0, <1>2, <1>4, <2>1, PlaceKinds DEF Phase, Ending, Off, Gone, Up, Closed
    <2> QED BY <1>1, <1>3, <2>1, <2>2, ToolAlone, PlaceKinds
<1> QED BY <1>5, <1>6, <1>7, <1>8, <1>9

\* A toggler that ends the session tells the process so.
LEMMA StopTracingStep ==
    ASSUME SessionInv, NEW i \in Tools, StopTracing(i)
    PROVE  SessionInv'
<1>0. Typed /\ Phases
    BY PlaceKinds DEF SessionInv
<1>1. /\ pc[i] = "stop" /\ Goto(i, "exited") /\ SendToggle
      /\ UNCHANGED <<path, made, fd_in, stops>>
    BY DEF StopTracing, fifoVars
<1>2. proc = "running" /\ On /\ at = "idle"
    BY <1>0, <1>1 DEF Phases, Phase
<1>3. pending' = TRUE /\ UNCHANGED <<proc, enable, at, wait, fd_proc>>
    BY <1>1, <1>2 DEF SendToggle
<1>4. /\ pc' \in [Tools -> Places] /\ pc'[i] = "exited"
      /\ \A j \in Tools : j # i => pc'[j] = pc[j]
    BY <1>0, <1>1, GotoPlace, PlaceKinds
<1>5. Typed'
    <2>1. pending' \in BOOLEAN
        BY <1>3, Zenon
    <2> QED BY <1>0, <1>1, <1>3, <1>4, <2>1 DEF Typed
<1>6. Ending' /\ ~On'
    BY <1>0, <1>1, <1>2, <1>3 DEF On, Ending, Typed
\* Another tool is idle, or reads: it has read the first data already.
<1>7. Phases'
    <2> SUFFICES ASSUME NEW j \in Tools PROVE Phase(j)'
        BY DEF Phases
    <2>1. CASE j = i
        BY <1>4, <2>1 DEF Phase
    <2>2. CASE j # i
        <3>1. Phase(j) /\ pc'[j] = pc[j] /\ pc[j] \notin Early /\ pc[j] # "first"
            BY <1>0, <1>1, <1>4, <2>2, PlaceKinds DEF Phases, SessionInv, OneEarly, Settled
        <3> QED BY <1>0, <1>2, <1>6, <3>1, PlaceKinds DEF Phase, None, Child, Gone, Off, Told,
                Coming, Waits, On, Closed, Typed
    <2> QED BY <2>1, <2>2
<1>8. PipeHeld' /\ PipeOpen'
    BY <1>1, <1>4, PlaceKinds DEF SessionInv, PipeHeld, PipeOpen
<1> QED BY <1>1, <1>5, <1>6, <1>7, <1>8, ToolMoves, PlaceKinds DEF NoPipe

\* A toggler that has made its pipe tells the process to connect.
LEMMA SignalTargetStep ==
    ASSUME SessionInv, NEW i \in Tools, SignalTarget(i)
    PROVE  SessionInv'
<1>0. Typed /\ Phases
    BY DEF SessionInv
<1>1. /\ pc[i] = "signal" /\ Goto(i, "open") /\ SendToggle
      /\ UNCHANGED <<path, made, fd_in, stops>>
    BY DEF SignalTarget, fifoVars
<1>2. i # Launcher /\ proc = "running" /\ Off /\ path # 0
    BY <1>0, <1>1, PlaceKinds DEF Phases, Phase, SessionInv, PipeHeld
<1>3. pending' = TRUE /\ UNCHANGED <<proc, enable, at, wait, fd_proc>>
    BY <1>1, <1>2 DEF SendToggle
<1>4. /\ pc' \in [Tools -> Places] /\ pc'[i] = "open"
      /\ \A j \in Tools : j # i => pc'[j] = pc[j]
    BY <1>0, <1>1, GotoPlace, PlaceKinds
<1>5. Typed'
    <2>1. pending' \in BOOLEAN
        BY <1>3, Zenon
    <2> QED BY <1>0, <1>1, <1>3, <1>4, <2>1 DEF Typed
<1>6. Told' /\ ~On'
    BY <1>2, <1>3 DEF Off, Told, Closed, On
<1>7. Phases'
    <2> SUFFICES ASSUME NEW j \in Tools PROVE Phase(j)'
        BY DEF Phases
    <2>1. CASE j = i
        BY <1>2, <1>4, <1>6, <2>1 DEF Phase
    <2>2. CASE j # i
        <3>1. pc'[j] = pc[j] /\ pc[j] \notin Early /\ pc[j] \notin Holding
            BY <1>1, <1>4, <2>2, PlaceKinds DEF SessionInv, OneEarly, OneHolder
        <3> QED BY <3>1, PlaceKinds DEF Phase
    <2> QED BY <2>1, <2>2
<1>8. PipeHeld' /\ PipeOpen'
    BY <1>1, <1>2, <1>4, PlaceKinds DEF SessionInv, PipeHeld, PipeOpen
<1>9. ~(stops[i] > 0)
    BY <1>1 DEF SessionInv, Interrupted
<1> QED BY <1>1, <1>2, <1>5, <1>6, <1>7, <1>8, <1>9, ToolMoves, PlaceKinds DEF NoPipe

\* The pipe is made by the one tool that may hold it.
LEMMA MakePipeStep ==
    ASSUME SessionInv, NEW i \in Tools, MakePipe(i)
    PROVE  SessionInv'
<1>0. Typed /\ Phases /\ Phase(i)
    BY DEF SessionInv, Phases
<1>1. pc[i] = "mkfifo" /\ UNCHANGED <<procVars, fd_in, stops>>
    BY DEF MakePipe
<1>2. path = 0
    BY <1>0, <1>1 DEF Phase
<1>3. /\ made' = made + 1 /\ path' = made + 1
      /\ \/ i = Launcher /\ Goto(i, "open")
         \/ i # Launcher /\ Goto(i, "signal")
    BY <1>2 DEF MakePipe, Goto
<1>4. PICK p \in {"open", "signal"} : Goto(i, p) /\ (i = Launcher <=> p = "open")
    BY <1>3
<1>5. /\ pc' \in [Tools -> Places] /\ pc'[i] = p
      /\ \A j \in Tools : j # i => pc'[j] = pc[j]
    BY <1>0, <1>4, GotoPlace, PlaceKinds
<1>6. UNCHANGED <<proc, pending, enable, at, wait, fd_proc>>
    BY <1>1 DEF procVars
<1>7. Typed' /\ path' # 0
    BY <1>0, <1>1, <1>3, <1>5, <1>6 DEF Typed
<1>8. NoPipe' /\ ~On'
    BY <1>0, <1>1, <1>6, <1>7 DEF NoPipe, Phase, Child, Gone, Off, Up, On
<1>9. Phases'
    <2> SUFFICES ASSUME NEW j \in Tools PROVE Phase(j)'
        BY DEF Phases
    <2>1. CASE j = i
        BY <1>0, <1>1, <1>4, <1>5, <1>6, <2>1 DEF Phase, Child, Gone, Off, Up, Closed
    <2>2. CASE j # i
        <3>1. pc'[j] = pc[j] /\ pc[j] \notin Early /\ pc[j] \notin Holding
            BY <1>1, <1>2, <1>5, <2>2, PlaceKinds DEF SessionInv, OneEarly, PipeHeld
        <3> QED BY <3>1, PlaceKinds DEF Phase
    <2> QED BY <2>1, <2>2
<1>10. PipeHeld' /\ PipeOpen'
    <2>1. \A j \in Tools : j # i => pc'[j] \notin Late
        BY <1>2, <1>5 DEF SessionInv, PipeHeld, Holding
    <2> QED BY <1>4, <1>5, <1>7, <2>1, PlaceKinds DEF PipeHeld, PipeOpen
<1>11. ~(stops[i] > 0) /\ (i = Launcher => Start)
    BY <1>1 DEF SessionInv, Interrupted, LauncherStarts
<1> QED BY <1>1, <1>2, <1>4, <1>7, <1>8, <1>9, <1>10, <1>11, ToolMoves, PlaceKinds

\* The tool that opens the pipe finds the process there, or waits for it.
LEMMA ConnectInputStep ==
    ASSUME SessionInv, NEW i \in Tools, ConnectInput(i)
    PROVE  SessionInv'
<1>0. Typed /\ Phases /\ Phase(i)
    BY DEF SessionInv, Phases
<1>1. pc[i] = "open" /\ UNCHANGED <<proc, pending, enable, path, made, stops>>
    BY DEF ConnectInput
<1>2. path # 0
    BY <1>1, PlaceKinds DEF SessionInv, PipeHeld
<1>3. /\ fd_in' = [fd_in EXCEPT ![i] = path]
      /\ Goto(i, IF Writing(path) THEN "first" ELSE "opening")
      /\ IF wait = path THEN wait' = 0 /\ at' = "start" /\ fd_proc' = path
                        ELSE UNCHANGED <<wait, at, fd_proc>>
    BY <1>2 DEF ConnectInput
<1>4. fd_proc # path
    BY <1>0, <1>1, <1>2 DEF Phase, Child, Gone, Told, Coming, Waits, Closed, Typed
<1>5. PICK p \in {"first", "opening"} : Goto(i, p) /\ (p = "first" <=> wait = path)
    BY <1>3, <1>4 DEF Writing, Goto
<1>6. /\ pc' \in [Tools -> Places] /\ pc'[i] = p
      /\ \A j \in Tools : j # i => pc'[j] = pc[j]
    BY <1>0, <1>5, GotoPlace, PlaceKinds
<1>7. fd_in' \in [Tools -> Int] /\ fd_in'[i] = path /\ \A j \in Tools : j # i => fd_in'[j] = fd_in[j]
    <2>1. path \in Int
        BY <1>0 DEF Typed
    <2> QED BY <1>0, <1>3, <2>1 DEF Typed
<1>8. Typed'
    <2>1. wait' \in Nat /\ fd_proc' \in Int
        BY <1>0, <1>3 DEF Typed
    <2> QED BY <1>0, <1>1, <1>6, <1>7, <2>1 DEF Typed
<1>9. p = "first" => On'
    BY <1>0, <1>1, <1>2, <1>3, <1>5 DEF Phase, Child, Gone, Told, Coming, Waits, On, Up
<1>10. Phases'
    <2> SUFFICES ASSUME NEW j \in Tools PROVE Phase(j)'
        BY DEF Phases
    <2>1. CASE j = i /\ p = "first"
        BY <1>6, <1>9, <2>1 DEF Phase
    <2>2. CASE j = i /\ p = "opening"
        BY <1>0, <1>1, <1>2, <1>3, <1>5, <1>6, <2>2 DEF Phase, Child, Gone, Told, Coming, Waits, Up,
           Closed
    <2>3. CASE j # i
        <3>1. pc'[j] = pc[j] /\ pc[j] \notin Early /\ pc[j] \notin Holding
            BY <1>1, <1>6, <2>3, PlaceKinds DEF SessionInv, OneEarly, OneHolder
        <3> QED BY <3>1, PlaceKinds DEF Phase
    <2> QED BY <2>1, <2>2, <2>3
<1>11. PipeHeld' /\ PipeOpen' /\ NoPipe'
    <2>1. \A j \in Tools : j # i => pc'[j] \notin Late
        BY <1>1, <1>6, PlaceKinds DEF SessionInv, OneHolder, Holding
    <2> QED BY <1>1, <1>2, <1>6, <1>7, <2>1, PlaceKinds DEF PipeHeld, PipeOpen, NoPipe
<1>12. ~(stops[i] > 0) /\ (i = Launcher => Start)
    BY <1>1 DEF SessionInv, Interrupted, LauncherStarts
<1> QED BY <1>1, <1>5, <1>8, <1>10, <1>11, <1>12, ToolMoves, PlaceKinds

\* The tool that held the pipe removes it; the process has left it, or is about
\* to find out.
LEMMA RemovePipeStep ==
    ASSUME SessionInv, NEW i \in Tools, RemovePipe(i)
    PROVE  SessionInv'
<1>0. Typed /\ Phases /\ Phase(i)
    BY DEF SessionInv, Phases
<1>1. pc[i] = "remove" /\ path' = 0 /\ Goto(i, "exited") /\ UNCHANGED <<made, fd_in, stops>>
    BY DEF RemovePipe
<1>2. /\ pc' \in [Tools -> Places] /\ pc'[i] = "exited"
      /\ \A j \in Tools : j # i => pc'[j] = pc[j]
    BY <1>0, <1>1, GotoPlace, PlaceKinds
<1>3. Ending \/ Off \/ Gone
    BY <1>0, <1>1 DEF Phase
<1>4. \A j \in Tools : pc'[j] = "none" \/ pc'[j] = "exited"
    <2> SUFFICES ASSUME NEW j \in Tools, j # i PROVE pc[j] = "none" \/ pc[j] = "exited"
        BY <1>2
    <2>1. pc[j] \notin Holding /\ Phase(j) /\ path # 0 /\ pc[j] \in Places
        BY <1>0, <1>1, PlaceKinds DEF SessionInv, OneHolder, Phases, PipeHeld, Typed
    <2> QED BY <1>0, <1>3, <2>1 DEF Phase, Ending, Off, Gone, None, On, Up, Closed, Typed, Places,
            Early, Holding, Late
<1>5. Phases' /\ PipeHeld' /\ PipeOpen'
    BY <1>1, <1>4, PlaceKinds DEF Phases, Phase, PipeHeld, PipeOpen
<1>6. CASE Die(TRUE)
    <2>1. Typed'
        BY <1>0, <1>1, <1>2, <1>6, DieGone DEF Typed
    <2> QED BY <1>0, <1>1, <1>5, <1>6, <2>1, DieGone, ToolMoves, PlaceKinds
<1>7. CASE UNCHANGED procVars
    <2>1. UNCHANGED <<proc, pending, enable, at, wait, fd_proc>>
        BY <1>7 DEF procVars
    <2>2. Typed' /\ NoPipe' /\ ~On'
        BY <1>0, <1>1, <1>2, <1>3, <2>1 DEF Typed, NoPipe, Ending, Off, Gone, On, Up, Closed
    <2> QED BY <1>1, <1>5, <2>2, ToolMoves, PlaceKinds
<1> QED BY <1>6, <1>7 DEF RemovePipe

\* The process finds the tool that waits for it, or waits for the tool.
LEMMA OpenPipeStep == SessionInv /\ OpenPipe => SessionInv'
<1> SUFFICES ASSUME SessionInv, OpenPipe PROVE SessionInv'
    OBVIOUS
<1>0. Typed /\ Phases
    BY DEF SessionInv
<1>1. at = "open" /\ UNCHANGED <<proc, pending, path, made, fd_in, stops>>
    BY DEF OpenPipe
<1>2. Coming
    BY <1>1, ProcessStates DEF None, Child, Gone, Off, Told, Waits, On, Ending
<1>3. path # 0
    BY <1>1 DEF SessionInv, NoPipe, None, Child, Gone, Off, Told, Ending
<1>4. PICK h \in Tools : pc[h] \in Holding
    BY <1>3 DEF SessionInv, PipeHeld
<1>5. /\ pc[h] = "open" \/ pc[h] = "opening"
      /\ h = Launcher => proc = "loading"
      /\ h # Launcher => proc = "running"
    BY <1>0, <1>2, <1>4, PlaceKinds DEF Phases, Phase, Child, Gone, Off, Told, Coming, Waits, On,
       Ending, Up
<1>6. \A j \in Tools : j # h => pc[j] = "none" \/ pc[j] = "exited"
    <2> SUFFICES ASSUME NEW j \in Tools, j # h PROVE pc[j] = "none" \/ pc[j] = "exited"
        OBVIOUS
    <2>1. pc[j] \notin Holding /\ Phase(j) /\ pc[j] \in Places
        BY <1>0, <1>4 DEF SessionInv, OneHolder, Phases, Typed
    <2> QED BY <1>2, <1>3, <2>1 DEF Phase, Coming, Off, Gone, None, On, Places, Early, Holding, Late
<1>7. Readers(path) = IF pc[h] = "opening" THEN {h} ELSE {}
    <2>1. pc[h] = "opening" => fd_in[h] = path
        BY PlaceKinds DEF SessionInv, PipeOpen
    <2> QED BY <1>5, <1>6, <2>1 DEF Readers
<1>8. CASE pc[h] = "opening"
    <2>1. /\ at' = "start" /\ fd_proc' = path /\ UNCHANGED <<enable, wait>>
          /\ pc' = [i \in Tools |-> IF i \in Readers(path) /\ pc[i] = "opening"
                                    THEN "first" ELSE pc[i]]
        BY <1>3, <1>7, <1>8 DEF OpenPipe
    <2>2. pc' = [i \in Tools |-> IF i = h THEN "first" ELSE pc[i]]
        BY <1>7, <1>8, <2>1
    <2>3. Typed'
        <3>1. pc' \in [Tools -> Places]
            BY <1>0, <2>2, PlaceKinds DEF Typed
        <3>2. fd_proc' \in Int
            BY <1>0, <2>1 DEF Typed
        <3> QED BY <1>0, <1>1, <2>1, <3>1, <3>2 DEF Typed
    <2>4. On' /\ NoPipe'
        BY <1>1, <1>2, <1>3, <2>1 DEF Coming, On, Up, NoPipe
    <2>5. Phases'
        BY <1>6, <2>2, <2>4 DEF Phases, Phase
    <2>6. OneEarly' /\ OneHolder' /\ PipeHeld' /\ PipeOpen' /\ Settled'
        <3>1. fd_in[h] = path
            BY <1>8, PlaceKinds DEF SessionInv, PipeOpen
        <3>2. pc'[h] = "first" /\ \A j \in Tools : j # h => pc'[j] = "none" \/ pc'[j] = "exited"
            BY <1>6, <2>2
        <3> QED BY <1>1, <1>3, <3>1, <3>2, PlaceKinds DEF OneEarly, OneHolder, PipeHeld, PipeOpen,
                Settled
    <2>7. LauncherStarts'
        <3>1. Launcher \in Tools
            BY DEF Tools
        <3> QED BY <1>8, <2>2, <3>1 DEF SessionInv, LauncherStarts
    <2>8. Interrupted'
        BY <1>1, <1>6, <1>8, <2>2 DEF SessionInv, Interrupted
    <2> QED BY <2>3, <2>4, <2>5, <2>6, <2>7, <2>8 DEF SessionInv
<1>9. CASE pc[h] = "open"
    <2>1. at' = "wait" /\ wait' = path /\ UNCHANGED <<enable, fd_proc, pc>>
        BY <1>3, <1>7, <1>9 DEF OpenPipe
    <2>2. Typed'
        BY <1>0, <1>1, <2>1 DEF Typed
    <2>3. Waits' /\ NoPipe' /\ ~On'
        BY <1>1, <1>2, <1>3, <2>1 DEF Coming, Waits, Up, Closed, NoPipe, On
    <2>4. Phases'
        BY <1>1, <1>5, <1>6, <1>9, <2>1, <2>3 DEF Phases, Phase
    <2> QED BY <1>1, <2>1, <2>2, <2>3, <2>4, ProcessStep
<1> QED BY <1>5, <1>8, <1>9

LEMMA ForkStep == SessionInv /\ Fork => SessionInv'
<1> SUFFICES ASSUME SessionInv, Fork PROVE SessionInv'
    OBVIOUS
<1>0. Typed /\ Phases /\ Launcher \in Tools
    BY DEF SessionInv, Tools
<1>1. /\ pc[Launcher] = "fork" /\ proc' = "child"
      /\ UNCHANGED <<pending, enable, at, wait, fd_proc, path, made, fd_in, stops>>
      /\ \/ Start /\ Goto(Launcher, "access")
         \/ Goto(Launcher, "exited")
    BY DEF Fork, fifoVars
<1>2. None /\ path = 0
    BY <1>0, <1>1 DEF Phases, Phase
<1>3. Child' /\ NoPipe' /\ ~On'
    BY <1>1, <1>2 DEF None, Child, NoPipe, On, Up
<1>4. ASSUME NEW p \in {"access", "exited"}, Goto(Launcher, p), p = "access" => Start
      PROVE  SessionInv'
    <2>1. /\ pc' \in [Tools -> Places] /\ pc'[Launcher] = p
          /\ \A j \in Tools : j # Launcher => pc'[j] = pc[j]
        BY <1>0, <1>4, GotoPlace, PlaceKinds
    <2>2. Typed'
        BY <1>0, <1>1, <2>1 DEF Typed
    <2>3. \A j \in Tools : j # Launcher => pc[j] \notin Early /\ pc[j] \notin Holding
        BY <1>0, <1>1, <1>2, PlaceKinds DEF SessionInv, OneEarly, PipeHeld
    <2>4. Phases'
        <3> SUFFICES ASSUME NEW j \in Tools PROVE Phase(j)'
            BY DEF Phases
        <3>1. CASE j = Launcher
            BY <1>1, <1>2, <1>3, <2>1, <3>1 DEF Phase
        <3>2. CASE j # Launcher
            BY <2>1, <2>3, <3>2, PlaceKinds DEF Phase
        <3> QED BY <3>1, <3>2
    <2>5. PipeHeld' /\ PipeOpen'
        <3>1. \A j \in Tools : pc'[j] \notin Holding /\ pc'[j] \notin Late
            BY <1>0, <2>1, <2>3, PlaceKinds DEF Holding
        <3> QED BY <1>1, <1>2, <3>1 DEF PipeHeld, PipeOpen
    <2>6. ~(stops[Launcher] > 0)
        BY <1>0, <1>1 DEF SessionInv, Interrupted
    <2> QED BY <1>0, <1>1, <1>3, <1>4, <2>2, <2>4, <2>5, <2>6, ToolMoves, PlaceKinds
<1> QED BY <1>1, <1>4

LEMMA RunTogglerStep ==
    ASSUME SessionInv, NEW i \in Togglers, RunToggler(i)
    PROVE  SessionInv'
<1>0. Typed /\ Phases /\ i \in Tools /\ i # Launcher /\ Quiet
    BY SessionAssumption DEF SessionInv, Tools, RunToggler, UserMay
<1>1. pc[i] = "none" /\ Goto(i, "check") /\ UNCHANGED <<procVars, path, made, fd_in, stops>>
    BY DEF RunToggler, fifoVars
<1>2. UNCHANGED <<proc, pending, enable, at, wait, fd_proc>>
    BY <1>1 DEF procVars
<1>3. /\ pc' \in [Tools -> Places] /\ pc'[i] = "check"
      /\ \A j \in Tools : j # i => pc'[j] = pc[j]
    BY <1>0, <1>1, GotoPlace, PlaceKinds
<1>4. Typed'
    BY <1>0, <1>1, <1>2, <1>3 DEF Typed
<1>5. \A j \in Tools : pc[j] \notin Early /\ pc[j] # "first"
    BY <1>0, QuietStates, PlaceKinds
<1>6. NoPipe' /\ (On' <=> On)
    BY <1>1, <1>2 DEF SessionInv, NoPipe, None, Child, Gone, Off, Told, Coming, Waits, On, Ending,
       Up, Closed
<1>7. Phases'
    <2> SUFFICES ASSUME NEW j \in Tools PROVE Phase(j)'
        BY DEF Phases
    <2>1. CASE j = i
        <3>1. /\ path = 0 => Gone \/ (proc = "running" /\ Off)
              /\ path # 0 => proc = "running" /\ On /\ at = "idle"
            BY <1>0, QuietStates
        <3> QED BY <1>0, <1>1, <1>2, <1>3, <2>1, <3>1 DEF Phase, Gone, Off, On, Up, Closed
    <2>2. CASE j # i
        <3>1. Phase(j) /\ pc'[j] = pc[j]
            BY <1>0, <1>3, <2>2 DEF Phases
        <3> QED BY <1>1, <1>2, <3>1 DEF Phase, None, Child, Gone, Off, Told, Coming, Waits, On,
                Ending, Up, Closed
    <2> QED BY <2>1, <2>2
<1>8. OneEarly' /\ Settled'
    BY <1>3, <1>5, PlaceKinds DEF OneEarly, Settled
<1>9. OneHolder' /\ PipeHeld' /\ PipeOpen'
    BY <1>1, <1>3, PlaceKinds DEF SessionInv, OneHolder, PipeHeld, PipeOpen
<1>10. LauncherStarts'
    <2>1. Launcher \in Tools
        BY DEF Tools
    <2> QED BY <1>0, <1>3, <2>1 DEF SessionInv, LauncherStarts
<1>11. Interrupted'
    BY <1>1, <1>3, <1>6 DEF SessionInv, Interrupted
<1> QED BY <1>4, <1>6, <1>7, <1>8, <1>9, <1>10, <1>11 DEF SessionInv

\* The tool that is interrupted is the one that reads; its toggle signal ends
\* the session.
LEMMA InterruptStep ==
    ASSUME SessionInv, NEW i \in Tools, Interrupt(i)
    PROVE  SessionInv'
<1>0. Typed /\ Phases /\ Quiet
    BY DEF SessionInv, Interrupt, UserMay
<1>1. /\ path # 0 /\ proc = "running" /\ On /\ at = "idle" /\ pc[i] = "read"
      /\ \A j \in Tools : pc[j] = "none" \/ pc[j] = "exited" \/ pc[j] = "read"
    BY <1>0, QuietStates DEF Interrupt
<1>2. fd_in[i] = path
    BY <1>1, PlaceKinds DEF SessionInv, PipeOpen
<1>3. SendToggle /\ UNCHANGED <<path, made>> /\ stops' = [stops EXCEPT ![i] = @ + 1]
    BY <1>1, <1>2 DEF Interrupt, fifoVars
<1>4. pending' = TRUE /\ UNCHANGED <<proc, enable, at, wait, fd_proc>>
    BY <1>1, <1>3 DEF SendToggle
<1>5. UNCHANGED fd_in /\ (UNCHANGED pc \/ Goto(i, "close"))
    BY <1>1 DEF Interrupt
<1>6. /\ pc' \in [Tools -> Places]
      /\ pc'[i] = "read" \/ pc'[i] = "close"
      /\ \A j \in Tools : j # i => pc'[j] = pc[j]
    BY <1>0, <1>1, <1>5, GotoPlace, PlaceKinds DEF Typed
<1>7. stops' \in [Tools -> Nat] /\ \A j \in Tools : j # i => stops'[j] = stops[j]
    BY <1>0, <1>3 DEF Typed
<1>8. Typed'
    <2>1. pending' \in BOOLEAN
        BY <1>4, Zenon
    <2> QED BY <1>0, <1>3, <1>4, <1>5, <1>6, <1>7, <2>1 DEF Typed
<1>9. Ending' /\ ~On' /\ NoPipe'
    BY <1>0, <1>1, <1>3, <1>4 DEF On, Ending, Typed, NoPipe
<1>10. Phases'
    BY <1>1, <1>6, <1>9 DEF Phases, Phase
<1>11. \A j \in Tools : /\ pc'[j] \notin Early /\ pc'[j] # "first"
                        /\ pc'[j] \in Holding <=> pc[j] \in Holding
                        /\ pc'[j] \in Late <=> pc[j] \in Late
    BY <1>1, <1>6, PlaceKinds
<1>12. OneEarly' /\ OneHolder' /\ PipeHeld' /\ PipeOpen' /\ Settled'
    BY <1>3, <1>5, <1>11 DEF SessionInv, OneEarly, OneHolder, PipeHeld, PipeOpen, Settled
<1>13. LauncherStarts'
    <2>1. Launcher \in Tools
        BY DEF Tools
    <2> QED BY <1>1, <1>6, <2>1 DEF SessionInv, LauncherStarts
<1>14. Interrupted'
    BY <1>6, <1>7, <1>9 DEF SessionInv, Interrupted
<1> QED BY <1>8, <1>9, <1>10, <1>12, <1>13, <1>14 DEF SessionInv

LEMMA SessionStep == SessionInv /\ [Next]_vars => SessionInv'
<1> SUFFICES ASSUME SessionInv, [Next]_vars PROVE SessionInv'
    OBVIOUS
<1>1. CASE UNCHANGED vars
    <2>1. UNCHANGED <<proc, pending, enable, at, wait, fd_proc, path, made, pc, fd_in, stops>>
        BY <1>1 DEF vars
    <2>2. Typed' /\ NoPipe' /\ (On' => On)
        BY <2>1 DEF SessionInv, Typed, NoPipe, None, Child, Gone, Off, Told, Coming, Ending, On, Up,
           Closed
    <2>3. Phases'
        BY <2>1 DEF SessionInv, Phases, Phase, None, Child, Gone, Off, Told, Coming, Waits, On,
           Ending, Up, Closed
    <2> QED BY <2>1, <2>2, <2>3, ProcessStep
<1>2. CASE Fork \/ Exec \/ ChildFails \/ WriteCalls \/ UserToggles \/ Exit \/ Terminate
    BY <1>2, ForkStep, ExecStep, WriteCallsStep, UserStep
<1>3. CASE TargetStep
    BY <1>3, InstallHandlerStep, HandleToggleStep, CheckPipeStep, OpenPipeStep,
       WriteInitialDataStep, StopSessionStep DEF TargetStep
<1>4. ASSUME NEW i \in Togglers, RunToggler(i) PROVE SessionInv'
    BY <1>4, RunTogglerStep
<1>5. ASSUME NEW i \in Tools, Interrupt(i) PROVE SessionInv'
    BY <1>5, InterruptStep
<1>6. ASSUME NEW i \in Tools, ToolStep(i) PROVE SessionInv'
    BY <1>6, AloneSteps, StopTracingStep, SignalTargetStep, MakePipeStep, ConnectInputStep,
       RemovePipeStep DEF ToolStep
<1> QED BY <1>1, <1>2, <1>3, <1>4, <1>5, <1>6 DEF Next

LEMMA SessionInit == Serial /\ Init => SessionInv
<1> SUFFICES ASSUME Serial, Init PROVE SessionInv
    OBVIOUS
<1>1. /\ \A i \in Tools : pc[i] = IF i = Launcher THEN "fork" ELSE "none"
      /\ \A i \in Tools : stops[i] = 0
      /\ path = 0 /\ Launcher \in Tools
    BY DEF Init, Tools
<1>2. Typed
    <2>1. enable \in BOOLEAN /\ pending \in BOOLEAN
        BY Zenon DEF Init
    <2>2. pc \in [Tools -> Places]
        BY PlaceKinds DEF Init
    <2> QED BY <2>1, <2>2 DEF Init, Typed
<1>3. None
    BY DEF Init, None
<1>4. Phases /\ NoPipe
    BY <1>1, <1>3 DEF Phases, Phase, NoPipe
<1>5. OneEarly /\ OneHolder /\ PipeHeld /\ PipeOpen
    BY <1>1, PlaceKinds DEF OneEarly, OneHolder, PipeHeld, PipeOpen
<1>6. LauncherStarts /\ Settled /\ Interrupted
    BY <1>1 DEF LauncherStarts, Settled, Interrupted
<1> QED BY <1>2, <1>4, <1>5, <1>6 DEF SessionInv

LEMMA SessionHolds == Serial /\ Spec => []SessionInv
BY SessionInit, SessionStep, PTL DEF Spec

-----------------------------------------------------------------------------
\* However many sp-rtrace instances a user runs who lets each command take its
\* full effect, no two of them read the same named pipe, so that none takes a
\* part of the other's data (ConnectInput opens the pipe by its name).
THEOREM ReadersApart == Serial /\ Spec => []OneReader
<1>1. SessionInv => OneReader
    <2> SUFFICES ASSUME SessionInv, NEW n \in 1..MaxPipes PROVE Cardinality(Readers(n)) <= 1
        BY DEF OneReader
    <2>1. \A i, j \in Readers(n) : i = j
        BY PlaceKinds DEF SessionInv, OneHolder, Readers
    <2>2. CASE Readers(n) = {}
        BY <2>2, FS_EmptySet
    <2>3. CASE Readers(n) # {}
        <3>1. PICK i : Readers(n) = {i}
            BY <2>1, <2>3
        <3>2. Cardinality({i}) = 1
            BY FS_Singleton
        <3> QED BY <3>1, <3>2
    <2> QED BY <2>2, <2>3
<1> QED BY <1>1, SessionHolds, PTL

\* When everything has settled the named pipe exists exactly while the process
\* traces, the process writes to it and one tool reads it: what
\* is_process_tracing_enabled (CheckTarget) concludes from the name is right,
\* so that a toggler ends a session that is on and begins one when none is.
THEOREM PipeIsSession == Serial /\ Spec => []PipeTellsState
<1>1. SessionInv => PipeTellsState
    <2> SUFFICES ASSUME SessionInv, Quiet
                 PROVE  /\ path # 0 <=> (proc = "running" /\ enable)
                        /\ path # 0 => fd_proc = path /\ Cardinality(Readers(path)) = 1
        BY DEF PipeTellsState
    <2>1. CASE path = 0
        BY <2>1, QuietStates DEF Gone, Off
    <2>2. CASE path # 0
        <3>1. proc = "running" /\ On
            BY <2>2, QuietStates
        <3>2. \A i, j \in Readers(path) : i = j
            BY PlaceKinds DEF SessionInv, OneHolder, Readers
        <3>3. PICK i : Readers(path) = {i}
            BY <3>1, <3>2, OnIsRead
        <3>4. Cardinality({i}) = 1
            BY FS_Singleton
        <3> QED BY <2>2, <3>1, <3>3, <3>4 DEF On
    <2> QED BY <2>1, <2>2
<1> QED BY <1>1, SessionHolds, PTL

(***************************************************************************)
(* Sessions are read whole.                                                *)
(*                                                                         *)
(* What a tool has processed together with what is in its pipe is what the *)
(* process has written to it: nothing yet, a session that is open, or a    *)
(* whole one, as the state of the process says.  Pipes that have not been  *)
(* made are empty, and one interrupt at most reaches a tool, so that no    *)
(* tool leaves before the end of the data.                                 *)
(***************************************************************************)
Data      == {"hello", "call", "bye"}
Opened(s) == Len(s) > 0 /\ s[1] = "hello" /\ \A k \in 2..Len(s) : s[k] = "call"
Whole(s)  == /\ Len(s) > 1 /\ s[1] = "hello" /\ s[Len(s)] = "bye"
             /\ \A k \in 2..(Len(s) - 1) : s[k] = "call"
Seen(i)   == got[i] \o pipe[path]

NotYet == {"none", "fork", "check", "access", "mkfifo"}
Past   == {i \in Tools : pc[i] \notin NotYet}

DataTyped ==
    /\ pipe \in [1..MaxPipes -> Seq(Data)] /\ got \in [Tools -> Seq(Data)]
    /\ killed \in BOOLEAN
Numbers ==
    /\ made <= Cardinality(Past) /\ path <= made /\ fd_proc <= made
    /\ fd_proc > 0 /\ path # 0 => fd_proc = path
Fresh     == \A n \in 1..MaxPipes : n > made => pipe[n] = <<>>
StopsOnce == \A i \in Tools : stops[i] <= 1

DataOf(i) ==
    /\ pc[i] \in {"none", "fork", "check", "stop", "access", "mkfifo"} => got[i] = <<>>
    /\ pc[i] \in {"signal", "open", "opening"} => Seen(i) = <<>>
    /\ pc[i] = "first" => /\ at = "start" => Seen(i) = <<>>
                          /\ at # "start" => Opened(Seen(i))
    /\ pc[i] = "read" => /\ at # "start"
                         /\ On \/ Ending => Opened(Seen(i))
                         /\ Off \/ (Gone /\ ~killed) => Whole(Seen(i))
                         /\ Opened(Seen(i)) \/ Whole(Seen(i))
    /\ pc[i] \in {"close", "remove", "exited"} =>
          \/ Whole(got[i])
          \/ killed /\ Opened(got[i])
          \/ pc[i] = "exited" /\ got[i] = <<>>
DataParts == \A i \in Tools : DataOf(i)

Patient == RequestStop > 1 /\ IsFiniteSet(Togglers)
DataInv ==
    Patient /\ SessionInv /\ DataTyped /\ Numbers /\ Fresh /\ StopsOnce /\ DataParts

\* What the process appends to the pipe it appends to what the tool sees.
LEMMA Appended ==
    ASSUME NEW g \in Seq(Data), NEW p \in Seq(Data), NEW d \in Data
    PROVE  /\ Append(p, d) \in Seq(Data) /\ g \o p \in Seq(Data)
           /\ g \o Append(p, d) = Append(g \o p, d)
<1>1. Append(p, d) \in Seq(Data) /\ g \o p \in Seq(Data) /\ <<d>> \in Seq(Data)
    OBVIOUS
<1>2. Append(p, d) = p \o <<d>> /\ Append(g \o p, d) = (g \o p) \o <<d>>
    BY <1>1
<1>3. g \o (p \o <<d>>) = (g \o p) \o <<d>>
    BY <1>1, ConcatAssociative
<1> QED BY <1>1, <1>2, <1>3

LEMMA SessionGrows ==
    ASSUME NEW s \in Seq(Data)
    PROVE  /\ s = <<>> => Opened(Append(s, "hello"))
           /\ Opened(s) => Opened(Append(s, "call"))
           /\ Opened(s) => Whole(Append(s, "bye"))
<1>1. \A d : /\ Len(Append(s, d)) = Len(s) + 1 /\ Append(s, d)[Len(s) + 1] = d
             /\ \A k \in 1..Len(s) : Append(s, d)[k] = s[k]
    OBVIOUS
<1>2. Len(s) \in Nat
    OBVIOUS
<1>3. s = <<>> => Opened(Append(s, "hello"))
    BY <1>1, <1>2 DEF Opened
<1>4. Opened(s) => Opened(Append(s, "call"))
    BY <1>1, <1>2 DEF Opened
<1>5. Opened(s) => Whole(Append(s, "bye"))
    BY <1>1, <1>2 DEF Opened, Whole
<1> QED BY <1>3, <1>4, <1>5

LEMMA DataNames == "hello" \in Data /\ "call" \in Data /\ "bye" \in Data
BY DEF Data

\* There is a place for every pipe.
LEMMA PipeExists ==
    ASSUME DataInv
    PROVE  /\ IsFiniteSet(Tools) /\ made <= MaxPipes
           /\ path # 0 => path \in 1..MaxPipes
           /\ fd_proc > 0 => fd_proc \in 1..MaxPipes
<1>1. IsFiniteSet(Tools)
    BY FS_AddElement DEF DataInv, Patient, Tools
<1>2. Past \in SUBSET Tools
    BY DEF Past
<1>3. Cardinality(Past) <= Cardinality(Tools) /\ Cardinality(Past) \in Nat
    BY <1>1, <1>2, FS_Subset, FS_CardinalityType
<1>4. Cardinality(Tools) \in Nat
    BY <1>1, FS_CardinalityType
<1> QED BY <1>1, <1>3, <1>4 DEF DataInv, Numbers, MaxPipes, SessionInv, Typed

\* Every tool makes one pipe at most.
LEMMA NumberSteps ==
    ASSUME SessionInv, [Next]_vars
    PROVE  \/ /\ made' = made /\ (path' = path \/ path' = 0)
              /\ fd_proc' \in {fd_proc, path, 0, -1}
              /\ \A i \in Tools : pc[i] \notin NotYet => pc'[i] \notin NotYet
           \/ /\ made' = made + 1 /\ path' = made + 1 /\ fd_proc' = fd_proc /\ ~(fd_proc > 0)
              /\ UNCHANGED <<pipe, killed, got>>
              /\ \E i \in Tools : /\ pc[i] \in NotYet /\ pc'[i] \notin NotYet
                                  /\ \A j \in Tools : j # i => pc'[j] = pc[j]
<1> DEFINE Kept == /\ made' = made /\ (path' = path \/ path' = 0)
                   /\ fd_proc' \in {fd_proc, path, 0, -1}
                   /\ \A i \in Tools : pc[i] \notin NotYet => pc'[i] \notin NotYet
<1>0. Typed /\ Launcher \in Tools /\ \A i \in Togglers : i \in Tools
    BY DEF SessionInv, Tools
<1>1. ASSUME NEW i \in Tools, NEW p \in Places, Goto(i, p), pc[i] \in NotYet \/ p \notin NotYet
      PROVE  \A j \in Tools : pc[j] \notin NotYet => pc'[j] \notin NotYet
    BY <1>0, <1>1, GotoPlace
<1>2. \A p \in {"stop", "signal", "open", "opening", "first", "read", "close", "remove", "exited"} :
         p \in Places /\ p \notin NotYet
    BY DEF NotYet, Places, Early, Late
<1>3. \A p \in {"none", "fork", "check", "access", "mkfifo"} : p \in Places /\ p \in NotYet
    BY DEF NotYet, Places, Early, Late
<1>4. SendToggle => fd_proc' = fd_proc \/ fd_proc' = 0
    BY DEF SendToggle, Die, procVars
<1>5. CASE UNCHANGED vars \/ Exec \/ ChildFails \/ WriteCalls \/ UserToggles \/ Exit \/ Terminate
    BY <1>4, <1>5 DEF vars, Exec, ChildFails, WriteCalls, UserToggles, Exit, Terminate, fifoVars,
       toolVars, procVars, Die
<1>6. CASE TargetStep /\ ~OpenPipe
    BY <1>6 DEF TargetStep, InstallHandler, HandleToggle, CheckPipe, WriteInitialData, StopSession,
       fifoVars, toolVars, procVars, Die
<1>7. CASE OpenPipe
    <2>1. UNCHANGED <<path, made>> /\ fd_proc' \in {fd_proc, path, 0, -1}
        BY <1>7 DEF OpenPipe
    <2>2. \A i \in Tools : pc'[i] = pc[i] \/ pc'[i] = "first"
        BY <1>0, <1>7 DEF OpenPipe, Typed
    <2> QED BY <1>2, <2>1, <2>2
<1>8. CASE Fork
    <2>1. UNCHANGED <<path, made, fd_proc>> /\ pc[Launcher] = "fork"
          /\ \E p \in {"access", "exited"} : Goto(Launcher, p)
        BY <1>8 DEF Fork, fifoVars
    <2> QED BY <1>0, <1>1, <1>2, <1>3, <2>1
<1>9. ASSUME NEW i \in Togglers, RunToggler(i) PROVE Kept
    BY <1>0, <1>1, <1>3, <1>9 DEF RunToggler, fifoVars, procVars
<1>10. ASSUME NEW i \in Tools, Interrupt(i) PROVE Kept
    <2>1. UNCHANGED <<path, made>> /\ (fd_proc' = fd_proc \/ fd_proc' = 0)
        BY <1>4, <1>10 DEF Interrupt, fifoVars, procVars
    <2>2. UNCHANGED pc \/ Goto(i, "first") \/ Goto(i, "close")
        BY <1>10 DEF Interrupt
    <2> QED BY <1>1, <1>2, <2>1, <2>2
<1>11. ASSUME NEW i \in Tools, CheckTarget(i) \/ AccessPipe(i) PROVE Kept
    <2>1. UNCHANGED <<path, made, fd_proc>> /\ pc[i] \in {"check", "access"}
        BY <1>11 DEF CheckTarget, AccessPipe, fifoVars, procVars
    <2>2. \E p \in {"exited", "stop", "access", "mkfifo", "open", "signal"} : Goto(i, p)
        BY <1>11 DEF CheckTarget, AccessPipe, Goto
    <2> QED BY <1>1, <1>2, <1>3, <2>1, <2>2
<1>12. ASSUME NEW i \in Tools, StopTracing(i) \/ SignalTarget(i) PROVE Kept
    BY <1>1, <1>2, <1>4, <1>12 DEF StopTracing, SignalTarget, fifoVars
<1>13. ASSUME NEW i \in Tools, ReadData(i) \/ EndOfData(i) \/ DisconnectInput(i) PROVE Kept
    BY <1>1, <1>2, <1>13 DEF ReadData, EndOfData, DisconnectInput, fifoVars, procVars
<1>14. ASSUME NEW i \in Tools, RemovePipe(i) PROVE Kept
    <2>1. path' = 0 /\ made' = made /\ Goto(i, "exited") /\ (fd_proc' = fd_proc \/ fd_proc' = 0)
        BY <1>14 DEF RemovePipe, Die, procVars
    <2> QED BY <1>1, <1>2, <2>1
<1>15. ASSUME NEW i \in Tools, ConnectInput(i) PROVE Kept
    <2>1. UNCHANGED <<path, made>> /\ fd_proc' \in {fd_proc, path}
        BY <1>15 DEF ConnectInput
    <2>2. Goto(i, "first") \/ Goto(i, "opening")
        BY <1>15 DEF ConnectInput, Goto
    <2> QED BY <1>1, <1>2, <2>1, <2>2
<1>16. ASSUME NEW i \in Tools, MakePipe(i)
       PROVE  /\ made' = made + 1 /\ path' = made + 1 /\ fd_proc' = fd_proc /\ ~(fd_proc > 0)
              /\ UNCHANGED <<pipe, killed, got>>
              /\ pc[i] \in NotYet /\ pc'[i] \notin NotYet
              /\ \A j \in Tools : j # i => pc'[j] = pc[j]
    <2>1. pc[i] = "mkfifo" /\ Phase(i) /\ UNCHANGED <<pipe, killed, got, fd_proc>>
        BY <1>16 DEF MakePipe, SessionInv, Phases, procVars
    <2>2. path = 0 /\ ~(fd_proc > 0)
        BY <2>1 DEF Phase, Child, Gone, Off, Closed
    <2>3. made' = made + 1 /\ path' = made + 1 /\ \E p \in {"open", "signal"} : Goto(i, p)
        BY <1>16, <2>2 DEF MakePipe, Goto
    <2> QED BY <1>0, <1>2, <1>3, <2>1, <2>2, <2>3, GotoPlace
<1> QED BY <1>5, <1>6, <1>7, <1>8, <1>9, <1>10, <1>11, <1>12, <1>13, <1>14, <1>15, <1>16
        DEF Next, ToolStep, TargetStep

LEMMA NumbersStep ==
    ASSUME DataInv, [Next]_vars, Typed'
    PROVE  Numbers'
<1>0. IsFiniteSet(Tools) /\ SessionInv /\ Numbers /\ Typed
    BY PipeExists DEF DataInv, SessionInv
<1>1. /\ IsFiniteSet(Past) /\ IsFiniteSet(Past') /\ Past' \in SUBSET Tools
      /\ Cardinality(Past) \in Nat /\ Cardinality(Past') \in Nat
    <2>1. Past \in SUBSET Tools /\ Past' \in SUBSET Tools
        BY DEF Past
    <2> QED BY <1>0, <2>1, FS_Subset, FS_CardinalityType
<1>2. CASE /\ made' = made /\ (path' = path \/ path' = 0)
           /\ fd_proc' \in {fd_proc, path, 0, -1}
           /\ \A i \in Tools : pc[i] \notin NotYet => pc'[i] \notin NotYet
    <2>1. Past \in SUBSET (Past')
        BY <1>2 DEF Past
    <2>2. Cardinality(Past) <= Cardinality(Past')
        BY <1>1, <2>1, FS_Subset
    <2> QED BY <1>0, <1>1, <1>2, <2>2 DEF Numbers, Typed
<1>3. CASE /\ made' = made + 1 /\ path' = made + 1 /\ fd_proc' = fd_proc /\ ~(fd_proc > 0)
           /\ \E i \in Tools : /\ pc[i] \in NotYet /\ pc'[i] \notin NotYet
                               /\ \A j \in Tools : j # i => pc'[j] = pc[j]
    <2>1. PICK i \in Tools : /\ pc[i] \in NotYet /\ pc'[i] \notin NotYet
                             /\ \A j \in Tools : j # i => pc'[j] = pc[j]
        BY <1>3
    <2>2. Past' = Past \cup {i} /\ i \notin Past
        BY <2>1 DEF Past
    <2>3. Cardinality(Past') = Cardinality(Past) + 1
        BY <1>1, <2>2, FS_AddElement
    <2> QED BY <1>0, <1>1, <1>3, <2>3 DEF Numbers, Typed
<1> QED BY <1>0, <1>2, <1>3, NumberSteps

\* What a step does to the data: it may write to or empty a pipe that has been
\* made, and a tool may process what is in its pipe.
LEMMA DataSteps ==
    ASSUME DataInv, [Next]_vars
    PROVE  /\ \/ pipe' = pipe
              \/ \E n \in 1..MaxPipes, s \in Seq(Data) :
                    n <= made /\ pipe' = [pipe EXCEPT ![n] = s]
           /\ \/ got' = got
              \/ \E i \in Tools, n \in 1..MaxPipes : got' = [got EXCEPT ![i] = @ \o pipe[n]]
           /\ killed' \in BOOLEAN /\ (killed => killed')
<1> DEFINE Pipes == \/ pipe' = pipe
                    \/ \E n \in 1..MaxPipes, s \in Seq(Data) :
                          n <= made /\ pipe' = [pipe EXCEPT ![n] = s]
           Kills == killed' = killed \/ killed' = TRUE
<1>0. /\ SessionInv /\ Typed /\ DataTyped /\ Numbers /\ <<>> \in Seq(Data)
      /\ pipe \in [1..MaxPipes -> Seq(Data)] /\ made \in Nat /\ fd_proc \in Int
      /\ killed \in BOOLEAN
    BY DEF DataInv, SessionInv, Typed, DataTyped
<1>1. /\ path # 0 => path \in 1..MaxPipes /\ path <= made
      /\ fd_proc > 0 => fd_proc \in 1..MaxPipes /\ fd_proc <= made
    BY <1>0, PipeExists DEF Numbers
<1>2. ASSUME NEW d \in Data, fd_proc > 0, pipe' = [pipe EXCEPT ![fd_proc] = Append(@, d)]
      PROVE  Pipes
    <2>1. Append(pipe[fd_proc], d) \in Seq(Data)
        BY <1>0, <1>1, <1>2
    <2> QED BY <1>0, <1>1, <1>2, <2>1
<1>3. path # 0 /\ pipe' = Drained(path) => Pipes
    BY <1>0, <1>1 DEF Drained
<1>4. \A w : Die(w) /\ w = TRUE => Kills
    BY <1>0 DEF Die
<1>20. Kills => killed' \in BOOLEAN /\ (killed => killed')
    <2>1. killed \in BOOLEAN
        BY <1>0
    <2>2. CASE killed' = TRUE
        BY <2>2, Zenon
    <2>3. CASE killed' = killed
        BY <2>1, <2>3, Zenon
    <2> QED BY <2>2, <2>3
<1>5. SendToggle \/ UNCHANGED procVars => Kills
    BY <1>4 DEF SendToggle, procVars
<1>6. \A i \in Tools : pc[i] \in Late /\ fd_in[i] > 0 =>
          fd_in[i] \in 1..MaxPipes /\ fd_in[i] <= made
    BY <1>0, <1>1 DEF SessionInv, PipeOpen
<1>7. at = "start" \/ at = "stop" => fd_proc > 0
    BY <1>0, ProcessStates DEF None, Child, Gone, Off, Told, Coming, Waits, On, Ending, Typed
<1>8. CASE UNCHANGED vars
    BY <1>0, <1>8 DEF vars
<1>9. CASE Fork \/ Exec \/ ChildFails \/ UserToggles \/ Terminate
    <2>1. UNCHANGED <<pipe, got>> /\ Kills
        BY <1>4, <1>5, <1>9 DEF Fork, Exec, ChildFails, UserToggles, Terminate, fifoVars, toolVars
    <2> QED BY <1>0, <2>1, Zenon
<1>10. CASE InstallHandler \/ HandleToggle \/ CheckPipe \/ OpenPipe
    <2>1. UNCHANGED <<got, killed>> /\ (pipe' = pipe \/ (path # 0 /\ pipe' = Drained(path)))
        BY <1>10 DEF InstallHandler, HandleToggle, CheckPipe, OpenPipe, fifoVars, toolVars
    <2> QED BY <1>0, <1>3, <2>1, Zenon
<1>11. CASE WriteInitialData \/ WriteCalls \/ StopSession
    <2>1. /\ UNCHANGED got /\ Kills
          /\ pipe' = pipe \/ (fd_proc > 0 /\ \E d \in Data : pipe' = [pipe EXCEPT ![fd_proc] = Append(@, d)])
        BY <1>4, <1>5, <1>7, <1>11, DataNames DEF WriteInitialData, WriteCalls, StopSession, toolVars
    <2>2. Pipes
        BY <1>2, <2>1
    <2> QED BY <1>20, <2>1, <2>2
<1>12. CASE Exit
    <2>1. /\ UNCHANGED got /\ killed' = (killed \/ (fd_proc > 0 /\ Readers(fd_proc) = {}))
          /\ pipe' = pipe \/ (fd_proc > 0 /\ pipe' = [pipe EXCEPT ![fd_proc] = Append(@, "bye")])
        BY <1>12 DEF Exit, Die, toolVars
    <2>2. Pipes
        BY <1>2, <2>1, DataNames
    <2>3. killed' \in BOOLEAN /\ (killed => killed')
        BY <2>1, Zenon
    <2> QED BY <2>1, <2>2, <2>3
<1>13. ASSUME NEW i \in Togglers, RunToggler(i) PROVE UNCHANGED <<pipe, got, killed>>
    BY <1>13 DEF RunToggler, fifoVars, procVars
<1>14. ASSUME NEW i \in Tools, Interrupt(i) PROVE UNCHANGED <<pipe, got>> /\ Kills
    BY <1>5, <1>14 DEF Interrupt, fifoVars
<1>15. ASSUME NEW i \in Tools, ToolStep(i), ~ReadData(i), ~ConnectInput(i)
       PROVE  UNCHANGED <<pipe, got>> /\ Kills
    BY <1>4, <1>5, <1>15 DEF ToolStep, CheckTarget, StopTracing, AccessPipe, MakePipe, SignalTarget,
       EndOfData, DisconnectInput, RemovePipe, fifoVars, procVars
<1>16. ASSUME NEW i \in Tools, ConnectInput(i) PROVE Pipes /\ UNCHANGED <<got, killed>>
    <2>1. UNCHANGED <<got, killed>> /\ (pipe' = pipe \/ (path # 0 /\ pipe' = Drained(path)))
        BY <1>16 DEF ConnectInput
    <2> QED BY <1>3, <2>1
<1>17. ASSUME NEW i \in Tools, ReadData(i)
       PROVE  /\ Pipes /\ UNCHANGED killed
              /\ got' = got \/ \E n \in 1..MaxPipes : got' = [got EXCEPT ![i] = @ \o pipe[n]]
    <2>1. fd_in[i] \in 1..MaxPipes /\ fd_in[i] <= made
        BY <1>6, <1>17, PlaceKinds DEF ReadData
    <2> QED BY <1>0, <1>17, <2>1 DEF ReadData, procVars
<1> HIDE DEF Pipes, Kills
<1>18. CASE \/ \E i \in Togglers : RunToggler(i)
            \/ \E i \in Tools : ToolStep(i) \/ Interrupt(i)
    <2>1. Pipes /\ Kills
        BY <1>13, <1>14, <1>15, <1>16, <1>17, <1>18 DEF Pipes, Kills
    <2>2. \/ got' = got
          \/ \E i \in Tools, n \in 1..MaxPipes : got' = [got EXCEPT ![i] = @ \o pipe[n]]
        BY <1>13, <1>14, <1>15, <1>16, <1>17, <1>18
    <2>3. killed' \in BOOLEAN /\ (killed => killed')
        BY <1>20, <2>1
    <2> QED BY <2>1, <2>2, <2>3 DEF Pipes
<1> QED BY <1>8, <1>9, <1>10, <1>11, <1>12, <1>18 DEF Next, TargetStep

LEMMA DataTypes ==
    ASSUME DataInv, [Next]_vars
    PROVE  DataTyped' /\ Fresh'
<1>0. /\ pipe \in [1..MaxPipes -> Seq(Data)] /\ got \in [Tools -> Seq(Data)] /\ made \in Nat
      /\ SessionInv /\ Fresh
    BY DEF DataInv, DataTyped, SessionInv, Typed
<1>1. pipe' \in [1..MaxPipes -> Seq(Data)] /\ \A n \in 1..MaxPipes : n > made => pipe'[n] = <<>>
    <2>1. CASE pipe' = pipe
        BY <1>0, <2>1 DEF Fresh
    <2>2. ASSUME NEW m \in 1..MaxPipes, NEW s \in Seq(Data), m <= made,
                 pipe' = [pipe EXCEPT ![m] = s]
          PROVE  pipe' \in [1..MaxPipes -> Seq(Data)]
                 /\ \A n \in 1..MaxPipes : n > made => pipe'[n] = <<>>
        <3>1. \A n \in 1..MaxPipes : n > made => n # m
            BY <1>0, <2>2
        <3> QED BY <1>0, <2>2, <3>1 DEF Fresh
    <2> QED BY <2>1, <2>2, DataSteps
<1>2. got' \in [Tools -> Seq(Data)]
    <2>1. CASE got' = got
        BY <1>0, <2>1
    <2>2. ASSUME NEW i \in Tools, NEW n \in 1..MaxPipes, got' = [got EXCEPT ![i] = @ \o pipe[n]]
          PROVE  got' \in [Tools -> Seq(Data)]
        <3>1. got[i] \o pipe[n] \in Seq(Data)
            BY <1>0
        <3> QED BY <1>0, <2>2, <3>1
    <2> QED BY <2>1, <2>2, DataSteps
<1>3. made' = made \/ made' = made + 1
    BY <1>0, NumberSteps
<1>4. \A n \in 1..MaxPipes : n > made' => n > made
    BY <1>0, <1>3
<1>5. Fresh'
    BY <1>1, <1>4 DEF Fresh, MaxPipes
<1>6. killed' \in BOOLEAN
    BY DataSteps
<1> QED BY <1>1, <1>2, <1>5, <1>6 DEF DataTyped

\* A user who waits interrupts a tool once at most: the first SIGINT ends the
\* session.
LEMMA StopsSteps ==
    ASSUME DataInv, [Next]_vars
    PROVE  StopsOnce'
<1>0. SessionInv /\ StopsOnce /\ stops \in [Tools -> Nat]
    BY DEF DataInv, SessionInv, Typed
<1>1. CASE UNCHANGED stops
    BY <1>0, <1>1 DEF StopsOnce
<1>2. ASSUME NEW i \in Tools, Interrupt(i) PROVE StopsOnce'
    <2>1. Quiet /\ pc[i] # "none" /\ pc[i] # "exited" /\ stops' = [stops EXCEPT ![i] = @ + 1]
        BY <1>0, <1>2 DEF Interrupt, UserMay, SessionInv
    <2>2. pc[i] = "read" /\ On
        BY <1>0, <2>1, QuietStates
    <2>3. stops[i] = 0
        BY <1>0, <2>2 DEF SessionInv, Interrupted
    <2> QED BY <1>0, <2>1, <2>3 DEF StopsOnce
<1>3. \/ UNCHANGED stops \/ \E i \in Tools : Interrupt(i)
    BY DEF Next, vars, Fork, Exec, ChildFails, WriteCalls, UserToggles, Exit, Terminate, TargetStep,
       InstallHandler, HandleToggle, CheckPipe, OpenPipe, WriteInitialData, StopSession, RunToggler,
       ToolStep, CheckTarget, StopTracing, AccessPipe, MakePipe, SignalTarget, ConnectInput,
       ReadData, EndOfData, DisconnectInput, RemovePipe, toolVars
<1> QED BY <1>1, <1>2, <1>3

-----------------------------------------------------------------------------
\* What a tool has processed so far keeps its form: tools without a pipe, ...
LEMMA DataIdle ==
    ASSUME DataInv, NEW i \in Tools, pc'[i] = pc[i], got'[i] = got[i], pc[i] \notin Holding,
           killed => killed'
    PROVE  DataOf(i)'
<1>1. DataOf(i)
    BY DEF DataInv, DataParts
<1>2. pc[i] \notin {"signal", "open", "opening", "first", "read", "close", "remove"}
    BY PlaceKinds
<1> QED BY <1>1, <1>2 DEF DataOf

\* ... and all tools while no data moves and the process does not begin, or end,
\* a session of theirs.
LEMMA DataKept ==
    ASSUME DataInv, UNCHANGED <<pipe, got, path>>, killed => killed', NEW i \in Tools,
           pc'[i] = pc[i],
           pc[i] = "first" => (at' = "start" <=> at = "start"),
           pc[i] = "read" => /\ at' # "start"
                             /\ On' \/ Ending' => On \/ Ending
                             /\ Off' \/ (Gone' /\ ~killed') => Off \/ (Gone /\ ~killed)
    PROVE  DataOf(i)'
<1>1. DataOf(i) /\ Seen(i)' = Seen(i)
    BY DEF DataInv, DataParts, Seen
<1> QED BY <1>1 DEF DataOf

\* The tools that have a pipe are one.
LEMMA OthersIdle ==
    ASSUME DataInv, NEW i \in Tools, pc[i] \in Holding \/ path = 0, UNCHANGED got,
           killed => killed', \A j \in Tools : j # i => pc'[j] = pc[j], DataOf(i)'
    PROVE  DataParts'
<1>1. ASSUME NEW j \in Tools, j # i PROVE DataOf(j)'
    <2>1. pc[j] \notin Holding
        BY <1>1 DEF DataInv, SessionInv, OneHolder, PipeHeld
    <2> QED BY <1>1, <2>1, DataIdle
<1> QED BY <1>1 DEF DataParts

\* Steps of the process that write nothing.
LEMMA ProcessData ==
    ASSUME DataInv,
           \/ UNCHANGED vars \/ Exec \/ ChildFails \/ InstallHandler \/ HandleToggle \/ CheckPipe
    PROVE  DataParts'
<1>0. SessionInv /\ Typed /\ killed \in BOOLEAN
    BY DEF DataInv, SessionInv, DataTyped
<1>1. UNCHANGED <<pipe, got, path, pc>> /\ (killed => killed')
    <2>1. UNCHANGED <<pipe, got, path, pc>>
        BY DEF vars, Exec, ChildFails, InstallHandler, HandleToggle, CheckPipe, fifoVars, toolVars
    <2>2. killed' = killed \/ killed' = TRUE
        BY <1>0 DEF vars, Exec, ChildFails, InstallHandler, HandleToggle, CheckPipe, Die
    <2> QED BY <2>1, <2>2
<1>2. CASE UNCHANGED vars
    BY <1>1, <1>2, DataKept DEF vars, On, Ending, Off, Gone, Up, Closed, DataInv, DataParts, DataOf
<1>3. CASE Exec \/ ChildFails
    <2>1. Child
        BY <1>0, <1>3, ProcessStates DEF Exec, ChildFails, None, Gone, Off, Told, Coming, Waits, On,
           Ending, Up
    <2>2. \A i \in Tools : pc[i] # "first" /\ pc[i] # "read"
        BY <1>0, <2>1 DEF SessionInv, Phases, Phase, Child, On, Off, Gone, Ending, Up
    <2> QED BY <1>1, <2>2, DataKept DEF DataParts
<1>4. CASE InstallHandler
    <2>1. /\ UNCHANGED <<killed, pending, enable, at, wait, fd_proc>>
          /\ at = "idle" /\ proc = "loading" /\ proc' = "running"
        BY <1>4 DEF InstallHandler
    <2>2. On \/ Off
        BY <1>0, <2>1, ProcessStates DEF None, Child, Gone, Told, Coming, Waits, Ending
    <2>3. (On' => On) /\ ~Ending' /\ (Off' => Off) /\ ~Gone' /\ at' # "start"
        BY <1>0, <1>1, <2>1, <2>2 DEF On, Ending, Off, Gone, Up, Closed, Typed
    <2> QED BY <1>1, <2>1, <2>3, DataKept DEF DataParts
<1>5. CASE HandleToggle
    <2>1. /\ proc = "running" /\ pending /\ at = "idle" /\ ~pending'
          /\ UNCHANGED <<proc, wait, fd_proc>> /\ (enable' <=> ~enable)
          /\ ~enable => at' = "connect"
          /\ enable /\ fd_proc > 0 => at' = "stop"
        BY <1>0, <1>5 DEF HandleToggle, Typed
    <2>2. Told \/ Ending
        BY <1>0, <2>1, ProcessStates DEF None, Child, Gone, Off, Told, Coming, Waits, On, Ending
    <2>3. \A i \in Tools : pc[i] # "first" /\ (pc[i] = "read" => Ending)
        BY <1>0, <2>1 DEF SessionInv, Phases, Phase, On, Off, Gone
    <2>4. Ending => at' = "stop" /\ Ending'
        BY <2>1 DEF Ending
    <2>5. ASSUME NEW i \in Tools, pc[i] = "read"
          PROVE  at' # "start" /\ Ending /\ ~Off' /\ ~Gone'
        BY <2>1, <2>3, <2>4, <2>5 DEF Off, Gone
    <2> QED BY <1>1, <2>3, <2>5, DataKept DEF DataParts
<1>6. CASE CheckPipe
    <2>1. Coming
        BY <1>0, <1>6, ProcessStates DEF CheckPipe, None, Child, Gone, Off, Told, Waits, On, Ending
    <2>2. \A i \in Tools : pc[i] # "first" /\ pc[i] # "read"
        BY <1>0, <2>1 DEF SessionInv, Phases, Phase, Coming, On, Off, Gone, Ending, Up
    <2> QED BY <1>1, <2>2, DataKept DEF DataParts
<1> QED BY <1>2, <1>3, <1>4, <1>5, <1>6

\* Tools on their way to a pipe.
LEMMA EarlyData ==
    ASSUME DataInv, NEW i \in Tools,
           \/ CheckTarget(i) \/ StopTracing(i) \/ AccessPipe(i) \/ RunToggler(i)
           \/ (i = Launcher /\ Fork)
    PROVE  DataParts'
<1>0. SessionInv /\ Typed /\ Phase(i) /\ DataOf(i)
    BY DEF DataInv, SessionInv, Phases, DataParts
<1>1. UNCHANGED <<pipe, got, path, killed, at>>
    <2>1. CASE StopTracing(i)
        <3>1. proc = "running"
            BY <1>0, <2>1 DEF StopTracing, Phase
        <3> QED BY <2>1, <3>1 DEF StopTracing, SendToggle, fifoVars
    <2> QED BY <2>1 DEF CheckTarget, AccessPipe, RunToggler, Fork, fifoVars, procVars
<1>2. /\ pc[i] \in {"none", "fork", "check", "stop", "access", "mkfifo"}
      /\ \E p \in {"check", "access", "mkfifo", "stop", "exited"} : Goto(i, p)
    <2>1. CASE CheckTarget(i)
        <3>1. pc[i] = "check" /\ \E p \in {"exited", "stop", "access"} : Goto(i, p)
            BY <2>1 DEF CheckTarget, Goto
        <3> QED BY <3>1
    <2>2. CASE AccessPipe(i)
        <3>1. pc[i] = "access" /\ path = 0
            BY <1>0, <2>2 DEF AccessPipe, Phase
        <3>2. Goto(i, "mkfifo")
            BY <2>2, <3>1 DEF AccessPipe, Goto
        <3> QED BY <3>1, <3>2
    <2>3. CASE i = Launcher /\ Fork
        <3>1. pc[i] = "fork" /\ \E p \in {"access", "exited"} : Goto(i, p)
            BY <2>3 DEF Fork, Goto
        <3> QED BY <3>1
    <2>4. CASE StopTracing(i) \/ RunToggler(i)
        BY <2>4 DEF StopTracing, RunToggler
    <2> QED BY <2>1, <2>2, <2>3, <2>4
<1>3. /\ pc'[i] \in {"check", "access", "mkfifo", "stop", "exited"}
      /\ \A j \in Tools : j # i => pc'[j] = pc[j]
    BY <1>0, <1>2 DEF Goto, Typed
<1>4. DataOf(i)'
    BY <1>0, <1>1, <1>2, <1>3 DEF DataOf
<1>5. CASE UNCHANGED procVars
    BY <1>1, <1>3, <1>4, <1>5, DataKept DEF procVars, On, Ending, Off, Gone, Up, Closed, DataInv,
       DataParts, DataOf
<1>6. CASE i = Launcher /\ Fork
    BY <1>0, <1>1, <1>3, <1>4, <1>6, OthersIdle DEF Fork, Phase
<1>7. CASE StopTracing(i)
    <2>1. proc = "running" /\ On /\ at = "idle"
        BY <1>0, <1>7 DEF StopTracing, Phase
    <2>2. UNCHANGED <<proc, enable, wait, fd_proc>> /\ pending' = TRUE
        BY <1>7, <2>1 DEF StopTracing, SendToggle
    <2>3. ~Off' /\ ~Gone' /\ at' # "start"
        BY <1>1, <2>1, <2>2 DEF Off, Gone
    <2> QED BY <1>1, <1>3, <1>4, <2>1, <2>3, DataKept DEF DataParts
<1> QED BY <1>5, <1>6, <1>7 DEF CheckTarget, AccessPipe, RunToggler

\* A tool that has a pipe sees sequences; it sees nothing exactly when it has
\* processed nothing and the pipe is empty.
LEMMA SeenSeq ==
    ASSUME DataInv, NEW i \in Tools, pc[i] \in Holding
    PROVE  /\ path \in 1..MaxPipes /\ pipe[path] \in Seq(Data) /\ got[i] \in Seq(Data)
           /\ Seen(i) \in Seq(Data)
           /\ Seen(i) = <<>> <=> got[i] = <<>> /\ pipe[path] = <<>>
<1>1. path \in 1..MaxPipes
    BY PipeExists DEF DataInv, SessionInv, PipeHeld
<1>2. pipe[path] \in Seq(Data) /\ got[i] \in Seq(Data)
    BY <1>1 DEF DataInv, DataTyped
<1>3. Seen(i) \in Seq(Data)
    BY <1>2 DEF Seen
<1>4. Seen(i) = <<>> <=> got[i] = <<>> /\ pipe[path] = <<>>
    BY <1>2, ConcatEmptySeq DEF Seen
<1> QED BY <1>1, <1>2, <1>3, <1>4

LEMMA EmptyConcat == ASSUME NEW s \in Seq(Data) PROVE s \o <<>> = s /\ <<>> \o s = s
BY ConcatEmptySeq

\* A pipe that has just been made is empty.
LEMMA MakePipeData ==
    ASSUME DataInv, NEW i \in Tools, MakePipe(i)
    PROVE  DataParts'
<1>0. SessionInv /\ Typed /\ Phase(i) /\ DataOf(i)
    BY DEF DataInv, SessionInv, Phases, DataParts
<1>1. pc[i] = "mkfifo" /\ path = 0 /\ got[i] = <<>>
    BY <1>0 DEF MakePipe, Phase, DataOf
<1>2. /\ made' = made + 1 /\ path' = made + 1 /\ UNCHANGED <<pipe, got, killed>>
      /\ \E p \in {"open", "signal"} : Goto(i, p)
    BY <1>1 DEF MakePipe, Goto, procVars
<1>3. pc'[i] \in {"open", "signal"} /\ \A j \in Tools : j # i => pc'[j] = pc[j]
    BY <1>0, <1>2 DEF Goto, Typed
<1>4. made + 1 \in 1..MaxPipes
    <2>1. IsFiniteSet(Tools) /\ Past \in SUBSET Tools
        BY PipeExists DEF Past
    <2>2. i \notin Past
        BY <1>1 DEF Past, NotYet
    <2>3. IsFiniteSet(Past) /\ IsFiniteSet(Past \cup {i}) /\ Past \cup {i} \in SUBSET Tools
          /\ Cardinality(Past \cup {i}) = Cardinality(Past) + 1
        BY <2>1, <2>2, FS_Subset, FS_AddElement
    <2>4. /\ Cardinality(Past) \in Nat /\ Cardinality(Tools) \in Nat
          /\ Cardinality(Past \cup {i}) <= Cardinality(Tools)
        BY <2>1, <2>3, FS_Subset, FS_CardinalityType
    <2>5. made <= Cardinality(Past) /\ made \in Nat
        BY <1>0 DEF DataInv, Numbers, Typed
    <2> QED BY <2>3, <2>4, <2>5 DEF MaxPipes
<1>5. pipe'[path'] = <<>> /\ got'[i] = <<>>
    BY <1>0, <1>1, <1>2, <1>4 DEF DataInv, Fresh, Typed
<1>6. Seen(i)' = <<>>
    BY <1>5, EmptyConcat DEF Seen
<1>7. DataOf(i)'
    BY <1>3, <1>6 DEF DataOf
<1> QED BY <1>1, <1>2, <1>3, <1>7, OthersIdle

LEMMA SignalTargetData ==
    ASSUME DataInv, NEW i \in Tools, SignalTarget(i)
    PROVE  DataParts'
<1>0. SessionInv /\ Typed /\ Phase(i) /\ DataOf(i)
    BY DEF DataInv, SessionInv, Phases, DataParts
<1>1. pc[i] = "signal" /\ proc = "running" /\ pc[i] \in Holding
    BY <1>0, PlaceKinds DEF SignalTarget, Phase
<1>2. UNCHANGED <<path, pipe, got, killed>> /\ Goto(i, "open")
    BY <1>1 DEF SignalTarget, SendToggle, fifoVars
<1>3. pc'[i] = "open" /\ \A j \in Tools : j # i => pc'[j] = pc[j]
    BY <1>0, <1>2 DEF Goto, Typed
<1>4. Seen(i)' = <<>>
    BY <1>0, <1>1, <1>2 DEF DataOf, Seen
<1>5. DataOf(i)'
    BY <1>3, <1>4 DEF DataOf
<1> QED BY <1>1, <1>2, <1>3, <1>5, OthersIdle

\* An empty pipe stays empty when it is opened.
LEMMA DrainedEmpty ==
    ASSUME DataInv, NEW i \in Tools, pc[i] \in Holding, Seen(i) = <<>>
    PROVE  Drained(path) = pipe
<1>1. path \in 1..MaxPipes /\ pipe[path] = <<>> /\ pipe \in [1..MaxPipes -> Seq(Data)]
    BY SeenSeq DEF DataInv, DataTyped
<1>2. [pipe EXCEPT ![path] = <<>>] = pipe
    BY <1>1
<1> QED BY <1>2 DEF Drained

LEMMA ConnectInputData ==
    ASSUME DataInv, NEW i \in Tools, ConnectInput(i)
    PROVE  DataParts'
<1>0. SessionInv /\ Typed /\ Phase(i) /\ DataOf(i)
    BY DEF DataInv, SessionInv, Phases, DataParts
<1>1. pc[i] = "open" /\ pc[i] \in Holding /\ path # 0 /\ Seen(i) = <<>>
    BY <1>0, PlaceKinds DEF ConnectInput, DataOf, SessionInv, PipeHeld
<1>2. fd_proc # path
    BY <1>0, <1>1 DEF Phase, Child, Gone, Told, Coming, Waits, Closed, Typed
<1>3. /\ pipe' = Drained(path) /\ UNCHANGED <<path, got, killed>>
      /\ Goto(i, IF wait = path THEN "first" ELSE "opening")
      /\ wait = path => at' = "start"
    BY <1>1, <1>2 DEF ConnectInput, Writing
<1>4. UNCHANGED pipe
    BY <1>1, <1>3, DrainedEmpty
<1>5. /\ pc'[i] = "opening" \/ (pc'[i] = "first" /\ at' = "start")
      /\ \A j \in Tools : j # i => pc'[j] = pc[j]
    BY <1>0, <1>3 DEF Goto, Typed
<1>6. Seen(i)' = <<>>
    BY <1>1, <1>3, <1>4 DEF Seen
<1>7. DataOf(i)'
    BY <1>5, <1>6 DEF DataOf
<1> QED BY <1>1, <1>3, <1>5, <1>7, OthersIdle

LEMMA OpenPipeData == DataInv /\ OpenPipe => DataParts'
<1> SUFFICES ASSUME DataInv, OpenPipe PROVE DataParts'
    OBVIOUS
<1>0. SessionInv /\ Typed /\ DataParts /\ Phases
    BY DEF DataInv, SessionInv
<1>1. at = "open" /\ UNCHANGED <<path, got, killed>>
    BY DEF OpenPipe
<1>2. Coming
    BY <1>0, <1>1, ProcessStates DEF None, Child, Gone, Off, Told, Waits, On, Ending
<1>3. path # 0
    BY <1>0, <1>1, <1>2 DEF SessionInv, NoPipe, None, Child, Gone, Off, Told, Ending
<1>4. PICK i \in Tools : pc[i] \in Holding
    BY <1>0, <1>3 DEF SessionInv, PipeHeld
<1>5. pc[i] = "open" \/ pc[i] = "opening"
    <2>1. Phase(i)
        BY <1>0 DEF Phases
    <2> QED BY <1>2, <1>4, <2>1, PlaceKinds DEF Phase, Coming, On, Off, Gone, Ending, Up
<1>6. Seen(i) = <<>>
    BY <1>0, <1>5 DEF DataParts, DataOf
<1>7. /\ pc' = pc \/ (at' = "start" /\ pc' = [j \in Tools |-> IF j \in Readers(path) /\ pc[j] = "opening"
                                                           THEN "first" ELSE pc[j]])
      /\ pipe' = pipe \/ pipe' = Drained(path)
    BY <1>3 DEF OpenPipe
<1>8. UNCHANGED pipe
    BY <1>4, <1>6, <1>7, DrainedEmpty
<1>9. \A j \in Tools : pc'[j] = pc[j] \/ (pc[j] = "opening" /\ pc'[j] = "first" /\ at' = "start")
    BY <1>0, <1>7 DEF Typed
<1>10. \A j \in Tools : j # i => pc[j] # "opening"
    BY <1>0, <1>4, PlaceKinds DEF SessionInv, OneHolder
<1>11. Seen(i)' = <<>>
    BY <1>1, <1>6, <1>8 DEF Seen
<1>12. DataOf(i)'
    BY <1>5, <1>9, <1>11 DEF DataOf
<1> QED BY <1>1, <1>4, <1>9, <1>10, <1>12, OthersIdle

\* Processing moves data from the pipe to what has been processed; one SIGINT
\* does not keep a tool from it.
LEMMA ReadDataData ==
    ASSUME DataInv, NEW i \in Tools, ReadData(i)
    PROVE  DataParts'
<1>0. SessionInv /\ Typed /\ Phase(i) /\ DataOf(i) /\ DataTyped
    BY DEF DataInv, SessionInv, Phases, DataParts
<1>1. /\ pc[i] = "first" \/ pc[i] = "read"
      /\ pc[i] \in Holding /\ fd_in[i] = path /\ path \in 1..MaxPipes
      /\ pipe[path] # <<>> /\ pipe[path] \in Seq(Data) /\ got[i] \in Seq(Data)
    <2>1. (pc[i] = "first" \/ pc[i] = "read") /\ pc[i] \in Holding /\ fd_in[i] = path
        BY <1>0, PlaceKinds DEF ReadData, SessionInv, PipeOpen
    <2>2. path \in 1..MaxPipes /\ pipe[path] \in Seq(Data) /\ got[i] \in Seq(Data)
        BY <2>1, SeenSeq
    <2> QED BY <2>1, <2>2 DEF ReadData
<1>2. ~(stops[i] >= RequestStop)
    BY <1>0, SessionAssumption DEF DataInv, StopsOnce, Patient, Typed
<1>3. /\ pipe' = [pipe EXCEPT ![path] = <<>>] /\ got' = [got EXCEPT ![i] = @ \o pipe[path]]
      /\ Goto(i, "read") /\ UNCHANGED <<path, proc, killed, pending, enable, at, wait, fd_proc>>
    BY <1>1, <1>2 DEF ReadData, procVars
<1>4. /\ pc'[i] = "read" /\ pipe'[path] = <<>> /\ got'[i] = got[i] \o pipe[path]
      /\ \A j \in Tools : j # i => pc'[j] = pc[j] /\ got'[j] = got[j]
    BY <1>0, <1>1, <1>3 DEF Goto, Typed, DataTyped
<1>5. Seen(i)' = Seen(i) /\ Seen(i) # <<>>
    <2>1. got[i] \o pipe[path] \in Seq(Data)
        BY <1>1
    <2>2. Seen(i)' = (got[i] \o pipe[path]) \o <<>>
        BY <1>3, <1>4 DEF Seen
    <2>3. Seen(i)' = Seen(i)
        BY <2>1, <2>2, EmptyConcat DEF Seen
    <2> QED BY <1>1, <2>3, SeenSeq
<1>6. /\ On' <=> On
      /\ Ending' <=> Ending
      /\ Off' <=> Off
      /\ Gone' <=> Gone
    BY <1>3 DEF On, Ending, Off, Gone, Up, Closed
<1>7. DataOf(i)'
    <2>1. CASE pc[i] = "first"
        <3>1. at # "start" /\ Opened(Seen(i)) /\ On
            BY <1>0, <1>5, <2>1 DEF DataOf, Phase
        <3>2. ~Off /\ ~Gone
            BY <1>0, <3>1 DEF On, Off, Gone
        <3> QED BY <1>3, <1>4, <1>5, <1>6, <3>1, <3>2 DEF DataOf
    <2>2. CASE pc[i] = "read"
        BY <1>0, <1>3, <1>4, <1>5, <1>6, <2>2 DEF DataOf
    <2> QED BY <1>1, <2>1, <2>2
<1>8. ASSUME NEW j \in Tools, j # i PROVE DataOf(j)'
    <2>1. pc[j] \notin Holding
        BY <1>0, <1>1, <1>8 DEF SessionInv, OneHolder
    <2> QED BY <1>3, <1>4, <1>8, <2>1, DataIdle
<1> QED BY <1>7, <1>8 DEF DataParts

\* A tool comes to the end of the data when the session is over.
LEMMA EndOfDataData ==
    ASSUME DataInv, NEW i \in Tools, EndOfData(i)
    PROVE  DataParts'
<1>0. SessionInv /\ Typed /\ Phase(i) /\ DataOf(i)
    BY DEF DataInv, SessionInv, Phases, DataParts
<1>1. (pc[i] = "first" \/ pc[i] = "read") /\ pc[i] \in Holding /\ fd_in[i] = path
    BY <1>0, PlaceKinds DEF EndOfData, SessionInv, PipeOpen
<1>2. path > 0 /\ got[i] \in Seq(Data) /\ path # 0
    BY <1>0, <1>1, SeenSeq DEF Typed
<1>3. ~Writing(path) /\ pipe[path] = <<>>
    BY <1>1, <1>2 DEF EndOfData
<1>4. ~On /\ ~Ending
    BY <1>2, <1>3 DEF Writing, On, Ending, DataInv, Numbers
<1>5. pc[i] = "read" /\ (Off \/ Gone)
    BY <1>0, <1>1, <1>4 DEF Phase
<1>6. Seen(i) = got[i]
    BY <1>2, <1>3, EmptyConcat DEF Seen
<1>7. Whole(got[i]) \/ (killed /\ Opened(got[i]))
    BY <1>0, <1>5, <1>6 DEF DataOf
<1>8. Goto(i, "close") /\ UNCHANGED <<got, killed>>
    BY DEF EndOfData, procVars
<1>9. pc'[i] = "close" /\ \A j \in Tools : j # i => pc'[j] = pc[j]
    BY <1>0, <1>8 DEF Goto, Typed
<1>10. DataOf(i)'
    BY <1>7, <1>8, <1>9 DEF DataOf
<1> QED BY <1>1, <1>8, <1>9, <1>10, OthersIdle

LEMMA LastData ==
    ASSUME DataInv, NEW i \in Tools, DisconnectInput(i) \/ RemovePipe(i)
    PROVE  DataParts'
<1>0. SessionInv /\ Typed /\ DataOf(i) /\ killed \in BOOLEAN
    BY DEF DataInv, SessionInv, Phases, DataParts, DataTyped
<1>1. /\ pc[i] \in {"close", "remove"} /\ pc[i] \in Holding /\ UNCHANGED got
      /\ \E p \in {"remove", "exited"} : Goto(i, p)
    BY PlaceKinds DEF DisconnectInput, RemovePipe
<1>2. killed' = killed \/ killed' = TRUE
    BY <1>0 DEF DisconnectInput, RemovePipe, Die, procVars
<1>3. pc'[i] \in {"remove", "exited"} /\ \A j \in Tools : j # i => pc'[j] = pc[j]
    BY <1>0, <1>1 DEF Goto, Typed
<1>4. DataOf(i)'
    BY <1>0, <1>1, <1>2, <1>3 DEF DataOf
<1>5. killed => killed'
    BY <1>2
<1> QED BY <1>1, <1>3, <1>4, <1>5, OthersIdle

\* What the process writes during a session the tool that is reading it sees.
LEMMA Written ==
    ASSUME DataInv, On \/ Ending, NEW d \in Data, UNCHANGED <<path, got>>,
           Readers(fd_proc) # {} => pipe' = [pipe EXCEPT ![fd_proc] = Append(@, d)],
           NEW i \in Tools
    PROVE  \/ pc[i] \notin {"signal", "open", "opening", "first", "read"}
           \/ /\ pc[i] = "first" \/ pc[i] = "read"
              /\ Seen(i) \in Seq(Data) /\ Seen(i)' = Append(Seen(i), d)
              /\ Readers(fd_proc) # {}
<1>0. SessionInv /\ Typed /\ Phase(i) /\ Numbers /\ pipe \in [1..MaxPipes -> Seq(Data)]
    BY DEF DataInv, SessionInv, Phases, DataTyped
<1>1. pc[i] # "signal" /\ pc[i] # "open" /\ pc[i] # "opening"
    BY <1>0 DEF Phase, On, Ending, Child, Gone, Told, Coming, Waits, Off, Closed, Typed
<1>2. CASE pc[i] = "first" \/ pc[i] = "read"
    <2>1. pc[i] \in Holding /\ fd_in[i] = path
        BY <1>0, <1>2, PlaceKinds DEF SessionInv, PipeOpen
    <2>2. path \in 1..MaxPipes /\ pipe[path] \in Seq(Data) /\ got[i] \in Seq(Data) /\ Seen(i) \in Seq(Data)
        BY <2>1, SeenSeq
    <2>3. fd_proc = path
        BY <1>0, <2>2 DEF On, Ending, Numbers
    <2>4. i \in Readers(fd_proc)
        BY <1>2, <2>1, <2>3 DEF Readers
    <2>5. pipe'[path] = Append(pipe[path], d)
        BY <1>0, <2>2, <2>3, <2>4
    <2>6. Seen(i)' = got[i] \o Append(pipe[path], d)
        BY <2>5 DEF Seen
    <2> QED BY <1>2, <2>2, <2>4, <2>6, Appended DEF Seen
<1> QED BY <1>1, <1>2

\* What a tool has processed counts only, unless it has a pipe.
LEMMA DataClosed ==
    ASSUME DataInv, NEW i \in Tools, pc'[i] = pc[i], got'[i] = got[i],
           pc[i] \notin {"signal", "open", "opening", "first", "read"}, killed => killed'
    PROVE  DataOf(i)'
<1>1. DataOf(i)
    BY DEF DataInv, DataParts
<1> QED BY <1>1 DEF DataOf

LEMMA WriteData ==
    ASSUME DataInv, WriteInitialData \/ WriteCalls \/ StopSession
    PROVE  DataParts'
<1>0. SessionInv /\ Typed /\ DataParts /\ Phases /\ killed \in BOOLEAN
    BY DEF DataInv, SessionInv, DataTyped
<1>1. UNCHANGED <<path, pc, got>>
    BY DEF WriteInitialData, WriteCalls, StopSession, toolVars
<1>2. killed => killed'
    BY DataSteps DEF Next, TargetStep
<1>3. CASE WriteInitialData
    <2>1. On /\ at = "start"
        BY <1>0, <1>3, ProcessStates DEF WriteInitialData, None, Child, Gone, Off, Told, Coming,
           Waits, On, Ending
    <2>2. Readers(fd_proc) # {}
        BY <1>0, <2>1, OnIsRead DEF On
    <2>3. /\ pipe' = [pipe EXCEPT ![fd_proc] = Append(@, "hello")] /\ at' = "idle"
        BY <1>3, <2>2 DEF WriteInitialData
    <2>4. ASSUME NEW i \in Tools PROVE DataOf(i)'
        <3>1. DataOf(i)
            BY <1>0 DEF DataParts
        <3>2. CASE pc[i] \notin {"signal", "open", "opening", "first", "read"}
            BY <1>1, <1>2, <3>2, DataClosed
        <3>3. CASE /\ pc[i] = "first" \/ pc[i] = "read"
                   /\ Seen(i) \in Seq(Data) /\ Seen(i)' = Append(Seen(i), "hello")
            <4>1. pc[i] = "first" /\ Seen(i) = <<>>
                BY <2>1, <3>1, <3>3 DEF DataOf
            <4>2. Opened(Seen(i)')
                BY <3>3, <4>1, SessionGrows
            <4> QED BY <1>1, <2>3, <4>1, <4>2 DEF DataOf, Opened
        <3> QED BY <1>1, <2>1, <2>3, <3>2, <3>3, DataNames, Written
    <2> QED BY <2>4 DEF DataParts
<1>4. CASE WriteCalls
    <2>1. /\ at = "idle" /\ enable /\ fd_proc > 0
          /\ Readers(fd_proc) # {} => /\ pipe' = [pipe EXCEPT ![fd_proc] = Append(@, "call")]
                                      /\ UNCHANGED procVars
        BY <1>4 DEF WriteCalls
    <2>2. On \/ Ending
        BY <1>0, <2>1, ProcessStates DEF None, Child, Gone, Off, Told, Coming, Waits, Closed, Typed
    <2>3. ASSUME NEW i \in Tools PROVE DataOf(i)'
        <3>1. DataOf(i)
            BY <1>0 DEF DataParts
        <3>2. CASE pc[i] \notin {"signal", "open", "opening", "first", "read"}
            BY <1>1, <1>2, <3>2, DataClosed
        <3>3. CASE /\ pc[i] = "first" \/ pc[i] = "read"
                   /\ Seen(i) \in Seq(Data) /\ Seen(i)' = Append(Seen(i), "call")
                   /\ Readers(fd_proc) # {}
            <4>1. Opened(Seen(i))
                BY <2>1, <2>2, <3>1, <3>3 DEF DataOf
            <4>2. Opened(Seen(i)')
                BY <3>3, <4>1, SessionGrows
            <4>3. at' = "idle" /\ ~Off' /\ ~Gone'
                BY <2>1, <2>2, <3>3 DEF procVars, On, Ending, Up, Off, Gone
            <4> QED BY <1>1, <3>3, <4>2, <4>3 DEF DataOf, Opened
        <3> QED BY <1>1, <2>1, <2>2, <3>2, <3>3, DataNames, Written
    <2> QED BY <2>3 DEF DataParts
<1>5. CASE StopSession
    <2>1. /\ at = "stop"
          /\ Readers(fd_proc) # {} => /\ pipe' = [pipe EXCEPT ![fd_proc] = Append(@, "bye")]
                                      /\ at' = "idle" /\ fd_proc' = 0
        BY <1>5 DEF StopSession
    <2>2. Ending
        BY <1>0, <2>1, ProcessStates DEF None, Child, Gone, Off, Told, Coming, Waits, On
    <2>3. ASSUME NEW i \in Tools PROVE DataOf(i)'
        <3>1. DataOf(i)
            BY <1>0 DEF DataParts
        <3>2. CASE pc[i] \notin {"signal", "open", "opening", "first", "read"}
            BY <1>1, <1>2, <3>2, DataClosed
        <3>3. CASE /\ pc[i] = "first" \/ pc[i] = "read"
                   /\ Seen(i) \in Seq(Data) /\ Seen(i)' = Append(Seen(i), "bye")
                   /\ Readers(fd_proc) # {}
            <4>1. Phase(i) /\ ~On
                BY <1>0, <2>1 DEF Phases, On
            <4>2. pc[i] = "read" /\ Opened(Seen(i))
                BY <2>2, <3>1, <3>3, <4>1 DEF DataOf, Phase
            <4>3. Whole(Seen(i)')
                BY <3>3, <4>2, SessionGrows
            <4>4. at' = "idle" /\ ~On' /\ ~Ending'
                BY <1>0, <1>1, <2>1, <3>3 DEF On, Ending, Typed
            <4> QED BY <1>1, <4>2, <4>3, <4>4 DEF DataOf, Whole
        <3> QED BY <1>1, <2>1, <2>2, <3>2, <3>3, DataNames, Written
    <2> QED BY <2>3 DEF DataParts
<1> QED BY <1>3, <1>4, <1>5

\* A toggle signal that comes from the user, or from the tool he interrupts.
LEMMA ToggledData ==
    ASSUME DataInv, Quiet, SendToggle, UNCHANGED <<pipe, got, path, pc>>
    PROVE  DataParts'
<1>0. SessionInv /\ killed \in BOOLEAN /\ DataParts
    BY DEF DataInv, DataTyped
<1>1. UNCHANGED killed
    BY DEF SendToggle, Quiet, procVars
<1>2. CASE path = 0
    <2>1. \A i \in Tools : pc[i] = "none" \/ pc[i] = "exited"
        BY <1>0, <1>2, QuietStates
    <2> QED BY <1>1, <2>1, DataClosed DEF DataParts
<1>3. CASE path # 0
    <2>1. /\ proc = "running" /\ On /\ at = "idle"
          /\ \A i \in Tools : pc[i] = "none" \/ pc[i] = "exited" \/ pc[i] = "read"
        BY <1>0, <1>3, QuietStates
    <2>2. pending' = TRUE /\ UNCHANGED <<proc, at>>
        BY <2>1 DEF SendToggle
    <2>3. at' # "start" /\ ~Off' /\ ~Gone'
        BY <2>1, <2>2 DEF Off, Gone
    <2> QED BY <1>1, <2>1, <2>3, DataKept DEF DataParts
<1> QED BY <1>2, <1>3

LEMMA InterruptData ==
    ASSUME DataInv, NEW i \in Tools, Interrupt(i)
    PROVE  DataParts'
<1>0. SessionInv /\ Typed
    BY DEF DataInv, SessionInv
<1>1. Quiet /\ UNCHANGED <<pipe, got, path>>
    BY <1>0 DEF Interrupt, UserMay, SessionInv, fifoVars
<1>2. pc[i] = "read" /\ On
    BY <1>0, <1>1, QuietStates DEF Interrupt
<1>3. fd_in[i] = path /\ path # 0 /\ stops[i] = 0
    BY <1>0, <1>2, PlaceKinds DEF SessionInv, PipeOpen, Interrupted, On, Typed
<1>4. SendToggle
    BY <1>2, <1>3 DEF Interrupt
<1>5. stops'[i] = 1 /\ ~(stops'[i] >= RequestStop)
    BY <1>0, <1>3, SessionAssumption DEF Interrupt, Typed, DataInv, Patient
<1>6. UNCHANGED pc
    BY <1>2, <1>5 DEF Interrupt
<1> QED BY <1>1, <1>4, <1>6, ToggledData

\* The process exits, or is terminated.
LEMMA ExitData ==
    ASSUME DataInv, Exit \/ Terminate
    PROVE  DataParts'
<1>0. SessionInv /\ Typed /\ Quiet /\ killed \in BOOLEAN /\ DataParts
    BY DEF DataInv, SessionInv, DataTyped, Exit, Terminate, UserMay
<1>1. UNCHANGED <<path, pc, got>> /\ proc' = "gone" /\ at' = "idle"
    BY DEF Exit, Terminate, Die, fifoVars, toolVars
<1>2. killed => killed'
    BY DataSteps DEF Next
<1>3. CASE path = 0
    <2>1. \A i \in Tools : pc[i] = "none" \/ pc[i] = "exited"
        BY <1>0, <1>3, QuietStates
    <2> QED BY <1>1, <1>2, <2>1, DataClosed DEF DataParts
<1>4. CASE path # 0
    <2>1. /\ On /\ ~Gone /\ ~Off
          /\ \A i \in Tools : pc[i] = "none" \/ pc[i] = "exited" \/ pc[i] = "read"
        BY <1>0, <1>4, QuietStates DEF On, Gone, Off
    <2>2. ~On' /\ ~Ending' /\ ~Off'
        BY <1>1 DEF On, Ending, Off, Up
    <2>3. CASE Terminate
        <3>1. UNCHANGED pipe /\ killed'
            BY <1>0, <2>3 DEF Terminate, Die, fifoVars
        <3> QED BY <1>1, <1>2, <2>1, <2>2, <3>1, DataKept DEF DataParts
    <2>4. CASE Exit
        <3>1. fd_proc > 0 /\ Readers(fd_proc) # {}
            BY <1>0, <2>1, OnIsRead DEF On, Typed
        <3>2. pipe' = [pipe EXCEPT ![fd_proc] = Append(@, "bye")]
            BY <2>4, <3>1 DEF Exit
        <3>3. ASSUME NEW i \in Tools PROVE DataOf(i)'
            <4>1. DataOf(i)
                BY <1>0 DEF DataParts
            <4>2. CASE pc[i] # "read"
                BY <1>1, <1>2, <2>1, <4>2, DataClosed
            <4>3. CASE pc[i] = "read"
                <5>1. Seen(i) \in Seq(Data) /\ Seen(i)' = Append(Seen(i), "bye")
                    BY <1>1, <2>1, <3>2, <4>3, DataNames, Written
                <5>2. Opened(Seen(i))
                    BY <2>1, <4>1, <4>3 DEF DataOf
                <5>3. Whole(Seen(i)')
                    BY <5>1, <5>2, SessionGrows
                <5> QED BY <1>1, <2>2, <4>3, <5>3 DEF DataOf, Whole
            <4> QED BY <4>2, <4>3
        <3> QED BY <3>3 DEF DataParts
    <2> QED BY <2>3, <2>4
<1> QED BY <1>3, <1>4

-----------------------------------------------------------------------------
LEMMA DataStep == DataInv /\ [Next]_vars => DataInv'
<1> SUFFICES ASSUME DataInv, [Next]_vars PROVE DataInv'
    OBVIOUS
<1>1. SessionInv' /\ Typed'
    BY SessionStep DEF DataInv, SessionInv
<1>2. Patient'
    BY DEF DataInv, Patient
<1>3. DataTyped' /\ Fresh' /\ StopsOnce' /\ Numbers'
    BY <1>1, DataTypes, StopsSteps, NumbersStep
<1>4. DataParts'
    <2>0. Launcher \in Tools /\ \A i \in Togglers : i \in Tools
        BY DEF Tools
    <2>1. CASE UNCHANGED vars \/ Exec \/ ChildFails \/ WriteCalls \/ Exit \/ Terminate
        BY <2>1, ProcessData, WriteData, ExitData
    <2>2. CASE TargetStep
        BY <2>2, ProcessData, OpenPipeData, WriteData DEF TargetStep
    <2>3. CASE Fork \/ \E i \in Togglers : RunToggler(i)
        BY <2>0, <2>3, EarlyData
    <2>4. CASE UserToggles
        BY <2>4, ToggledData DEF UserToggles, UserMay, DataInv, SessionInv, fifoVars, toolVars
    <2>5. ASSUME NEW i \in Tools, ToolStep(i) \/ Interrupt(i) PROVE DataParts'
        BY <2>5, EarlyData, MakePipeData, SignalTargetData, ConnectInputData, ReadDataData,
           EndOfDataData, LastData, InterruptData DEF ToolStep
    <2> QED BY <2>1, <2>2, <2>3, <2>4, <2>5 DEF Next
<1> QED BY <1>1, <1>2, <1>3, <1>4 DEF DataInv

LEMMA DataInit == Serial /\ Patient /\ Init => DataInv
<1> SUFFICES ASSUME Serial, Patient, Init PROVE DataInv
    OBVIOUS
<1>1. SessionInv
    BY SessionInit
<1>2. /\ \A i \in Tools : got[i] = <<>> /\ stops[i] = 0 /\ (pc[i] = "fork" \/ pc[i] = "none")
      /\ \A n \in 1..MaxPipes : pipe[n] = <<>>
    BY DEF Init
<1>3. DataTyped
    <2>1. killed \in BOOLEAN
        BY Zenon DEF Init
    <2> QED BY <2>1 DEF Init, DataTyped
<1>4. Numbers
    <2>1. Past = {}
        BY <1>2 DEF Past, NotYet
    <2>2. Cardinality(Past) = 0
        BY <2>1, FS_EmptySet
    <2> QED BY <2>2 DEF Init, Numbers
<1>5. Fresh /\ StopsOnce /\ DataParts
    BY <1>2 DEF Fresh, StopsOnce, DataParts, DataOf
<1> QED BY <1>1, <1>3, <1>4, <1>5 DEF DataInv

\* A tool that has exited has processed nothing or one whole session, from the
\* data written first (write_initial_data) to the data written last, unless the
\* process was terminated; for any finite number of sp-rtrace instances, when a
\* single SIGINT does not yet stop the processing (REQUEST_STOP is 2).
THEOREM SessionsWhole == Serial /\ Patient /\ Spec => []WholeSessions
<1>1. Serial /\ Patient /\ Spec => []DataInv
    BY DataInit, DataStep, PTL DEF Spec
<1>2. DataInv => WholeSessions
    <2> SUFFICES ASSUME DataInv, NEW i \in Tools, pc[i] = "exited", got[i] # <<>>
                 PROVE  /\ \A j \in DOMAIN got[i] : (got[i][j] = "hello") <=> (j = 1)
                        /\ \A j \in DOMAIN got[i] : got[i][j] = "bye" => j = Len(got[i])
                        /\ killed \/ got[i][Len(got[i])] = "bye"
        BY DEF WholeSessions
    <2>1. got[i] \in Seq(Data) /\ (Whole(got[i]) \/ (killed /\ Opened(got[i])))
        BY DEF DataInv, DataTyped, DataParts, DataOf
    <2>2. DOMAIN got[i] = 1..Len(got[i]) /\ Len(got[i]) \in Nat
        BY <2>1
    <2>3. CASE Whole(got[i])
        BY <2>2, <2>3 DEF Whole
    <2>4. CASE killed /\ Opened(got[i])
        BY <2>2, <2>4 DEF Opened
    <2> QED BY <2>1, <2>3, <2>4
<1> QED BY <1>1, <1>2, PTL

=============================================================================
