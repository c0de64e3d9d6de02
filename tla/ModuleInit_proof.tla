-------------------------- MODULE ModuleInit_proof --------------------------
(***************************************************************************)
(* Proofs about the start of the tracing libraries (ModuleInit): for any   *)
(* threads, any libraries in any order and any size of the module table,   *)
(* no call is written with an undeclared resource type, and the libraries  *)
(* end up switched as the enable option says.                              *)
(***************************************************************************)
EXTENDS ModuleInit, TLAPS

(***************************************************************************)
(* What the steps of a call of trace_initialize do to the stacks.          *)
(***************************************************************************)

\* Some call is at one of the places; one in library m is.
Some(pcs) == \E t \in Threads : \E i \in DOMAIN stack[t] : stack[t][i].pc \in pcs
Has(m, pcs) ==
    \E t \in Threads : \E i \in DOMAIN stack[t] :
        stack[t][i].lib = m /\ stack[t][i].pc \in pcs

\* The top call of thread t gets to pc, returns, or calls into library m.
Moved(t, pc) ==
    /\ \A u \in Threads : Len(stack'[u]) = Len(stack[u])
    /\ \A u \in Threads : DOMAIN stack'[u] = DOMAIN stack[u]
    /\ \A u \in Threads : \A i \in DOMAIN stack[u] :
          /\ stack'[u][i].lib = stack[u][i].lib
          /\ stack'[u][i].pc = IF u = t /\ i = Len(stack[t]) THEN pc ELSE stack[u][i].pc
Popped(t) ==
    /\ \A u \in Threads \ {t} : stack'[u] = stack[u]
    /\ Len(stack'[t]) = Len(stack[t]) - 1
    /\ DOMAIN stack'[t] = 1..(Len(stack[t]) - 1)
    /\ \A i \in 1..(Len(stack[t]) - 1) : stack'[t][i] = stack[t][i]
Pushed(t, m) ==
    /\ \A u \in Threads \ {t} : stack'[u] = stack[u]
    /\ Len(stack'[t]) = Len(stack[t]) + 1
    /\ DOMAIN stack'[t] = 1..(Len(stack[t]) + 1)
    /\ \A i \in DOMAIN stack[t] : /\ stack'[t][i].lib = stack[t][i].lib
                                  /\ stack'[t][i].pc = stack[t][i].pc
    /\ stack'[t][Len(stack[t]) + 1].lib = m
    /\ stack'[t][Len(stack[t]) + 1].pc = "enter"

StackOK == stack \in [Threads -> Seq(Frames)]

\* The call at the top of a thread's stack is one of its frames.
LEMMA TopFrame ==
    ASSUME StackOK, NEW t \in Threads, NEW pc, At(t, pc)
    PROVE  /\ Len(stack[t]) \in Nat \ {0}
           /\ DOMAIN stack[t] = 1..Len(stack[t])
           /\ Len(stack[t]) \in DOMAIN stack[t]
           /\ Top(t) = stack[t][Len(stack[t])]
           /\ Top(t) \in Frames
           /\ Top(t).pc = pc
BY DEF StackOK, At, Top

\* Every call is in one of the libraries.
LEMMA FrameLibs ==
    ASSUME StackOK
    PROVE  \A u \in Threads : \A i \in DOMAIN stack[u] : stack[u][i].lib \in Libs
<1> SUFFICES ASSUME NEW u \in Threads, NEW i \in DOMAIN stack[u] PROVE stack[u][i].lib \in Libs
    OBVIOUS
<1>1. stack[u] \in Seq(Frames)
    BY DEF StackOK
<1>2. stack[u][i] \in Frames
    BY <1>1
<1> QED BY <1>2 DEF Frames

\* Goto moves the top call of trace_initialize.
LEMMA GotoMoves ==
    ASSUME StackOK, NEW t \in Threads, NEW from, At(t, from), NEW pc \in Pcs, Goto(t, pc)
    PROVE  StackOK' /\ Moved(t, pc)
<1>1. /\ Len(stack[t]) \in DOMAIN stack[t] /\ stack[t] \in Seq(Frames)
      /\ stack[t][Len(stack[t])] \in Frames
    BY TopFrame DEF StackOK
<1> DEFINE top == [stack[t][Len(stack[t])] EXCEPT !.pc = pc]
<1>2. top \in Frames /\ top.pc = pc /\ top.lib = stack[t][Len(stack[t])].lib
    BY <1>1 DEF Frames
<1>3. stack' = [stack EXCEPT ![t] = [stack[t] EXCEPT ![Len(stack[t])] = top]]
    BY DEF Goto
<1> HIDE DEF top
<1>4. StackOK'
    BY <1>1, <1>2, <1>3 DEF StackOK
<1>5. Moved(t, pc)
    BY <1>1, <1>2, <1>3 DEF StackOK, Moved
<1> QED BY <1>4, <1>5

\* So does the start of a call inside sp_rtrace_initialize.
LEMMA PassMoves ==
    ASSUME StackOK, NEW t \in Threads, NEW from, At(t, from), NEW pc \in Pcs, Pass(t, pc),
           Libraries \in Seq(STRING)
    PROVE  StackOK' /\ Moved(t, pc)
<1>1. /\ Len(stack[t]) \in DOMAIN stack[t] /\ stack[t] \in Seq(Frames)
      /\ stack[t][Len(stack[t])] \in Frames
    BY TopFrame DEF StackOK
<1> DEFINE top == [lib |-> stack[t][Len(stack[t])].lib, pc |-> pc, passed |-> 0]
<1>2. top \in Frames /\ top.pc = pc /\ top.lib = stack[t][Len(stack[t])].lib
    <2>1. 0 \in 0..Len(Libraries)
        OBVIOUS
    <2>2. stack[t][Len(stack[t])].lib \in Libs
        BY <1>1 DEF Frames
    <2> QED BY <2>1, <2>2 DEF Frames
<1>3. stack' = [stack EXCEPT ![t] = [stack[t] EXCEPT ![Len(stack[t])] = top]]
    BY TopFrame DEF Pass
<1> HIDE DEF top
<1>4. StackOK'
    BY <1>1, <1>2, <1>3 DEF StackOK
<1>5. Moved(t, pc)
    BY <1>1, <1>2, <1>3 DEF StackOK, Moved
<1> QED BY <1>4, <1>5

\* Return pops it.
LEMMA ReturnPops ==
    ASSUME StackOK, NEW t \in Threads, NEW from, At(t, from), Return(t)
    PROVE  StackOK' /\ Popped(t)
<1>1. Len(stack[t]) \in Nat \ {0} /\ stack[t] \in Seq(Frames)
    BY TopFrame DEF StackOK
<1>2. stack' = [stack EXCEPT ![t] = SubSeq(stack[t], 1, Len(stack[t]) - 1)]
    BY DEF Return, Pop
<1> DEFINE rest == SubSeq(stack[t], 1, Len(stack[t]) - 1)
<1>3. /\ rest \in Seq(Frames) /\ Len(rest) = Len(stack[t]) - 1
      /\ DOMAIN rest = 1..(Len(stack[t]) - 1)
      /\ \A i \in 1..(Len(stack[t]) - 1) : rest[i] = stack[t][i]
    BY <1>1
<1> HIDE DEF rest
<1>4. stack' = [stack EXCEPT ![t] = rest]
    BY <1>2 DEF rest
<1>5. StackOK'
    BY <1>3, <1>4 DEF StackOK
<1>6. Popped(t)
    BY <1>3, <1>4 DEF StackOK, Popped
<1> QED BY <1>5, <1>6

\* A call inside sp_rtrace_initialize goes by a library, or calls into it.
LEMMA PassNextMoves ==
    ASSUME StackOK, NEW t \in Threads, NEW pc, At(t, pc), ~AllPassed(t), PassNext(t),
           Libraries \in Seq(STRING)
    PROVE  StackOK' /\ (Moved(t, pc) \/ \E m \in Libs : Pushed(t, m))
<1>1. /\ Len(stack[t]) \in DOMAIN stack[t] /\ stack[t] \in Seq(Frames)
      /\ stack[t][Len(stack[t])] \in Frames /\ stack[t][Len(stack[t])].pc = pc
      /\ Top(t) = stack[t][Len(stack[t])]
    BY TopFrame DEF StackOK
<1> DEFINE i   == Top(t).passed + 1
           m   == Libraries[i]
           top == [stack[t][Len(stack[t])] EXCEPT !.passed = i]
           rest == [stack[t] EXCEPT ![Len(stack[t])] = top]
<1>2. i \in 1..Len(Libraries)
    BY <1>1 DEF AllPassed, Frames
<1>3. m \in Libs
    BY <1>2 DEF Libs, Range
<1>4. top \in Frames /\ top.pc = pc /\ top.lib = stack[t][Len(stack[t])].lib
    BY <1>1, <1>2 DEF Frames
<1>5. /\ rest \in Seq(Frames) /\ Len(rest) = Len(stack[t]) /\ DOMAIN rest = DOMAIN stack[t]
      /\ rest[Len(stack[t])] = top
      /\ \A j \in DOMAIN stack[t] : j # Len(stack[t]) => rest[j] = stack[t][j]
    <2> HIDE DEF top
    <2> QED BY <1>1, <1>4
<1>6. \/ stack' = [stack EXCEPT ![t] = rest]
      \/ stack' = [stack EXCEPT ![t] = Append(rest, Frame(m))]
    BY DEF PassNext
<1>7. Frame(m) \in Frames /\ Frame(m).lib = m /\ Frame(m).pc = "enter"
    BY <1>3 DEF Frame, Frames, Pcs
<1> HIDE DEF rest, top, m
<1>8. CASE stack' = [stack EXCEPT ![t] = rest]
    <2>1. StackOK'
        BY <1>5, <1>8 DEF StackOK
    <2>2. Moved(t, pc)
        BY <1>1, <1>4, <1>5, <1>8 DEF StackOK, Moved
    <2> QED BY <2>1, <2>2
<1>9. CASE stack' = [stack EXCEPT ![t] = Append(rest, Frame(m))]
    <2>1. Append(rest, Frame(m)) \in Seq(Frames)
        BY <1>5, <1>7
    <2>2. StackOK'
        BY <2>1, <1>9 DEF StackOK
    <2>3. /\ Len(Append(rest, Frame(m))) = Len(stack[t]) + 1
          /\ DOMAIN Append(rest, Frame(m)) = 1..(Len(stack[t]) + 1)
          /\ Append(rest, Frame(m))[Len(stack[t]) + 1] = Frame(m)
          /\ \A j \in DOMAIN stack[t] : Append(rest, Frame(m))[j] = rest[j]
        BY <1>5, <1>7
    <2>4. stack'[t] = Append(rest, Frame(m)) /\ \A u \in Threads \ {t} : stack'[u] = stack[u]
        BY <1>9 DEF StackOK
    <2>5. \A j \in DOMAIN stack[t] : rest[j].lib = stack[t][j].lib /\ rest[j].pc = stack[t][j].pc
        BY <1>1, <1>4, <1>5
    <2>6. Pushed(t, m)
        BY <2>3, <2>4, <2>5, <1>7 DEF Pushed
    <2> QED BY <2>2, <2>6, <1>3
<1> QED BY <1>6, <1>8, <1>9

\* A call from outside enters a library.
LEMMA EnterPushes ==
    ASSUME StackOK, NEW t \in Threads, NEW m \in Libs, stack[t] = <<>>,
           stack' = [stack EXCEPT ![t] = <<Frame(m)>>], Libraries \in Seq(STRING)
    PROVE  StackOK' /\ Pushed(t, m)
<1>1. Frame(m) \in Frames /\ Frame(m).lib = m /\ Frame(m).pc = "enter"
    BY DEF Frame, Frames, Pcs
<1>2. <<Frame(m)>> \in Seq(Frames) /\ Len(<<Frame(m)>>) = 1 /\ <<Frame(m)>>[1] = Frame(m)
    BY <1>1
<1>3. stack'[t] = <<Frame(m)>> /\ \A u \in Threads \ {t} : stack'[u] = stack[u]
    BY DEF StackOK
<1>4. StackOK'
    BY <1>2 DEF StackOK
<1>5. Len(stack[t]) = 0 /\ DOMAIN stack[t] = {} /\ DOMAIN stack'[t] = 1..1
    BY <1>2, <1>3
<1> QED BY <1>1, <1>2, <1>3, <1>4, <1>5 DEF Pushed

\* Which places are occupied after a step, and by which library.
LEMMA MovedPlaces ==
    ASSUME StackOK, NEW t \in Threads, NEW from, At(t, from), NEW pc, Moved(t, pc), NEW pcs
    PROVE  /\ from \notin pcs => \A m : Has(m, pcs) => Has(m, pcs)'
           /\ from \notin pcs => (Some(pcs) => Some(pcs)')
           /\ pc \notin pcs => \A m : Has(m, pcs)' => Has(m, pcs)
           /\ pc \notin pcs => (Some(pcs)' => Some(pcs))
           /\ pc \in pcs => \A m : m = Top(t).lib => Has(m, pcs)'
           /\ pc \in pcs => Some(pcs)'
           /\ \A m : m # Top(t).lib => (Has(m, pcs)' <=> Has(m, pcs))
<1>1. /\ Len(stack[t]) \in DOMAIN stack[t] /\ Top(t) = stack[t][Len(stack[t])]
      /\ stack[t][Len(stack[t])].pc = from
    BY TopFrame
<1>2. /\ from \notin pcs => \A m : Has(m, pcs) => Has(m, pcs)'
      /\ from \notin pcs => (Some(pcs) => Some(pcs)')
    BY <1>1 DEF Moved, Has, Some
<1>3. /\ pc \notin pcs => \A m : Has(m, pcs)' => Has(m, pcs)
      /\ pc \notin pcs => (Some(pcs)' => Some(pcs))
    BY <1>1 DEF Moved, Has, Some
<1>4. /\ pc \in pcs => \A m : m = Top(t).lib => Has(m, pcs)'
      /\ pc \in pcs => Some(pcs)'
    BY <1>1 DEF Moved, Has, Some
<1>5. \A m : m # Top(t).lib => (Has(m, pcs)' <=> Has(m, pcs))
    BY <1>1 DEF Moved, Has
<1> QED BY <1>2, <1>3, <1>4, <1>5

LEMMA PoppedPlaces ==
    ASSUME StackOK, NEW t \in Threads, NEW from, At(t, from), Popped(t), NEW pcs
    PROVE  /\ from \notin pcs => \A m : Has(m, pcs) => Has(m, pcs)'
           /\ from \notin pcs => (Some(pcs) => Some(pcs)')
           /\ \A m : Has(m, pcs)' => Has(m, pcs)
           /\ Some(pcs)' => Some(pcs)
<1>1. /\ Len(stack[t]) \in Nat \ {0} /\ DOMAIN stack[t] = 1..Len(stack[t])
      /\ stack[t][Len(stack[t])].pc = from
    BY TopFrame
<1>2. \A i \in DOMAIN stack[t] : i = Len(stack[t]) \/ i \in 1..(Len(stack[t]) - 1)
    BY <1>1
<1>3. \A i \in 1..(Len(stack[t]) - 1) : i \in DOMAIN stack[t]
    BY <1>1
<1> QED BY <1>1, <1>2, <1>3 DEF Popped, Has, Some

LEMMA PushedPlaces ==
    ASSUME StackOK, NEW t \in Threads, NEW m, Pushed(t, m), NEW pcs
    PROVE  /\ \A l : Has(l, pcs) => Has(l, pcs)'
           /\ Some(pcs) => Some(pcs)'
           /\ "enter" \notin pcs => \A l : Has(l, pcs)' => Has(l, pcs)
           /\ "enter" \notin pcs => (Some(pcs)' => Some(pcs))
<1>1. Len(stack[t]) \in Nat /\ DOMAIN stack[t] = 1..Len(stack[t])
    BY DEF StackOK
<1>2. \A i \in DOMAIN stack'[t] : i = Len(stack[t]) + 1 \/ i \in DOMAIN stack[t]
    BY <1>1 DEF Pushed
<1>3. \A i \in DOMAIN stack[t] : i \in DOMAIN stack'[t]
    BY <1>1 DEF Pushed
<1> QED BY <1>1, <1>2, <1>3 DEF Pushed, Has, Some

(***************************************************************************)
(* What each step of trace_initialize does to the stack of its thread.     *)
(***************************************************************************)
LEMMA LibrariesAreStrings == Libraries \in Seq(STRING) /\ "empty" \notin Libs
BY StartAssumption DEF Libs, Range

LEMMA StackSteps ==
    ASSUME StackOK, NEW t \in Threads
    PROVE  /\ Enter(t) => /\ At(t, "enter") /\ StackOK'
                          /\ \/ mode[Top(t).lib] = "uninitialized" /\ Moved(t, "load")
                             \/ mode[Top(t).lib] = "loaded" /\ Moved(t, "start")
                             \/ Popped(t)
           /\ Load(t) => At(t, "load") /\ StackOK' /\ Moved(t, "start")
           /\ TakeLock(t) => /\ At(t, "start") /\ StackOK'
                             /\ \/ lock = 0 /\ lock' = 1 /\ Moved(t, "environ")
                                \/ lock' = lock /\ Moved(t, "register")
           /\ ReadEnvironment(t) => /\ At(t, "environ") /\ StackOK'
                                    /\ \/ lock' = lock /\ Moved(t, "procname")
                                       \/ lock' = 0 /\ Popped(t)
           /\ ProcName(t) => /\ At(t, "procname") /\ StackOK'
                             /\ \/ Moved(t, "options") \/ Moved(t, "procname")
                                \/ \E m \in Libs : Pushed(t, m)
           /\ ReadOptions(t) => At(t, "options") /\ StackOK' /\ Moved(t, "filter")
           /\ ParseFilter(t) => /\ At(t, "filter") /\ StackOK'
                                /\ \/ enable /\ Moved(t, "pipe")
                                   \/ ~enable /\ Moved(t, "finish")
                                   \/ Moved(t, "filter")
                                   \/ \E m \in Libs : Pushed(t, m)
           /\ OpenPipe(t) => At(t, "pipe") /\ StackOK' /\ Moved(t, "initial")
           /\ InitialData(t) => At(t, "initial") /\ StackOK' /\ Moved(t, "finish")
           /\ Finish(t) => At(t, "finish") /\ StackOK' /\ Moved(t, "register")
           /\ Register(t) => /\ At(t, "register") /\ StackOK'
                             /\ \/ nmodules < MaxModules /\ Moved(t, "count")
                                \/ ~(nmodules < MaxModules) /\ Moved(t, "resource")
           /\ Count(t) => At(t, "count") /\ StackOK' /\ Moved(t, "enable")
           /\ Enable(t) => At(t, "enable") /\ StackOK' /\ Moved(t, "resource")
           /\ RegisterResource(t) => At(t, "resource") /\ StackOK' /\ Moved(t, "done")
           /\ Done(t) => At(t, "done") /\ StackOK' /\ Popped(t)
<1> USE LibrariesAreStrings
<1>0. Pcs = {"enter", "load", "start", "environ", "procname", "options", "filter", "pipe",
             "initial", "finish", "register", "count", "enable", "resource", "done"}
    BY DEF Pcs
<1>1. ASSUME NEW from, At(t, from), NEW pc \in Pcs, Goto(t, pc)
      PROVE  StackOK' /\ Moved(t, pc)
    BY <1>1, GotoMoves
<1>2. ASSUME NEW from, At(t, from), NEW pc \in Pcs, Pass(t, pc)
      PROVE  StackOK' /\ Moved(t, pc)
    BY <1>2, PassMoves
<1>3. ASSUME NEW from, At(t, from), Return(t)
      PROVE  StackOK' /\ Popped(t)
    BY <1>3, ReturnPops
<1>4. ASSUME NEW pc, At(t, pc), ~AllPassed(t), PassNext(t)
      PROVE  StackOK' /\ (Moved(t, pc) \/ \E m \in Libs : Pushed(t, m))
    BY <1>4, PassNextMoves
<1>5. Enter(t) => /\ At(t, "enter") /\ StackOK'
                  /\ \/ mode[Top(t).lib] = "uninitialized" /\ Moved(t, "load")
                     \/ mode[Top(t).lib] = "loaded" /\ Moved(t, "start")
                     \/ Popped(t)
    BY <1>0, <1>1, <1>3 DEF Enter
<1>6. /\ Load(t) => At(t, "load") /\ StackOK' /\ Moved(t, "start")
      /\ TakeLock(t) => /\ At(t, "start") /\ StackOK'
                        /\ \/ lock = 0 /\ lock' = 1 /\ Moved(t, "environ")
                           \/ lock' = lock /\ Moved(t, "register")
    BY <1>0, <1>1 DEF Load, TakeLock
<1>7. /\ ReadEnvironment(t) => /\ At(t, "environ") /\ StackOK'
                               /\ \/ lock' = lock /\ Moved(t, "procname")
                                  \/ lock' = 0 /\ Popped(t)
      /\ ReadOptions(t) => At(t, "options") /\ StackOK' /\ Moved(t, "filter")
    BY <1>0, <1>2, <1>3 DEF ReadEnvironment, ReadOptions
<1>8. /\ ProcName(t) => /\ At(t, "procname") /\ StackOK'
                        /\ \/ Moved(t, "options") \/ Moved(t, "procname")
                           \/ \E m \in Libs : Pushed(t, m)
      /\ ParseFilter(t) => /\ At(t, "filter") /\ StackOK'
                           /\ \/ enable /\ Moved(t, "pipe")
                              \/ ~enable /\ Moved(t, "finish")
                              \/ Moved(t, "filter")
                              \/ \E m \in Libs : Pushed(t, m)
    BY <1>0, <1>1, <1>4 DEF ProcName, ParseFilter
<1>9. /\ OpenPipe(t) => At(t, "pipe") /\ StackOK' /\ Moved(t, "initial")
      /\ InitialData(t) => At(t, "initial") /\ StackOK' /\ Moved(t, "finish")
      /\ Finish(t) => At(t, "finish") /\ StackOK' /\ Moved(t, "register")
      /\ Count(t) => At(t, "count") /\ StackOK' /\ Moved(t, "enable")
      /\ Enable(t) => At(t, "enable") /\ StackOK' /\ Moved(t, "resource")
      /\ RegisterResource(t) => At(t, "resource") /\ StackOK' /\ Moved(t, "done")
    BY <1>0, <1>1 DEF OpenPipe, InitialData, Finish, Count, Enable, RegisterResource
<1>10. /\ Register(t) => /\ At(t, "register") /\ StackOK'
                         /\ \/ nmodules < MaxModules /\ Moved(t, "count")
                            \/ ~(nmodules < MaxModules) /\ Moved(t, "resource")
       /\ Done(t) => At(t, "done") /\ StackOK' /\ Popped(t)
    BY <1>0, <1>1, <1>3 DEF Register, Done
<1> QED BY <1>5, <1>6, <1>7, <1>8, <1>9, <1>10

-----------------------------------------------------------------------------
\* The invariants of a step hold when every action keeps them.
LEMMA TypeInit == Init => TypeOK
<1> SUFFICES ASSUME Init PROVE TypeOK
    OBVIOUS
<1>1. ctors \in Seq(Libs)
    BY LibrariesAreStrings DEF Init, Libs, Range
<1>2. stack \in [Threads -> Seq(Frames)]
    BY DEF Init
<1>3. slots \in [0..(MaxModules - 1) -> Libs \cup {"empty"}]
    BY StartAssumption DEF Init
<1>4. lock \in 0..2 /\ nmodules \in Nat /\ resources \cup known \cup declared \subseteq Libs
    BY DEF Init
<1>6. /\ ready \in BOOLEAN /\ enable \in BOOLEAN
      /\ refused \in BOOLEAN /\ overlapped \in BOOLEAN /\ undeclared \in BOOLEAN
    BY Zenon DEF Init
<1>5. /\ mode \in [Libs -> {"uninitialized", "loaded", "ready"}]
      /\ rt \in [Libs -> {"init", "emu", "off", "on"}]
      /\ initrt \in [Libs -> {"off", "on"}]
    BY DEF Init
<1> QED BY <1>1, <1>2, <1>3, <1>4, <1>5, <1>6 DEF TypeOK

LEMMA TypeStep == TypeOK /\ [Next]_vars => TypeOK'
<1> SUFFICES ASSUME TypeOK, [Next]_vars PROVE TypeOK'
    OBVIOUS
<1> USE LibrariesAreStrings
<1>0. StackOK /\ MainThread \in Threads /\ Called \subseteq Libs /\ MaxModules \in Nat
    BY StartAssumption DEF TypeOK, StackOK, Libs, Range
<1>1. CASE UNCHANGED vars
    BY <1>1 DEF TypeOK, vars
<1>2. CASE EnvironmentReady
    BY <1>2 DEF EnvironmentReady, TypeOK
<1>3. CASE Constructor
    <2>1. Head(ctors) \in Libs /\ Tail(ctors) \in Seq(Libs)
        BY <1>3 DEF Constructor, TypeOK
    <2>2. StackOK'
        BY <1>0, <1>3, <2>1, EnterPushes DEF Constructor
    <2> QED BY <1>3, <2>1, <2>2 DEF Constructor, Overlap, TypeOK, StackOK
<1>4. ASSUME NEW t \in Threads, NEW m \in Called, TracedCall(t, m) PROVE TypeOK'
    <2>1. StackOK'
        BY <1>0, <1>4, EnterPushes DEF TracedCall, StackOK
    <2> QED BY <1>4, <2>1 DEF TracedCall, Overlap, TypeOK, StackOK
<1>5. ASSUME NEW t \in Threads, InitStep(t) PROVE TypeOK'
    <2>1. StackOK'
        BY <1>0, <1>5, StackSteps DEF InitStep
    <2>2. \A pc : At(t, pc) => Top(t).lib \in Libs
        BY <1>0, TopFrame DEF Frames
    <2> USE DEF TypeOK, StackOK
    <2>3. CASE Enter(t)
        BY <2>1, <2>3 DEF Enter
    <2>4. CASE Load(t)
        BY <2>1, <2>2, <2>4 DEF Load
    <2>5. CASE TakeLock(t)
        BY <2>1, <2>5 DEF TakeLock
    <2>6. CASE ReadEnvironment(t)
        BY <2>1, <2>6 DEF ReadEnvironment
    <2>7. CASE ProcName(t)
        BY <2>1, <2>7 DEF ProcName
    <2>8. CASE ReadOptions(t)
        BY <2>1, <2>8 DEF ReadOptions
    <2>9. CASE ParseFilter(t)
        BY <2>1, <2>9 DEF ParseFilter
    <2>10. CASE OpenPipe(t)
        BY <2>1, <2>10 DEF OpenPipe, SwitchAll
    <2>11. CASE InitialData(t)
        BY <2>1, <2>11 DEF InitialData, SwitchAll
    <2>12. CASE Finish(t)
        BY <2>1, <2>12 DEF Finish
    <2>13. CASE Register(t)
        <3>1. mode' \in [Libs -> {"uninitialized", "loaded", "ready"}]
            BY <2>2, <2>13 DEF Register
        <3>2. slots' \in [0..(MaxModules - 1) -> Libs \cup {"empty"}]
            BY <1>0, <2>2, <2>13 DEF Register
        <3> QED BY <2>1, <2>13, <3>1, <3>2 DEF Register
    <2>14. CASE Count(t)
        BY <2>1, <2>14 DEF Count
    <2>15. CASE Enable(t)
        BY <2>1, <2>15 DEF Enable
    <2>16. CASE RegisterResource(t)
        BY <2>1, <2>2, <2>16 DEF RegisterResource
    <2>17. CASE Done(t)
        BY <2>1, <2>17 DEF Done
    <2> QED BY <1>5, <2>3, <2>4, <2>5, <2>6, <2>7, <2>8, <2>9, <2>10, <2>11, <2>12,
               <2>13, <2>14, <2>15, <2>16, <2>17 DEF InitStep
<1> QED BY <1>1, <1>2, <1>3, <1>4, <1>5 DEF Next

(***************************************************************************)
(* No call is written with an undeclared resource type.                    *)
(*                                                                         *)
(* CallsDeclared is not inductive: what a call is written with was decided *)
(* by steps long before it.  A library that traces has registered its      *)
(* resource type or is between the registration of the module and that of  *)
(* the type, also when another thread has switched it on; and what is      *)
(* registered is declared, or the call that connects the pipe is yet to    *)
(* declare it.  Neither depends on the order of the threads.               *)
(***************************************************************************)
Registering == {"count", "enable", "resource"}
Connecting  == {"filter", "pipe", "initial"}

SlotsKnown ==
    \A i \in DOMAIN slots :
        slots[i] \in Libs => slots[i] \in known \/ Has(slots[i], Registering)
TracedKnown == \A m \in Libs : rt[m] = "on" => m \in known \/ Has(m, Registering)
KnownDeclared ==
    /\ known = resources
    /\ enable => resources \subseteq declared \/ Some(Connecting)

DeclaredInv == TypeOK /\ SlotsKnown /\ TracedKnown /\ KnownDeclared /\ CallsDeclared

\* Which places are which.
LEMMA PlaceNames ==
    /\ \A pc \in {"enter", "load", "start", "environ", "procname", "options", "finish",
                  "register", "done"} : pc \notin Registering /\ pc \notin Connecting
    /\ \A pc \in {"count", "enable", "resource"} : pc \in Registering /\ pc \notin Connecting
    /\ \A pc \in {"filter", "pipe", "initial"} : pc \notin Registering /\ pc \in Connecting
BY DEF Registering, Connecting

\* enable_tracing switches libraries that are in the table only.
LEMMA SwitchedKnown ==
    ASSUME TypeOK, SlotsKnown, NEW value \in BOOLEAN, SwitchAll(value), NEW m \in Libs,
           rt'[m] = "on"
    PROVE  rt[m] = "on" \/ m \in known \/ Has(m, Registering)
<1>1. CASE m \in Registered
    <2>1. PICK i \in DOMAIN slots : slots[i] = m
        BY <1>1 DEF Registered
    <2> QED BY <2>1 DEF SlotsKnown
<1>2. CASE m \notin Registered
    BY <1>2 DEF SwitchAll, TypeOK
<1> QED BY <1>1, <1>2

LEMMA DeclaredStep == DeclaredInv /\ [Next]_vars => DeclaredInv'
<1> SUFFICES ASSUME DeclaredInv, [Next]_vars PROVE DeclaredInv'
    OBVIOUS
<1> USE LibrariesAreStrings
<1>0. TypeOK /\ TypeOK' /\ StackOK /\ Called \subseteq Libs /\ MainThread \in Threads
    BY TypeStep, StartAssumption DEF DeclaredInv, TypeOK, StackOK, Libs, Range
<1>a. SlotsKnown /\ TracedKnown /\ KnownDeclared /\ CallsDeclared
    BY DEF DeclaredInv
\* A step that leaves the registries, the table and the trace alone, and no
\* place that matters.
<1>b. ASSUME UNCHANGED <<slots, known, resources, declared, enable, undeclared>>,
             overlapped => overlapped',
             \A m \in Libs : rt'[m] = "on" => rt[m] = "on",
             \A m : Has(m, Registering) => Has(m, Registering)',
             Some(Connecting) => Some(Connecting)'
      PROVE  DeclaredInv'
    <2>1. SlotsKnown'
        BY <1>a, <1>b DEF SlotsKnown
    <2>2. TracedKnown'
        BY <1>a, <1>b DEF TracedKnown
    <2>3. KnownDeclared' /\ CallsDeclared'
        BY <1>a, <1>b DEF KnownDeclared, CallsDeclared
    <2> QED BY <1>0, <2>1, <2>2, <2>3 DEF DeclaredInv
<1>1. CASE UNCHANGED vars
    BY <1>1, <1>b DEF vars, Has, Some
<1>2. CASE EnvironmentReady
    BY <1>2, <1>b DEF EnvironmentReady, Has, Some
<1>3. CASE Constructor
    <2>1. Head(ctors) \in Libs
        BY <1>0, <1>3 DEF Constructor, TypeOK
    <2>2. Pushed(MainThread, Head(ctors))
        BY <1>0, <1>3, <2>1, EnterPushes DEF Constructor
    <2> QED BY <1>0, <1>3, <2>2, <1>b, PushedPlaces DEF Constructor, Overlap
<1>4. ASSUME NEW t \in Threads, NEW m \in Called, TracedCall(t, m) PROVE DeclaredInv'
    <2>1. CASE stack' = [stack EXCEPT ![t] = <<Frame(m)>>] /\ UNCHANGED undeclared
        <3>1. Pushed(t, m)
            BY <1>0, <1>4, <2>1, EnterPushes DEF TracedCall
        <3> QED BY <1>0, <1>4, <2>1, <3>1, <1>b, PushedPlaces DEF TracedCall, Overlap
    <2>2. CASE /\ rt[m] = "on" /\ enable /\ UNCHANGED stack
               /\ undeclared' = (undeclared \/ m \notin known \cap declared)
        <3>1. CallsDeclared'
            <4>1. CASE overlapped'
                BY <4>1 DEF CallsDeclared
            <4>2. CASE ~overlapped'
                <5>1. ~overlapped /\ \A u \in Threads : stack[u] = <<>>
                    BY <1>4, <4>2 DEF TracedCall, Overlap
                <5>2. ~Has(m, Registering) /\ ~Some(Connecting)
                    BY <5>1 DEF Has, Some
                <5>3. m \in known \cap declared
                    BY <1>0, <1>a, <2>2, <5>2 DEF TracedKnown, KnownDeclared
                <5> QED BY <1>a, <2>2, <5>1, <5>3 DEF CallsDeclared
            <4> QED BY <4>1, <4>2
        <3>2. SlotsKnown' /\ TracedKnown' /\ KnownDeclared'
            BY <1>4, <1>a, <2>2 DEF TracedCall, SlotsKnown, TracedKnown, KnownDeclared, Has, Some
        <3> QED BY <1>0, <3>1, <3>2 DEF DeclaredInv
    <2> QED BY <1>4, <2>1, <2>2 DEF TracedCall
<1>5. ASSUME NEW t \in Threads, InitStep(t) PROVE DeclaredInv'
    <2> DEFINE Kept == \A m : Has(m, Registering) => Has(m, Registering)'
               Same == Some(Connecting) => Some(Connecting)'
    <2>1. ASSUME NEW from, At(t, from), from \notin Registering, from \notin Connecting,
                 (\E pc : Moved(t, pc)) \/ Popped(t) \/ (\E m : Pushed(t, m))
          PROVE  Kept /\ Same
        BY <1>0, <2>1, MovedPlaces, PoppedPlaces, PushedPlaces
    <2>2. CASE Enter(t)
        <3>1. Kept /\ Same
            BY <1>0, <2>1, <2>2, StackSteps, PlaceNames
        <3> QED BY <2>2, <3>1, <1>b DEF Enter
    <2>3. CASE Load(t)
        <3>1. Kept /\ Same
            BY <1>0, <2>1, <2>3, StackSteps, PlaceNames
        <3>2. \A m \in Libs : rt'[m] = "on" => rt[m] = "on"
            BY <1>0, <2>3 DEF Load, TypeOK
        <3> QED BY <2>3, <3>1, <3>2, <1>b DEF Load
    <2>4. CASE TakeLock(t)
        <3>1. Kept /\ Same
            BY <1>0, <2>1, <2>4, StackSteps, PlaceNames
        <3> QED BY <2>4, <3>1, <1>b DEF TakeLock
    <2>5. CASE ReadEnvironment(t)
        <3>1. Kept /\ Same
            BY <1>0, <2>1, <2>5, StackSteps, PlaceNames
        <3> QED BY <2>5, <3>1, <1>b DEF ReadEnvironment
    <2>6. CASE ProcName(t)
        <3>1. Kept /\ Same
            BY <1>0, <2>1, <2>6, StackSteps, PlaceNames
        <3> QED BY <2>6, <3>1, <1>b DEF ProcName
    <2>7. CASE ReadOptions(t)
        <3>a. At(t, "options") /\ Moved(t, "filter")
            BY <1>0, <2>7, StackSteps
        <3>1. Kept /\ Some(Connecting)'
            BY <1>0, <3>a, MovedPlaces, PlaceNames
        <3>2. UNCHANGED <<slots, known, resources, declared, rt, overlapped, undeclared>>
            BY <2>7 DEF ReadOptions
        <3> QED BY <1>0, <1>a, <3>1, <3>2
                DEF DeclaredInv, SlotsKnown, TracedKnown, KnownDeclared, CallsDeclared
    <2>8. CASE ParseFilter(t)
        <3>1. UNCHANGED <<slots, known, resources, declared, rt, enable, overlapped, undeclared>>
            BY <2>8 DEF ParseFilter
        <3>a. /\ At(t, "filter")
              /\ \/ enable /\ Moved(t, "pipe")
                 \/ ~enable /\ Moved(t, "finish")
                 \/ Moved(t, "filter")
                 \/ \E m \in Libs : Pushed(t, m)
            BY <1>0, <2>8, StackSteps
        <3>2. Kept
            <4>1. "filter" \notin Registering
                BY PlaceNames
            <4>2. ASSUME NEW pc, Moved(t, pc) PROVE Kept
                BY <1>0, <3>a, <4>1, <4>2, MovedPlaces
            <4>3. ASSUME NEW m, Pushed(t, m) PROVE Kept
                BY <1>0, <4>3, PushedPlaces
            <4> QED BY <3>a, <4>2, <4>3
        <3>3. enable => Same
            <4>1. "filter" \in Connecting /\ "pipe" \in Connecting
                BY PlaceNames
            <4>2. ASSUME NEW pc \in Connecting, Moved(t, pc) PROVE Same
                BY <1>0, <3>a, <4>2, MovedPlaces
            <4>3. ASSUME NEW m, Pushed(t, m) PROVE Same
                BY <1>0, <4>3, PushedPlaces
            <4> QED BY <3>a, <4>1, <4>2, <4>3
        <3> QED BY <1>0, <1>a, <3>1, <3>2, <3>3
                DEF DeclaredInv, SlotsKnown, TracedKnown, KnownDeclared, CallsDeclared
    <2>9. CASE OpenPipe(t)
        <3>1. UNCHANGED <<slots, known, resources, declared, overlapped, undeclared>>
            BY <2>9 DEF OpenPipe
        <3>a. At(t, "pipe") /\ Moved(t, "initial")
            BY <1>0, <2>9, StackSteps
        <3>2. Kept /\ Some(Connecting)'
            BY <1>0, <3>a, MovedPlaces, PlaceNames
        <3>3. \A m \in Libs : rt'[m] = "on" => rt[m] = "on" \/ m \in known \/ Has(m, Registering)
            BY <1>0, <1>a, <2>9, SwitchedKnown DEF OpenPipe
        <3> QED BY <1>0, <1>a, <3>1, <3>2, <3>3
                DEF DeclaredInv, SlotsKnown, TracedKnown, KnownDeclared, CallsDeclared
    <2>10. CASE InitialData(t)
        <3>1. UNCHANGED <<slots, known, resources, enable, overlapped, undeclared>>
              /\ (enable => declared' = resources)
            BY <2>10 DEF InitialData
        <3>a. At(t, "initial") /\ Moved(t, "finish")
            BY <1>0, <2>10, StackSteps
        <3>2. Kept
            BY <1>0, <3>a, MovedPlaces, PlaceNames
        <3>3. \A m \in Libs : rt'[m] = "on" => rt[m] = "on" \/ m \in known \/ Has(m, Registering)
            BY <1>0, <1>a, <2>10, SwitchedKnown DEF InitialData
        <3> QED BY <1>0, <1>a, <3>1, <3>2, <3>3
                DEF DeclaredInv, SlotsKnown, TracedKnown, KnownDeclared, CallsDeclared
    <2>11. CASE Finish(t)
        <3>1. Kept /\ Same
            BY <1>0, <2>1, <2>11, StackSteps, PlaceNames
        <3> QED BY <2>11, <3>1, <1>b DEF Finish
    <2>12. CASE Register(t)
        <3>1. Kept /\ Same
            BY <1>0, <2>1, <2>12, StackSteps, PlaceNames
        <3>2. \A m : m = Top(t).lib => Has(m, Registering)'
            <4>1. At(t, "register") /\ (Moved(t, "count") \/ Moved(t, "resource"))
                BY <1>0, <2>12, StackSteps
            <4> QED BY <1>0, <4>1, MovedPlaces, PlaceNames
        <3>3. UNCHANGED <<known, resources, declared, rt, enable, overlapped, undeclared>>
            BY <2>12 DEF Register
        <3>4. \A i \in DOMAIN slots' : i \in DOMAIN slots
                                       /\ (slots'[i] = slots[i] \/ slots'[i] = Top(t).lib)
            BY <1>0, <2>12 DEF Register, TypeOK
        <3>5. SlotsKnown'
            BY <1>a, <3>1, <3>2, <3>3, <3>4 DEF SlotsKnown
        <3> QED BY <1>0, <1>a, <3>1, <3>3, <3>5
                DEF DeclaredInv, TracedKnown, KnownDeclared, CallsDeclared
    <2>13. CASE Count(t)
        <3>1. Kept /\ Same
            <4>1. At(t, "count") /\ Moved(t, "enable")
                BY <1>0, <2>13, StackSteps
            <4>2. \A m : m = Top(t).lib => Has(m, Registering)'
                BY <1>0, <4>1, MovedPlaces, PlaceNames
            <4>3. Kept
                BY <1>0, <4>1, <4>2, MovedPlaces
            <4> QED BY <1>0, <4>1, <4>3, MovedPlaces, PlaceNames
        <3> QED BY <2>13, <3>1, <1>b DEF Count
    <2>14. CASE Enable(t)
        <3>1. At(t, "enable") /\ Moved(t, "resource")
            BY <1>0, <2>14, StackSteps
        <3>2. \A m : m = Top(t).lib => Has(m, Registering)'
            BY <1>0, <3>1, MovedPlaces, PlaceNames
        <3>3. Kept /\ Same
            <4>1. Kept
                BY <1>0, <3>1, <3>2, MovedPlaces
            <4> QED BY <1>0, <3>1, <4>1, MovedPlaces, PlaceNames
        <3>4. UNCHANGED <<slots, known, resources, declared, enable, overlapped, undeclared>>
            BY <2>14 DEF Enable
        <3>5. \A m \in Libs : rt'[m] = "on" => rt[m] = "on" \/ m = Top(t).lib
            BY <1>0, <2>14 DEF Enable, TypeOK
        <3> QED BY <1>0, <1>a, <3>2, <3>3, <3>4, <3>5
                DEF DeclaredInv, SlotsKnown, TracedKnown, KnownDeclared, CallsDeclared
    <2>15. CASE RegisterResource(t)
        <3>1. At(t, "resource") /\ Moved(t, "done")
            BY <1>0, <2>15, StackSteps
        <3>2. /\ UNCHANGED <<slots, rt, enable, overlapped, undeclared>>
              /\ known' = known \cup {Top(t).lib} /\ resources' = resources \cup {Top(t).lib}
              /\ declared \subseteq declared'
              /\ enable => Top(t).lib \in resources \cup declared'
            BY <2>15 DEF RegisterResource
        <3>3. Same
            BY <1>0, <3>1, MovedPlaces, PlaceNames
        <3>4. \A m : Has(m, Registering) => m \in known' \/ Has(m, Registering)'
            BY <1>0, <3>1, <3>2, MovedPlaces
        <3>5. SlotsKnown' /\ TracedKnown'
            BY <1>a, <3>2, <3>4 DEF SlotsKnown, TracedKnown
        <3>6. KnownDeclared'
            BY <1>a, <3>2, <3>3 DEF KnownDeclared
        <3> QED BY <1>0, <1>a, <3>2, <3>5, <3>6 DEF DeclaredInv, CallsDeclared
    <2>16. CASE Done(t)
        <3>1. Kept /\ Same
            BY <1>0, <2>1, <2>16, StackSteps, PlaceNames
        <3> QED BY <2>16, <3>1, <1>b DEF Done
    <2> QED BY <1>5, <2>2, <2>3, <2>4, <2>5, <2>6, <2>7, <2>8, <2>9, <2>10, <2>11, <2>12,
               <2>13, <2>14, <2>15, <2>16 DEF InitStep
<1> QED BY <1>1, <1>2, <1>3, <1>4, <1>5 DEF Next

\* Whichever threads start which libraries and in whatever order, no call is
\* written with a resource type that the trace does not declare, unless one
\* thread was in a library while another was starting one (InitialData and
\* RegisterResource declare what TracedCall uses).
THEOREM ResourceTypesDeclared == Spec => []CallsDeclared
<1>1. Init => DeclaredInv
    <2> SUFFICES ASSUME Init PROVE DeclaredInv
        OBVIOUS
    <2>1. SlotsKnown
        <3> SUFFICES ASSUME NEW i \in DOMAIN slots, slots[i] \in Libs
                     PROVE  slots[i] \in known \/ Has(slots[i], Registering)
            BY DEF SlotsKnown
        <3> QED BY LibrariesAreStrings DEF Init
    <2>2. TracedKnown /\ KnownDeclared /\ CallsDeclared
        BY DEF Init, TracedKnown, KnownDeclared, CallsDeclared
    <2> QED BY <2>1, <2>2, TypeInit DEF DeclaredInv
<1>2. DeclaredInv => CallsDeclared
    BY DEF DeclaredInv
<1> QED BY <1>1, <1>2, DeclaredStep, PTL DEF Spec

(***************************************************************************)
(* The libraries are switched as the enable option says.                   *)
(*                                                                         *)
(* Again the property speaks of the quiet states only.  In between, one    *)
(* call at a time is inside sp_rtrace_initialize and holds the lock; the   *)
(* calls below the top of a stack are those that sp_rtrace_initialize made *)
(* to get the process name and to parse the filter; the option is not set  *)
(* before it is read, and tracing is enabled between the opening of the    *)
(* pipe and the initial data.  While nothing overlapped, a registered      *)
(* library is switched as the option says, or is about to be.              *)
(***************************************************************************)
Starting == {"environ", "procname", "options", "filter", "pipe", "initial", "finish"}
Unread   == {"environ", "procname", "options"}
Orderly  == ~overlapped /\ ~refused /\ nmodules < MaxModules

OuterCalls ==
    \A t \in Threads : \A i \in DOMAIN stack[t] :
        i # Len(stack[t]) => stack[t][i].pc \in {"procname", "filter"}
OneThread ==
    ~overlapped => \A t, u \in Threads : stack[t] # <<>> /\ stack[u] # <<>> => t = u
OneStarts ==
    /\ \A t, u \in Threads : \A i \in DOMAIN stack[t], j \in DOMAIN stack[u] :
          stack[t][i].pc \in Starting /\ stack[u][j].pc \in Starting => t = u /\ i = j
    /\ Some(Starting) => lock = 1
OptionUnread     == lock = 0 \/ Some(Unread) => ~enable
PipeMeansEnabled == Some({"pipe", "initial"}) /\ ~refused => enable
LoadedModes ==
    /\ \A t \in Threads : \A i \in DOMAIN stack[t] :
          stack[t][i].pc \notin {"enter", "load"} => mode[stack[t][i].lib] # "uninitialized"
    /\ \A i \in DOMAIN slots : slots[i] \in Libs => mode[slots[i]] # "uninitialized"
CallsInOrder ==
    Orderly => \A t \in Threads : \A i \in DOMAIN stack[t] :
        /\ stack[t][i].pc = "load" => mode[stack[t][i].lib] = "uninitialized"
        /\ stack[t][i].pc = "count" => slots[nmodules] = stack[t][i].lib
        /\ stack[t][i].pc \in {"enable", "resource", "done"} => stack[t][i].lib \in Registered
ReadyRegistered ==
    Orderly => \A m \in Libs : mode[m] = "ready" => m \in Registered \/ Has(m, {"count"})
Switched ==
    Orderly /\ (enable => ~Some(Connecting)) =>
        \A m \in Registered : ~Has(m, {"enable"}) => rt[m] = IF enable THEN "on" ELSE "off"

\* What a step of trace_initialize is, as far as the stack goes.
LEMMA StepShape ==
    ASSUME StackOK, NEW t \in Threads, InitStep(t)
    PROVE  /\ StackOK'
           /\ \E from : /\ At(t, from)
                        /\ \/ \E pc : Moved(t, pc)
                           \/ Popped(t)
                           \/ from \in {"procname", "filter"} /\ \E m : Pushed(t, m)
BY StackSteps DEF InitStep

LEMMA OuterStep ==
    ASSUME StackOK, OuterCalls, NEW t \in Threads, NEW from, At(t, from),
           \/ \E pc : Moved(t, pc)
           \/ Popped(t)
           \/ from \in {"procname", "filter"} /\ \E m : Pushed(t, m)
    PROVE  OuterCalls'
<1> SUFFICES ASSUME NEW u \in Threads, NEW i \in DOMAIN stack'[u], i # Len(stack'[u])
             PROVE  stack'[u][i].pc \in {"procname", "filter"}
    BY DEF OuterCalls
<1>1. /\ Len(stack[t]) \in Nat \ {0} /\ DOMAIN stack[t] = 1..Len(stack[t])
      /\ stack[t][Len(stack[t])].pc = from
    BY TopFrame
<1>2. ASSUME NEW pc, Moved(t, pc) PROVE stack'[u][i].pc \in {"procname", "filter"}
    BY <1>1, <1>2 DEF Moved, OuterCalls
<1>3. CASE Popped(t)
    BY <1>1, <1>3 DEF Popped, OuterCalls
<1>4. ASSUME NEW m, Pushed(t, m), from \in {"procname", "filter"}
      PROVE  stack'[u][i].pc \in {"procname", "filter"}
    BY <1>1, <1>4 DEF Pushed, OuterCalls
<1> QED BY <1>2, <1>3, <1>4

\* A step inside trace_initialize starts no other thread.
LEMMA NoNewThread ==
    ASSUME StackOK, NEW t \in Threads, InitStep(t)
    PROVE  \A u \in Threads : stack'[u] # <<>> => stack[u] # <<>>
<1>1. PICK from : At(t, from)
    BY StepShape
<1>2. \A u \in Threads \ {t} : stack'[u] = stack[u]
    <2>1. ASSUME NEW pc, Goto(t, pc) \/ Pass(t, pc) PROVE \A u \in Threads \ {t} : stack'[u] = stack[u]
        BY <2>1 DEF Goto, Pass, StackOK
    <2>2. Return(t) \/ PassNext(t) => \A u \in Threads \ {t} : stack'[u] = stack[u]
        BY DEF Return, PassNext, StackOK
    <2> QED BY <2>1, <2>2 DEF InitStep, Enter, Load, TakeLock, ReadEnvironment, ProcName,
                ReadOptions, ParseFilter, OpenPipe, InitialData, Finish, Register, Count, Enable,
                RegisterResource, Done
<1> QED BY <1>1, <1>2 DEF At

LEMMA OneThreadStep ==
    ASSUME TypeOK, OneThread, NEW t \in Threads, InitStep(t)
    PROVE  OneThread'
<1>1. overlapped' = overlapped
    BY DEF InitStep, Enter, Load, TakeLock, ReadEnvironment, ProcName, ReadOptions, ParseFilter,
           OpenPipe, InitialData, Finish, Register, Count, Enable, RegisterResource, Done
<1> QED BY <1>1, NoNewThread DEF OneThread, TypeOK, StackOK

\* Which places are inside sp_rtrace_initialize.
LEMMA StartingNames ==
    /\ \A pc \in {"enter", "load", "start", "register", "count", "enable", "resource", "done"} :
          pc \notin Starting
    /\ \A pc \in {"environ", "procname", "options"} : pc \in Starting /\ pc \in Unread
    /\ \A pc \in {"filter", "pipe", "initial", "finish"} : pc \in Starting /\ pc \notin Unread
    /\ \A pc \in {"enter", "load", "start", "register", "count", "enable", "resource", "done"} :
          pc \notin Unread
BY DEF Starting, Unread

\* A step that enters no new place inside sp_rtrace_initialize keeps the calls
\* inside it apart.
LEMMA StartingApart ==
    ASSUME StackOK, OneStarts, NEW t \in Threads, NEW from,
           \/ At(t, from) /\ \E pc : Moved(t, pc) /\ (pc \in Starting => from \in Starting)
           \/ At(t, from) /\ Popped(t)
           \/ \E m : Pushed(t, m)
    PROVE  \A u, v \in Threads : \A i \in DOMAIN stack'[u], j \in DOMAIN stack'[v] :
              stack'[u][i].pc \in Starting /\ stack'[v][j].pc \in Starting => u = v /\ i = j
<1>0. \A u \in Threads : Len(stack[u]) \in Nat /\ DOMAIN stack[u] = 1..Len(stack[u])
    BY DEF StackOK
<1> DEFINE Was(u, i) == i \in DOMAIN stack[u] /\ stack[u][i].pc \in Starting
<1>1. ASSUME NEW u \in Threads, NEW i \in DOMAIN stack'[u], stack'[u][i].pc \in Starting
      PROVE  Was(u, i)
    <2>1. ASSUME NEW pc, At(t, from), Moved(t, pc), pc \in Starting => from \in Starting
          PROVE  Was(u, i)
        BY <1>1, <2>1, TopFrame DEF Moved
    <2>2. CASE At(t, from) /\ Popped(t)
        BY <1>0, <1>1, <2>2, TopFrame DEF Popped
    <2>3. ASSUME NEW m, Pushed(t, m) PROVE Was(u, i)
        BY <1>0, <1>1, <2>3, StartingNames DEF Pushed
    <2> QED BY <2>1, <2>2, <2>3
<1>2. \A u, v \in Threads : \A i, j : Was(u, i) /\ Was(v, j) => u = v /\ i = j
    BY DEF OneStarts
<1> QED BY <1>1, <1>2

LEMMA OneStartsStep ==
    ASSUME TypeOK, OneStarts, NEW t \in Threads, InitStep(t)
    PROVE  OneStarts'
<1>0. StackOK /\ lock \in 0..2
    BY DEF TypeOK, StackOK
\* Steps that leave the lock alone and enter no new place.
<1>1. ASSUME lock' = lock, NEW from, At(t, from),
             \/ \E pc : Moved(t, pc) /\ (pc \in Starting => from \in Starting)
             \/ Popped(t)
             \/ \E m : Pushed(t, m)
      PROVE  OneStarts'
    <2>1. Some(Starting)' => Some(Starting)
        BY <1>0, <1>1, TopFrame, MovedPlaces, PoppedPlaces, PushedPlaces, StartingNames DEF Some
    <2> QED BY <1>0, <1>1, <2>1, StartingApart DEF OneStarts
<1>2. CASE TakeLock(t)
    <2>1. CASE lock = 0 /\ lock' = 1 /\ Moved(t, "environ")
        <3>1. ~Some(Starting)
            BY <2>1 DEF OneStarts
        <3> QED BY <2>1, <3>1 DEF OneStarts, Some, Moved
    <2>2. CASE lock' = lock /\ Moved(t, "register")
        BY <1>0, <1>1, <1>2, <2>2, StackSteps, StartingNames
    <2> QED BY <1>0, <1>2, <2>1, <2>2, StackSteps
<1>3. CASE ReadEnvironment(t)
    <2>1. CASE lock' = lock /\ Moved(t, "procname")
        BY <1>0, <1>1, <1>3, <2>1, StackSteps, StartingNames
    <2>2. CASE lock' = 0 /\ Popped(t)
        <3>1. At(t, "environ")
            BY <1>0, <1>3, StackSteps
        <3>2. ~Some(Starting)'
            <4>1. /\ Len(stack[t]) \in DOMAIN stack[t] /\ stack[t][Len(stack[t])].pc \in Starting
                  /\ DOMAIN stack[t] = 1..Len(stack[t]) /\ Len(stack[t]) \in Nat
                BY <1>0, <3>1, TopFrame, StartingNames
            <4> QED BY <2>2, <4>1 DEF Popped, Some, OneStarts
        <3> QED BY <3>2 DEF OneStarts, Some
    <2> QED BY <1>0, <1>3, <2>1, <2>2, StackSteps
<1>4. CASE Finish(t)
    <2>1. At(t, "finish") /\ Moved(t, "register")
        BY <1>0, <1>4, StackSteps
    <2>2. ~Some(Starting)'
        <3>1. Len(stack[t]) \in DOMAIN stack[t] /\ stack[t][Len(stack[t])].pc \in Starting
            BY <1>0, <2>1, TopFrame, StartingNames
        <3> QED BY <2>1, <3>1, StartingNames DEF Moved, Some, OneStarts
    <2> QED BY <2>2 DEF OneStarts, Some
<1>5. CASE Enter(t) \/ Load(t) \/ Register(t) \/ Count(t) \/ Enable(t) \/ RegisterResource(t)
           \/ Done(t)
    <2>1. lock' = lock
        BY <1>5 DEF Enter, Load, Register, Count, Enable, RegisterResource, Done
    <2> QED BY <1>0, <1>1, <1>5, <2>1, StackSteps, StartingNames
<1>6. CASE ProcName(t) \/ ReadOptions(t) \/ ParseFilter(t) \/ OpenPipe(t) \/ InitialData(t)
    <2>1. lock' = lock
        BY <1>6 DEF ProcName, ReadOptions, ParseFilter, OpenPipe, InitialData
    <2> QED BY <1>0, <1>1, <1>6, <2>1, StackSteps, StartingNames
<1> QED BY <1>2, <1>3, <1>4, <1>5, <1>6 DEF InitStep

\* The option is FALSE as long as it has not been read.
LEMMA OptionStep ==
    ASSUME TypeOK, OneStarts, OptionUnread, NEW t \in Threads, InitStep(t)
    PROVE  OptionUnread'
<1>0. StackOK /\ lock \in 0..2
    BY DEF TypeOK, StackOK
<1>1. ASSUME enable' = enable, lock' = lock, NEW from, At(t, from),
             \/ \E pc : Moved(t, pc) /\ (pc \in Unread => from \in Unread)
             \/ Popped(t)
             \/ \E m : Pushed(t, m)
      PROVE  OptionUnread'
    <2>1. Some(Unread)' => Some(Unread)
        BY <1>0, <1>1, TopFrame, MovedPlaces, PoppedPlaces, PushedPlaces, StartingNames DEF Some
    <2> QED BY <1>1, <2>1 DEF OptionUnread
<1>2. CASE TakeLock(t)
    <2>1. CASE lock = 0 /\ lock' = 1 /\ Moved(t, "environ")
        BY <1>2, <2>1 DEF TakeLock, OptionUnread
    <2>2. CASE lock' = lock /\ Moved(t, "register")
        BY <1>0, <1>1, <1>2, <2>2, StackSteps, StartingNames DEF TakeLock
    <2> QED BY <1>0, <1>2, <2>1, <2>2, StackSteps
<1>3. CASE ReadEnvironment(t)
    <2>1. Some(Unread)
        BY <1>0, <1>3, TopFrame, StackSteps, StartingNames DEF Some
    <2> QED BY <1>3, <2>1 DEF ReadEnvironment, OptionUnread
<1>4. CASE ReadOptions(t) \/ OpenPipe(t)
    <2>1. lock' = lock
        BY <1>4 DEF ReadOptions, OpenPipe
    <2>2. PICK from \in Starting, pc \in {"filter", "initial"} : At(t, from) /\ Moved(t, pc)
        BY <1>0, <1>4, StackSteps, StartingNames
    <2>3. Len(stack[t]) \in DOMAIN stack[t] /\ stack[t][Len(stack[t])].pc \in Starting
        BY <1>0, <2>2, TopFrame
    <2>4. lock = 1
        BY <2>3 DEF OneStarts, Some
    <2>5. ~Some(Unread)'
        BY <2>2, <2>3, StartingNames DEF OneStarts, Some, Moved, Starting, Unread
    <2> QED BY <2>1, <2>4, <2>5 DEF OptionUnread
<1>5. CASE Finish(t)
    <2>1. lock' = 2 /\ enable' = enable
        BY <1>5 DEF Finish
    <2>2. Some(Unread)' => Some(Unread)
        BY <1>0, <1>5, StackSteps, MovedPlaces, StartingNames
    <2> QED BY <2>1, <2>2 DEF OptionUnread
<1>6. CASE Enter(t) \/ Load(t) \/ Register(t) \/ Count(t) \/ Enable(t) \/ RegisterResource(t)
           \/ Done(t)
    <2>1. lock' = lock /\ enable' = enable
        BY <1>6 DEF Enter, Load, Register, Count, Enable, RegisterResource, Done
    <2> QED BY <1>0, <1>1, <1>6, <2>1, StackSteps, StartingNames
<1>7. CASE ProcName(t) \/ ParseFilter(t) \/ InitialData(t)
    <2>1. lock' = lock /\ enable' = enable
        BY <1>7 DEF ProcName, ParseFilter, InitialData
    <2> QED BY <1>0, <1>1, <1>7, <2>1, StackSteps, StartingNames
<1> QED BY <1>2, <1>3, <1>4, <1>5, <1>6, <1>7 DEF InitStep

\* Tracing is enabled while a call connects the pipe that was found.
LEMMA PipeStep ==
    ASSUME TypeOK, OneStarts, PipeMeansEnabled, NEW t \in Threads, InitStep(t)
    PROVE  PipeMeansEnabled'
<1> DEFINE Piping == {"pipe", "initial"}
<1>0. StackOK
    BY DEF TypeOK, StackOK
<1>a. Piping \subseteq Starting /\ \A pc : pc \in Piping <=> pc = "pipe" \/ pc = "initial"
    BY DEF Starting
<1> HIDE DEF Piping
<1>b. PipeMeansEnabled <=> (Some(Piping) /\ ~refused => enable)
    BY DEF PipeMeansEnabled, Piping
<1>c. PipeMeansEnabled' <=> (Some(Piping)' /\ ~refused' => enable')
    BY DEF PipeMeansEnabled, Piping
<1>1. ASSUME enable' = enable, refused' = refused, NEW from, At(t, from),
             \/ \E pc : Moved(t, pc) /\ pc \notin Piping
             \/ Popped(t)
             \/ \E m : Pushed(t, m)
      PROVE  PipeMeansEnabled'
    <2>1. "enter" \notin Piping
        BY <1>a
    <2>2. Some(Piping)' => Some(Piping)
        BY <1>0, <1>1, <2>1, MovedPlaces, PoppedPlaces, PushedPlaces
    <2> QED BY <1>1, <2>2, <1>b, <1>c
<1>2. CASE ReadOptions(t)
    <2>1. At(t, "options") /\ Moved(t, "filter")
        BY <1>0, <1>2, StackSteps
    <2>2. Len(stack[t]) \in DOMAIN stack[t] /\ stack[t][Len(stack[t])].pc \in Starting
        BY <1>0, <2>1, TopFrame, StartingNames
    <2>3. ~Some(Piping)'
        BY <1>a, <2>1, <2>2 DEF Some, Moved, OneStarts
    <2> QED BY <2>3, <1>c
<1>3. CASE ParseFilter(t)
    <2>1. enable' = enable /\ refused' = refused
        BY <1>3 DEF ParseFilter
    <2>2. CASE enable
        BY <2>1, <2>2, <1>c
    <2>3. CASE ~enable
        BY <1>0, <1>1, <1>3, <1>a, <2>1, <2>3, StackSteps
    <2> QED BY <2>2, <2>3
<1>4. CASE OpenPipe(t)
    <2>1. Some(Piping)
        BY <1>0, <1>4, <1>a, StackSteps, TopFrame DEF Some
    <2>2. CASE enable' = enable /\ refused' = refused
        BY <2>1, <2>2, <1>b, <1>c
    <2>3. CASE refused' = TRUE
        BY <2>3, <1>c
    <2>4. (enable' = enable /\ refused' = refused) \/ refused' = TRUE
        BY <1>4 DEF OpenPipe
    <2> QED BY <2>2, <2>3, <2>4
<1>5. CASE Enter(t) \/ Load(t) \/ Register(t) \/ Count(t) \/ Enable(t) \/ RegisterResource(t)
           \/ Done(t)
    <2>1. enable' = enable /\ refused' = refused
        BY <1>5 DEF Enter, Load, Register, Count, Enable, RegisterResource, Done
    <2> QED BY <1>0, <1>1, <1>5, <1>a, <2>1, StackSteps
<1>6. CASE TakeLock(t) \/ ReadEnvironment(t) \/ ProcName(t) \/ InitialData(t) \/ Finish(t)
    <2>1. enable' = enable /\ refused' = refused
        BY <1>6 DEF TakeLock, ReadEnvironment, ProcName, InitialData, Finish
    <2> QED BY <1>0, <1>1, <1>6, <1>a, <2>1, StackSteps
<1> QED BY <1>2, <1>3, <1>4, <1>5, <1>6 DEF InitStep

\* A library that has found its functions never loses them.
LEMMA ModesGrow ==
    ASSUME TypeOK, NEW t \in Threads, InitStep(t)
    PROVE  \A m \in Libs : mode[m] # "uninitialized" => mode'[m] # "uninitialized"
BY DEF TypeOK, InitStep, Enter, Load, TakeLock, ReadEnvironment, ProcName, ReadOptions,
       ParseFilter, OpenPipe, InitialData, Finish, Register, Count, Enable, RegisterResource, Done

LEMMA LoadedStep ==
    ASSUME TypeOK, LoadedModes, NEW t \in Threads, InitStep(t)
    PROVE  LoadedModes'
<1> DEFINE Early == {"enter", "load"}
<1>0. StackOK /\ StackOK'
    BY StepShape DEF TypeOK, StackOK
<1>a. \A u \in Threads : \A i \in DOMAIN stack[u] : stack[u][i].lib \in Libs
    BY <1>0, FrameLibs
<1>b. \A u \in Threads : Len(stack[u]) \in Nat /\ DOMAIN stack[u] = 1..Len(stack[u])
    BY <1>0 DEF StackOK
<1>1. PICK from : /\ At(t, from)
                  /\ \/ \E pc : Moved(t, pc)
                     \/ Popped(t)
                     \/ \E m : Pushed(t, m)
    BY <1>0, StepShape
<1>2. /\ Len(stack[t]) \in DOMAIN stack[t] /\ stack[t][Len(stack[t])].pc = from
      /\ Top(t) = stack[t][Len(stack[t])] /\ Top(t).lib \in Libs
    BY <1>0, <1>1, <1>a, TopFrame
\* A call that leaves the early places is in a library that is loaded.
<1>3. ASSUME NEW pc, Moved(t, pc), pc \notin Early PROVE mode'[Top(t).lib] # "uninitialized"
    <2>1. CASE from \notin Early
        BY <1>2, <2>1, ModesGrow DEF LoadedModes
    <2>2. CASE Load(t)
        BY <1>2, <2>2 DEF Load, TypeOK
    <2>3. CASE Enter(t)
        <3>1. \/ mode[Top(t).lib] = "uninitialized" /\ Moved(t, "load")
              \/ mode[Top(t).lib] = "loaded" /\ mode' = mode
              \/ Popped(t)
            BY <1>0, <2>3, StackSteps DEF Enter
        <3>2. ~Moved(t, "load") /\ ~Popped(t)
            BY <1>2, <1>3, <1>b DEF Moved, Popped
        <3> QED BY <3>1, <3>2
    <2>4. CASE from \in Early /\ ~Load(t) /\ ~Enter(t)
        BY <1>1, <2>4 DEF At, InitStep, Enter, Load, TakeLock, ReadEnvironment, ProcName,
           ReadOptions, ParseFilter, OpenPipe, InitialData, Finish, Register, Count, Enable,
           RegisterResource, Done
    <2> QED BY <2>1, <2>2, <2>3, <2>4
<1>4. ASSUME NEW u \in Threads, NEW i \in DOMAIN stack'[u], stack'[u][i].pc \notin Early
      PROVE  mode'[stack'[u][i].lib] # "uninitialized"
    <2>1. ASSUME NEW pc, Moved(t, pc) PROVE mode'[stack'[u][i].lib] # "uninitialized"
        <3>1. i \in DOMAIN stack[u] /\ stack'[u][i].lib = stack[u][i].lib
            BY <1>4, <2>1 DEF Moved
        <3>2. CASE u = t /\ i = Len(stack[t])
            <4>1. stack'[u][i].pc = pc
                BY <2>1, <3>1, <3>2 DEF Moved
            <4> QED BY <1>2, <1>3, <1>4, <2>1, <3>1, <3>2, <4>1
        <3>3. CASE ~(u = t /\ i = Len(stack[t]))
            <4>1. stack'[u][i].pc = stack[u][i].pc
                BY <2>1, <3>1, <3>3 DEF Moved
            <4> QED BY <1>4, <1>a, <3>1, <4>1, ModesGrow DEF LoadedModes
        <3> QED BY <3>2, <3>3
    <2>2. CASE Popped(t)
        <3>1. i \in DOMAIN stack[u] /\ stack'[u][i] = stack[u][i]
            BY <1>4, <1>b, <2>2 DEF Popped
        <3> QED BY <1>4, <1>a, <3>1, ModesGrow DEF LoadedModes
    <2>3. ASSUME NEW m, Pushed(t, m) PROVE mode'[stack'[u][i].lib] # "uninitialized"
        <3>1. \/ /\ i \in DOMAIN stack[u]
                 /\ stack'[u][i].lib = stack[u][i].lib /\ stack'[u][i].pc = stack[u][i].pc
              \/ stack'[u][i].pc = "enter"
            BY <1>4, <1>b, <2>3 DEF Pushed
        <3> QED BY <1>4, <1>a, <3>1, ModesGrow DEF LoadedModes
    <2> QED BY <1>1, <2>1, <2>2, <2>3
<1>5. ASSUME NEW i \in DOMAIN slots', slots'[i] \in Libs
      PROVE  mode'[slots'[i]] # "uninitialized"
    <2>1. CASE slots' = slots
        BY <1>5, <2>1, ModesGrow DEF LoadedModes
    <2>2. CASE Register(t)
        <3>1. i \in DOMAIN slots /\ (slots'[i] = slots[i] \/ slots'[i] = Top(t).lib)
            BY <1>5, <2>2 DEF Register, TypeOK
        <3>2. mode[Top(t).lib] # "uninitialized"
            BY <1>2, <2>2 DEF Register, At, LoadedModes
        <3> QED BY <1>2, <1>5, <3>1, <3>2, ModesGrow DEF LoadedModes
    <2> QED BY <2>1, <2>2 DEF InitStep, Enter, Load, TakeLock, ReadEnvironment, ProcName,
                ReadOptions, ParseFilter, OpenPipe, InitialData, Finish, Count, Enable,
                RegisterResource, Done
<1> QED BY <1>4, <1>5 DEF LoadedModes

\* While nothing overlapped, a call that is not waiting for a call that it made
\* itself is the top one of the only thread that is in a library.
LEMMA OnlyTop ==
    ASSUME StackOK, OuterCalls, OneThread, ~overlapped, NEW t \in Threads, NEW from, At(t, from),
           NEW u \in Threads, NEW i \in DOMAIN stack[u],
           stack[u][i].pc \notin {"procname", "filter"}
    PROVE  u = t /\ i = Len(stack[t])
<1>1. stack[t] # <<>> /\ stack[u] # <<>>
    BY DEF At
<1>2. u = t
    BY <1>1 DEF OneThread
<1> QED BY <1>2 DEF OuterCalls

\* A place other than the outer ones and "enter" that is occupied after a step
\* is where the step moved the top call to.
LEMMA MovedHere ==
    ASSUME StackOK, OuterCalls, OneThread, ~overlapped, NEW t \in Threads, InitStep(t),
           NEW u \in Threads, NEW i \in DOMAIN stack'[u],
           stack'[u][i].pc \notin {"procname", "filter", "enter"}
    PROVE  /\ Moved(t, stack'[u][i].pc) /\ u = t /\ i = Len(stack[t])
           /\ stack'[u][i].lib = Top(t).lib /\ Top(t).lib \in Libs
<1>1. PICK from : /\ At(t, from)
                  /\ \/ \E pc : Moved(t, pc)
                     \/ Popped(t)
                     \/ from \in {"procname", "filter"} /\ \E m : Pushed(t, m)
    BY StepShape
<1>2. /\ Len(stack[t]) \in Nat \ {0} /\ DOMAIN stack[t] = 1..Len(stack[t])
      /\ Top(t) = stack[t][Len(stack[t])] /\ stack[t][Len(stack[t])].pc = from
    BY <1>1, TopFrame
<1>3. Top(t).lib \in Libs
    BY <1>2, FrameLibs
<1>4. CASE \E pc : Moved(t, pc)
    <2>1. PICK pc : Moved(t, pc)
        BY <1>4
    <2>2. i \in DOMAIN stack[u] /\ stack'[u][i].lib = stack[u][i].lib
        BY <2>1 DEF Moved
    <2>3. u = t /\ i = Len(stack[t])
        <3>1. CASE ~(u = t /\ i = Len(stack[t]))
            <4>1. stack[u][i].pc \notin {"procname", "filter"}
                BY <2>1, <2>2, <3>1 DEF Moved
            <4> QED BY <1>1, <2>2, <4>1, OnlyTop
        <3> QED BY <3>1
    <2>4. stack'[u][i].pc = pc
        BY <2>1, <2>2, <2>3 DEF Moved
    <2> QED BY <1>2, <1>3, <2>1, <2>2, <2>3, <2>4
<1>5. CASE Popped(t)
    <2>1. i \in DOMAIN stack[u] /\ ~(u = t /\ i = Len(stack[t])) /\ stack'[u][i] = stack[u][i]
        BY <1>2, <1>5 DEF Popped
    <2> QED BY <1>1, <2>1, OnlyTop
<1>6. CASE from \in {"procname", "filter"} /\ \E m : Pushed(t, m)
    <2>1. PICK m : Pushed(t, m)
        BY <1>6
    <2>2. i \in DOMAIN stack[u] /\ stack'[u][i].pc = stack[u][i].pc
        BY <1>2, <2>1 DEF Pushed
    <2>3. u = t /\ i = Len(stack[t])
        BY <1>1, <2>2, OnlyTop
    <2> QED BY <1>2, <1>6, <2>2, <2>3
<1> QED BY <1>1, <1>4, <1>5, <1>6

\* A step moves the top call to one place only.
LEMMA MovedOnce ==
    ASSUME StackOK, NEW t \in Threads, NEW from, At(t, from), NEW pc, Moved(t, pc)
    PROVE  /\ \A other : Moved(t, other) => other = pc
           /\ ~Popped(t)
           /\ \A m : ~Pushed(t, m)
BY TopFrame DEF Moved, Popped, Pushed

\* Disorder is never made good.
LEMMA OrderlyBefore ==
    ASSUME TypeOK, NEW t \in Threads, InitStep(t), Orderly'
    PROVE  Orderly
<1>1. overlapped' = overlapped
    BY DEF InitStep, Enter, Load, TakeLock, ReadEnvironment, ProcName, ReadOptions, ParseFilter,
           OpenPipe, InitialData, Finish, Register, Count, Enable, RegisterResource, Done
<1>a. refused' = refused \/ refused' = TRUE
    BY DEF InitStep, Enter, Load, TakeLock, ReadEnvironment, ProcName, ReadOptions, ParseFilter,
           OpenPipe, InitialData, Finish, Register, Count, Enable, RegisterResource, Done
<1>2. nmodules' = nmodules \/ nmodules' = nmodules + 1
    BY DEF InitStep, Enter, Load, TakeLock, ReadEnvironment, ProcName, ReadOptions, ParseFilter,
           OpenPipe, InitialData, Finish, Register, Count, Enable, RegisterResource, Done
<1>3. nmodules' < MaxModules => nmodules < MaxModules
    BY <1>2, StartAssumption DEF TypeOK
<1> QED BY <1>1, <1>a, <1>3 DEF Orderly

\* The table gets a library when it is counted, and not before.
LEMMA RegisteredSteps ==
    ASSUME TypeOK, NEW t \in Threads, InitStep(t), nmodules < MaxModules
    PROVE  /\ Registered \subseteq Libs
           /\ ~Count(t) => Registered' = Registered
           /\ Count(t) /\ slots[nmodules] \in Libs =>
                 Registered' = Registered \cup {slots[nmodules]}
<1>0. /\ nmodules \in 0..(MaxModules - 1) /\ DOMAIN slots = 0..(MaxModules - 1)
      /\ \A i \in 0..(MaxModules - 1) : slots[i] \in Libs \cup {"empty"}
    BY StartAssumption DEF TypeOK
<1>1. Registered \subseteq Libs
    BY <1>0 DEF Registered
<1>2. CASE Register(t)
    <2>1. nmodules' = nmodules /\ slots' = [slots EXCEPT ![nmodules] = Top(t).lib]
        BY <1>2 DEF Register
    <2>2. DOMAIN slots' = DOMAIN slots /\ \A i \in DOMAIN slots : i < nmodules => slots'[i] = slots[i]
        BY <1>0, <2>1
    <2>3. Registered' = Registered
        BY <2>1, <2>2 DEF Registered
    <2>4. ~Count(t)
        BY <1>2 DEF Register, Count, At
    <2> QED BY <1>1, <2>3, <2>4
<1>3. CASE Count(t)
    <2>1. nmodules' = nmodules + 1 /\ slots' = slots
        BY <1>3 DEF Count
    <2>2. \A i \in DOMAIN slots : i < nmodules + 1 <=> (i < nmodules \/ i = nmodules)
        BY <1>0
    <2>3. ASSUME slots[nmodules] \in Libs PROVE Registered' = Registered \cup {slots[nmodules]}
        BY <1>0, <2>1, <2>2, <2>3, LibrariesAreStrings DEF Registered
    <2> QED BY <1>1, <1>3, <2>3
<1>4. CASE UNCHANGED <<slots, nmodules>> /\ ~Count(t)
    BY <1>1, <1>4 DEF Registered
<1>5. Register(t) \/ Count(t) \/ UNCHANGED <<slots, nmodules>>
    BY DEF InitStep, Enter, Load, TakeLock, ReadEnvironment, ProcName, ReadOptions, ParseFilter,
           OpenPipe, InitialData, Finish, Enable, RegisterResource, Done
<1> QED BY <1>2, <1>3, <1>4, <1>5

LEMMA InOrderStep ==
    ASSUME TypeOK, OuterCalls, OneThread, CallsInOrder, NEW t \in Threads, InitStep(t)
    PROVE  CallsInOrder'
<1> SUFFICES ASSUME Orderly', NEW u \in Threads, NEW i \in DOMAIN stack'[u]
             PROVE  /\ stack'[u][i].pc = "load" => mode'[stack'[u][i].lib] = "uninitialized"
                    /\ stack'[u][i].pc = "count" => slots'[nmodules'] = stack'[u][i].lib
                    /\ stack'[u][i].pc \in {"enable", "resource", "done"} =>
                          stack'[u][i].lib \in Registered'
    BY DEF CallsInOrder
<1>0. StackOK /\ Orderly /\ ~overlapped /\ nmodules < MaxModules
    BY OrderlyBefore DEF TypeOK, StackOK, Orderly
<1> DEFINE pc == stack'[u][i].pc
           m  == Top(t).lib
<1> SUFFICES ASSUME pc \in {"load", "count", "enable", "resource", "done"}
             PROVE  /\ pc = "load" => mode'[m] = "uninitialized"
                    /\ pc = "count" => slots'[nmodules'] = m
                    /\ pc \in {"enable", "resource", "done"} => m \in Registered'
    BY <1>0, MovedHere
<1>1. Moved(t, pc) /\ m \in Libs
    BY <1>0, MovedHere
<1>2. PICK from : At(t, from)
    BY <1>0, StepShape
<1>3. /\ from = "count" => slots[nmodules] = m
      /\ from \in {"enable", "resource", "done"} => m \in Registered
    BY <1>0, <1>2, TopFrame DEF CallsInOrder
<1> HIDE DEF pc, m
<1>4. \A other : Moved(t, other) => other = pc
    BY <1>0, <1>1, <1>2, MovedOnce
<1>5. ~Popped(t) /\ \A l : ~Pushed(t, l)
    BY <1>0, <1>1, <1>2, MovedOnce
<1>6. CASE Enter(t)
    <2>1. (mode[m] = "uninitialized" /\ pc = "load") \/ pc = "start"
        BY <1>0, <1>4, <1>5, <1>6, StackSteps DEF m
    <2> QED BY <1>6, <2>1 DEF Enter
<1>7. CASE Register(t)
    <2>1. pc = "count"
        BY <1>0, <1>4, <1>7, StackSteps
    <2>2. slots' = [slots EXCEPT ![nmodules] = m] /\ nmodules' = nmodules
        BY <1>0, <1>7 DEF Register, m
    <2>3. nmodules \in DOMAIN slots
        BY <1>0, StartAssumption DEF TypeOK
    <2> QED BY <2>1, <2>2, <2>3
<1>8. CASE Count(t)
    <2>1. pc = "enable" /\ from = "count"
        BY <1>0, <1>2, <1>4, <1>8, StackSteps DEF At
    <2> QED BY <1>0, <1>1, <1>3, <1>8, <2>1, RegisteredSteps
<1>9. CASE Enable(t)
    <2>1. pc = "resource" /\ from = "enable" /\ ~Count(t)
        BY <1>0, <1>2, <1>4, <1>9, StackSteps DEF At, Enable, Count
    <2> QED BY <1>0, <1>3, <2>1, RegisteredSteps
<1>10. CASE RegisterResource(t)
    <2>1. pc = "done" /\ from = "resource" /\ ~Count(t)
        BY <1>0, <1>2, <1>4, <1>10, StackSteps DEF At, RegisterResource, Count
    <2> QED BY <1>0, <1>3, <2>1, RegisteredSteps
<1>11. CASE Load(t) \/ TakeLock(t) \/ ReadEnvironment(t) \/ ProcName(t) \/ ReadOptions(t)
            \/ ParseFilter(t) \/ OpenPipe(t) \/ InitialData(t) \/ Finish(t) \/ Done(t)
    <2>1. pc \in {"start", "environ", "register", "procname", "options", "filter", "pipe",
                  "finish", "initial"}
        BY <1>0, <1>4, <1>5, <1>11, StackSteps
    <2> QED BY <2>1
<1> QED BY <1>6, <1>7, <1>8, <1>9, <1>10, <1>11 DEF InitStep

LEMMA ReadyStep ==
    ASSUME TypeOK, CallsInOrder, ReadyRegistered, NEW t \in Threads, InitStep(t)
    PROVE  ReadyRegistered'
<1> SUFFICES ASSUME Orderly', NEW m \in Libs, mode'[m] = "ready"
             PROVE  m \in Registered' \/ Has(m, {"count"})'
    BY DEF ReadyRegistered
<1>0. StackOK /\ Orderly /\ nmodules < MaxModules
    BY OrderlyBefore DEF TypeOK, StackOK, Orderly
<1>1. PICK from : /\ At(t, from)
                  /\ \/ \E pc : Moved(t, pc)
                     \/ Popped(t)
                     \/ \E l : Pushed(t, l)
    BY <1>0, StepShape
<1>2. /\ Top(t).lib \in Libs
      /\ from = "count" => slots[nmodules] = Top(t).lib
      /\ from = "done" => Top(t).lib \in Registered
    BY <1>0, <1>1, TopFrame, FrameLibs DEF CallsInOrder
<1>3. Registered \subseteq Registered'
    BY <1>0, <1>1, <1>2, RegisteredSteps DEF At, Count
\* A library that was ready is in the table, or has just been counted.
<1>4. CASE mode[m] = "ready"
    <2>1. CASE Count(t)
        <3>1. from = "count" /\ Moved(t, "enable")
            BY <1>0, <1>1, <2>1, StackSteps DEF At
        <3>2. Top(t).lib \in Registered'
            BY <1>0, <1>2, <2>1, <3>1, RegisteredSteps
        <3>3. m # Top(t).lib => (Has(m, {"count"})' <=> Has(m, {"count"}))
            BY <1>0, <1>1, <3>1, MovedPlaces
        <3> QED BY <1>0, <1>3, <1>4, <3>2, <3>3 DEF ReadyRegistered
    <2>2. CASE ~Count(t)
        <3>1. from # "count"
            BY <1>1, <2>2 DEF At, InitStep, Enter, Load, TakeLock, ReadEnvironment, ProcName,
               ReadOptions, ParseFilter, OpenPipe, InitialData, Finish, Register, Enable,
               RegisterResource, Done
        <3>2. Has(m, {"count"}) => Has(m, {"count"})'
            BY <1>0, <1>1, <3>1, MovedPlaces, PoppedPlaces, PushedPlaces
        <3> QED BY <1>0, <1>3, <1>4, <3>2 DEF ReadyRegistered
    <2> QED BY <2>1, <2>2
\* A library that becomes ready is being registered, or has been.
<1>5. CASE mode[m] # "ready"
    <2>1. CASE Register(t)
        <3>1. m = Top(t).lib
            BY <1>5, <2>1 DEF Register, TypeOK
        <3>2. At(t, "register") /\ Moved(t, "count")
            BY <1>0, <2>1, StackSteps
        <3> QED BY <1>0, <3>1, <3>2, MovedPlaces
    <2>2. CASE Done(t)
        <3>1. m = Top(t).lib /\ from = "done"
            BY <1>1, <1>5, <2>2 DEF Done, TypeOK, At
        <3> QED BY <1>2, <1>3, <3>1
    <2>3. CASE Load(t)
        BY <1>2, <1>5, <2>3 DEF Load, TypeOK
    <2>4. CASE mode' = mode
        BY <1>5, <2>4
    <2> QED BY <2>1, <2>2, <2>3, <2>4 DEF InitStep, Enter, TakeLock, ReadEnvironment, ProcName,
                ReadOptions, ParseFilter, OpenPipe, InitialData, Finish, Count, Enable,
                RegisterResource
<1> QED BY <1>4, <1>5

LEMMA SwitchedStep ==
    ASSUME TypeOK, OptionUnread, PipeMeansEnabled, LoadedModes, CallsInOrder, Switched,
           NEW t \in Threads, InitStep(t)
    PROVE  Switched'
<1> DEFINE Option(on) == IF on THEN "on" ELSE "off"
<1> SUFFICES ASSUME Orderly', enable' => ~Some(Connecting)', NEW m \in Registered',
                    ~Has(m, {"enable"})'
             PROVE  rt'[m] = Option(enable')
    BY DEF Switched
<1>0. StackOK /\ Orderly /\ nmodules < MaxModules /\ ~refused /\ ~refused'
    BY OrderlyBefore DEF TypeOK, StackOK, Orderly
<1>a. /\ \A l \in Registered : l \in Libs
      /\ ~Count(t) => m \in Registered
    BY <1>0, RegisteredSteps
\* Steps that leave the switches and the option alone.
<1>1. ASSUME enable' = enable, ~Count(t), rt'[m] = rt[m],
             enable /\ Some(Connecting) => Some(Connecting)',
             Has(m, {"enable"}) => Has(m, {"enable"})'
      PROVE  rt'[m] = Option(enable')
    BY <1>0, <1>1, <1>a DEF Switched
<1>2. ASSUME NEW from, At(t, from), from \notin Connecting, from # "enable",
             (\E pc : Moved(t, pc)) \/ Popped(t) \/ (\E l : Pushed(t, l))
      PROVE  /\ Some(Connecting) => Some(Connecting)'
             /\ Has(m, {"enable"}) => Has(m, {"enable"})'
    BY <1>0, <1>2, MovedPlaces, PoppedPlaces, PushedPlaces
<1>3. CASE Enter(t) \/ TakeLock(t) \/ ReadEnvironment(t) \/ ProcName(t) \/ Finish(t) \/ Register(t)
           \/ RegisterResource(t) \/ Done(t)
    <2>1. PICK from : /\ At(t, from) /\ from \notin Connecting /\ from # "enable" /\ from # "count"
                      /\ (\E pc : Moved(t, pc)) \/ Popped(t) \/ (\E l : Pushed(t, l))
        BY <1>0, <1>3, StackSteps, PlaceNames
    <2>2. enable' = enable /\ rt' = rt
        BY <1>3 DEF Enter, TakeLock, ReadEnvironment, ProcName, Finish, Register,
                    RegisterResource, Done
    <2>3. ~Count(t)
        BY <2>1 DEF At, Count
    <2> QED BY <1>1, <1>2, <2>1, <2>2, <2>3
\* A library that is loaded now was not in the table.
<1>4. CASE Load(t)
    <2>1. At(t, "load") /\ Moved(t, "start") /\ ~Count(t)
        BY <1>0, <1>4, StackSteps DEF Load, At, Count
    <2>2. mode[Top(t).lib] = "uninitialized"
        BY <1>0, <2>1, TopFrame DEF CallsInOrder
    <2>3. m # Top(t).lib
        BY <1>a, <2>1, <2>2 DEF Registered, LoadedModes
    <2>4. enable' = enable /\ rt'[m] = rt[m]
        BY <1>a, <1>4, <2>1, <2>3 DEF Load, TypeOK
    <2> QED BY <1>1, <1>2, <2>1, <2>4, PlaceNames
\* The option was not set before it is read.
<1>5. CASE ReadOptions(t)
    <2>1. At(t, "options") /\ Moved(t, "filter") /\ ~Count(t)
        BY <1>0, <1>5, StackSteps DEF ReadOptions, At, Count
    <2>2. ~enable
        BY <1>0, <2>1, TopFrame, StartingNames DEF OptionUnread, Some
    <2>3. ~enable'
        BY <1>0, <2>1, MovedPlaces, PlaceNames
    <2>4. rt' = rt /\ (Has(m, {"enable"}) => Has(m, {"enable"})')
        BY <1>0, <1>5, <2>1, MovedPlaces DEF ReadOptions
    <2>5. rt[m] = "off"
        BY <1>0, <1>a, <2>1, <2>2, <2>4 DEF Switched
    <2> QED BY <2>3, <2>4, <2>5
\* Nothing is promised while the pipe is being connected.
<1>6. CASE ParseFilter(t)
    <2>1. At(t, "filter") /\ ~Count(t) /\ enable' = enable /\ rt' = rt
        BY <1>6 DEF ParseFilter, At, Count
    <2>2. \/ enable /\ Moved(t, "pipe")
          \/ ~enable /\ Moved(t, "finish")
          \/ Moved(t, "filter")
          \/ \E l \in Libs : Pushed(t, l)
        BY <1>0, <1>6, StackSteps
    <2>3. Has(m, {"enable"}) => Has(m, {"enable"})'
        BY <1>0, <2>1, <2>2, MovedPlaces, PushedPlaces
    <2>4. enable /\ Some(Connecting) => Some(Connecting)'
        <3>1. "filter" \in Connecting /\ "pipe" \in Connecting
            BY PlaceNames
        <3>2. ASSUME NEW pc \in Connecting, Moved(t, pc) PROVE Some(Connecting)'
            BY <1>0, <2>1, <3>2, MovedPlaces
        <3>3. ASSUME NEW l, Pushed(t, l) PROVE Some(Connecting) => Some(Connecting)'
            BY <1>0, <3>3, PushedPlaces
        <3> QED BY <2>2, <3>1, <3>2, <3>3
    <2> QED BY <1>1, <2>1, <2>3, <2>4
<1>7. CASE OpenPipe(t)
    <2>1. At(t, "pipe") /\ Moved(t, "initial")
        BY <1>0, <1>7, StackSteps
    <2>2. Some(Connecting)'
        BY <1>0, <2>1, MovedPlaces, PlaceNames
    <2>3. Some({"pipe", "initial"})
        BY <1>0, <2>1, TopFrame DEF Some
    <2>4. enable
        BY <1>0, <2>3 DEF PipeMeansEnabled
    <2>5. enable' = enable \/ refused' = TRUE
        BY <1>7 DEF OpenPipe
    <2>6. enable' = enable
        BY <1>0, <2>5
    <2> QED BY <2>2, <2>4, <2>6
\* The initial data switches the libraries of the table on.
<1>8. CASE InitialData(t)
    <2>1. At(t, "initial") /\ ~Count(t) /\ enable' = enable
        BY <1>8 DEF InitialData, At, Count
    <2>2. Some({"pipe", "initial"})
        BY <1>0, <2>1, TopFrame DEF Some
    <2>3. enable
        BY <1>0, <2>2 DEF PipeMeansEnabled
    <2>4. rt'[m] = "on"
        BY <1>a, <1>8, <2>1 DEF InitialData, SwitchAll
    <2> QED BY <2>1, <2>3, <2>4
<1>9. CASE Count(t)
    <2>1. At(t, "count") /\ Moved(t, "enable") /\ rt' = rt /\ enable' = enable
        BY <1>0, <1>9, StackSteps DEF Count
    <2>2. slots[nmodules] = Top(t).lib /\ Top(t).lib \in Libs
        BY <1>0, <2>1, TopFrame, FrameLibs DEF CallsInOrder
    <2>3. \A l : l = Top(t).lib => Has(l, {"enable"})'
        BY <1>0, <2>1, MovedPlaces
    <2>4. m \in Registered /\ m # Top(t).lib
        BY <1>0, <1>9, <2>2, <2>3, RegisteredSteps
    <2>5. Has(m, {"enable"}) => Has(m, {"enable"})'
        BY <1>0, <2>1, <2>4, MovedPlaces
    <2>6. Some(Connecting) => Some(Connecting)'
        BY <1>0, <2>1, MovedPlaces, PlaceNames
    <2> QED BY <1>0, <2>1, <2>4, <2>5, <2>6 DEF Switched
<1>10. CASE Enable(t)
    <2>1. At(t, "enable") /\ Moved(t, "resource") /\ enable' = enable /\ ~Count(t)
        BY <1>0, <1>10, StackSteps DEF Enable, At, Count
    <2>2. Some(Connecting) => Some(Connecting)'
        BY <1>0, <2>1, MovedPlaces, PlaceNames
    <2>3. CASE m = Top(t).lib
        BY <1>a, <1>10, <2>1, <2>3 DEF Enable, TypeOK
    <2>4. CASE m # Top(t).lib
        <3>1. Has(m, {"enable"}) => Has(m, {"enable"})'
            BY <1>0, <2>1, <2>4, MovedPlaces
        <3>2. rt'[m] = rt[m]
            BY <1>a, <1>10, <2>1, <2>4 DEF Enable, TypeOK
        <3> QED BY <1>1, <2>1, <2>2, <3>1, <3>2
    <2> QED BY <2>3, <2>4
<1> QED BY <1>3, <1>4, <1>5, <1>6, <1>7, <1>8, <1>9, <1>10 DEF InitStep

StartInv ==
    /\ TypeOK /\ OuterCalls /\ OneThread /\ OneStarts /\ OptionUnread /\ PipeMeansEnabled
    /\ LoadedModes /\ CallsInOrder /\ ReadyRegistered /\ Switched

\* Entering a library from outside.
LEMMA EnteredStep ==
    ASSUME StartInv, TypeOK', NEW t \in Threads, stack[t] = <<>>, NEW m, Pushed(t, m), Overlap(t),
           UNCHANGED <<mode, rt, lock, enable, slots, nmodules, refused>>
    PROVE  StartInv'
<1>0. /\ TypeOK /\ StackOK /\ OuterCalls /\ OneThread /\ OneStarts /\ OptionUnread
      /\ PipeMeansEnabled /\ LoadedModes /\ CallsInOrder /\ ReadyRegistered /\ Switched
    BY DEF StartInv, TypeOK, StackOK
<1>a. Len(stack[t]) = 0
    OBVIOUS
<1>1. DOMAIN stack'[t] = 1..1 /\ Len(stack'[t]) = 1 /\ stack'[t][1].pc = "enter"
    <2>1. Len(stack[t]) + 1 = 1
        BY <1>a
    <2> QED BY <2>1 DEF Pushed
<1>2. \A u \in Threads : u # t => stack'[u] = stack[u]
    BY DEF Pushed
<1>3. \A u \in Threads : \A i \in DOMAIN stack'[u] :
        \/ u = t /\ i = 1 /\ stack'[u][i].pc = "enter"
        \/ i \in DOMAIN stack[u] /\ stack'[u] = stack[u]
    BY <1>1, <1>2
<1>4. OuterCalls'
    BY <1>0, <1>1, <1>3 DEF OuterCalls
<1>5. (overlapped \/ \E u \in Threads \ {t} : stack[u] # <<>>) <=> overlapped'
    BY DEF Overlap
<1>6. OneThread'
    <2> SUFFICES ASSUME ~overlapped', NEW u \in Threads, NEW v \in Threads,
                        stack'[u] # <<>>, stack'[v] # <<>>
                 PROVE  u = v
        BY DEF OneThread
    <2> QED BY <1>2, <1>5
<1>7. \A pcs : "enter" \notin pcs => (Some(pcs)' <=> Some(pcs))
    BY <1>0, PushedPlaces
<1>8. \A pcs : "enter" \notin pcs => \A l : Has(l, pcs)' <=> Has(l, pcs)
    BY <1>0, PushedPlaces
<1>9. OneStarts'
    BY <1>0, <1>3, <1>7, StartingNames DEF OneStarts
<1>10. OptionUnread' /\ PipeMeansEnabled'
    <2>1. Some(Unread)' => Some(Unread)
        BY <1>7, StartingNames
    <2>2. Some({"pipe", "initial"})' => Some({"pipe", "initial"})
        BY <1>7
    <2> QED BY <1>0, <2>1, <2>2 DEF OptionUnread, PipeMeansEnabled
<1>11. LoadedModes'
    BY <1>0, <1>3 DEF LoadedModes
<1>12. Orderly' => Orderly
    BY <1>5 DEF Orderly
<1>13. Registered' = Registered
    BY DEF Registered
<1>14. CallsInOrder'
    BY <1>0, <1>3, <1>12, <1>13 DEF CallsInOrder
<1>15. ReadyRegistered'
    BY <1>0, <1>8, <1>12, <1>13 DEF ReadyRegistered
<1>16. Switched'
    <2>1. Some(Connecting)' <=> Some(Connecting)
        BY <1>7, PlaceNames
    <2>2. \A l : Has(l, {"enable"})' <=> Has(l, {"enable"})
        BY <1>8
    <2> QED BY <1>0, <1>12, <1>13, <2>1, <2>2 DEF Switched
<1> QED BY <1>4, <1>6, <1>9, <1>10, <1>11, <1>14, <1>15, <1>16 DEF StartInv

\* Steps that leave the start-up alone.
LEMMA IdleStep ==
    ASSUME StartInv, TypeOK', overlapped => overlapped', overlapped' \in BOOLEAN,
           UNCHANGED <<mode, rt, lock, enable, slots, nmodules, refused, stack>>
    PROVE  StartInv'
<1>1. Orderly' => Orderly
    BY DEF Orderly
<1>2. Registered' = Registered
    BY DEF Registered
<1>3. OuterCalls' /\ OneThread' /\ OneStarts' /\ LoadedModes'
    BY DEF StartInv, OuterCalls, OneThread, OneStarts, LoadedModes, Some
<1>4. OptionUnread' /\ PipeMeansEnabled'
    BY DEF StartInv, OptionUnread, PipeMeansEnabled, Some
<1>5. CallsInOrder' /\ ReadyRegistered' /\ Switched'
    BY <1>1, <1>2 DEF StartInv, CallsInOrder, ReadyRegistered, Switched, Has, Some
<1> QED BY <1>3, <1>4, <1>5 DEF StartInv

LEMMA StartStep == StartInv /\ [Next]_vars => StartInv'
<1> SUFFICES ASSUME StartInv, [Next]_vars PROVE StartInv'
    OBVIOUS
<1> USE LibrariesAreStrings
<1>0. /\ TypeOK /\ TypeOK' /\ StackOK /\ OuterCalls /\ OneThread /\ OneStarts /\ OptionUnread
      /\ PipeMeansEnabled /\ LoadedModes /\ CallsInOrder /\ ReadyRegistered /\ Switched
      /\ Called \subseteq Libs /\ MainThread \in Threads
    BY TypeStep, StartAssumption DEF StartInv, TypeOK, StackOK, Libs, Range
<1>1. CASE UNCHANGED vars \/ EnvironmentReady
    BY <1>0, <1>1, IdleStep DEF vars, EnvironmentReady, TypeOK
<1>2. CASE Constructor
    <2>1. Head(ctors) \in Libs
        BY <1>0, <1>2 DEF Constructor, TypeOK
    <2>2. Pushed(MainThread, Head(ctors))
        BY <1>0, <1>2, <2>1, EnterPushes DEF Constructor
    <2>3. PICK m \in Libs : Pushed(MainThread, m)
        BY <2>1, <2>2
    <2> QED BY <1>0, <1>2, <2>3, EnteredStep DEF Constructor
<1>3. ASSUME NEW t \in Threads, NEW m \in Called, TracedCall(t, m) PROVE StartInv'
    <2>1. CASE stack' = [stack EXCEPT ![t] = <<Frame(m)>>]
        <3>1. Pushed(t, m)
            BY <1>0, <1>3, <2>1, EnterPushes DEF TracedCall
        <3> QED BY <1>0, <1>3, <3>1, EnteredStep DEF TracedCall
    <2>2. CASE UNCHANGED stack
        <3>1. overlapped' \in BOOLEAN /\ (overlapped => overlapped')
            BY <1>3 DEF TracedCall, Overlap
        <3> QED BY <1>0, <1>3, <2>2, <3>1, IdleStep DEF TracedCall
    <2> QED BY <1>3, <2>1, <2>2 DEF TracedCall
<1>4. ASSUME NEW t \in Threads, InitStep(t) PROVE StartInv'
    <2>1. OuterCalls' /\ OneThread'
        BY <1>0, <1>4, StepShape, OuterStep, OneThreadStep
    <2>2. OneStarts' /\ OptionUnread' /\ PipeMeansEnabled' /\ LoadedModes'
        BY <1>0, <1>4, OneStartsStep, OptionStep, PipeStep, LoadedStep
    <2>3. CallsInOrder' /\ ReadyRegistered' /\ Switched'
        BY <1>0, <1>4, InOrderStep, ReadyStep, SwitchedStep
    <2> QED BY <1>0, <2>1, <2>2, <2>3 DEF StartInv
<1> QED BY <1>1, <1>2, <1>3, <1>4 DEF Next

LEMMA StartInit == Init => StartInv
<1> SUFFICES ASSUME Init PROVE StartInv
    OBVIOUS
<1>1. TypeOK
    BY TypeInit
<1>2. \A t \in Threads : stack[t] = <<>> /\ DOMAIN stack[t] = {}
    BY DEF Init
<1>3. \A pcs : ~Some(pcs)
    BY <1>2 DEF Some
<1>4. OuterCalls /\ OneThread /\ OneStarts
    BY <1>2, <1>3 DEF OuterCalls, OneThread, OneStarts
<1>5. OptionUnread /\ PipeMeansEnabled
    BY <1>3 DEF OptionUnread, PipeMeansEnabled, Init
<1>6. LoadedModes
    <2>1. \A i \in DOMAIN slots : slots[i] \notin Libs
        BY LibrariesAreStrings DEF Init
    <2> QED BY <1>2, <2>1 DEF LoadedModes
<1>7. Registered = {}
    BY DEF Registered, Init
<1>8. CallsInOrder /\ ReadyRegistered /\ Switched
    BY <1>2, <1>7 DEF CallsInOrder, ReadyRegistered, Switched, Init
<1> QED BY <1>1, <1>4, <1>5, <1>6, <1>8 DEF StartInv

\* Whichever threads start which libraries, from constructors or from traced
\* calls, nested or not: once the main library has started, no thread entered a
\* library while another was starting one, a pipe was found and the table has
\* room, every library that is ready is in the table and is switched as the
\* enable option says (Register, Enable and the SwitchAll of InitialData).
THEOREM StartedAsOptioned == Spec => []TracingConsistent
<1>1. StartInv => TracingConsistent
    <2> SUFFICES ASSUME StartInv, Quiet, ~overlapped, ~refused, nmodules < MaxModules,
                        NEW m \in Libs, mode[m] = "ready"
                 PROVE  m \in Registered /\ rt[m] = IF enable THEN "on" ELSE "off"
        BY DEF TracingConsistent
    <2>1. Orderly /\ ReadyRegistered /\ Switched
        BY DEF StartInv, Orderly
    <2>2. \A t \in Threads : DOMAIN stack[t] = {}
        BY DEF Quiet
    <2>3. ~Some(Connecting) /\ ~Has(m, {"count"}) /\ ~Has(m, {"enable"})
        BY <2>2 DEF Some, Has
    <2> QED BY <2>1, <2>3 DEF ReadyRegistered, Switched
<1> QED BY <1>1, StartInit, StartStep, PTL DEF Spec

=============================================================================
