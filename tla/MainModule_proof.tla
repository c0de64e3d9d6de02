-------------------------- MODULE MainModule_proof --------------------------
(***************************************************************************)
(* Proofs about the main tracing module, for any number of threads, any    *)
(* buffer and packet sizes.  The types, the lock and the deliveries of the *)
(* first parts hold with toggle signals and failing writes anywhere; the   *)
(* later part, on how the pipe, the option and the modules agree, assumes  *)
(* Quiescent and ~WriteMayFail.                                            *)
(***************************************************************************)
EXTENDS MainModule, FiniteSetTheorems, TLAPS

(* An activation that is on a stack has something left to do.              *)
Busy == \A t \in Threads : \A i \in DOMAIN stack[t] : stack[t][i].todo # <<>>

(* What pipe_buffer_flush sends lies in the first half of pipe_buffer.     *)
HeadFits == head <= BufferSize

Inv == TypeOK /\ Busy /\ HeadFits

(***************************************************************************)
(* Facts about the operators on stacks.                                    *)
(***************************************************************************)

LEMMA StepTypes ==
    /\ \A k \in Kinds, id, n \in Nat : Packet(k, id, n) \in Step
    /\ \A op \in Ops, id, n \in Nat : Do(op, id, n) \in Step
    /\ \A v \in Nat : EnableTracing(v) \in Step
BY DEF Packet, Do, EnableTracing, Step, Ops, Kinds

(* A step that a loop puts back with its counter or its mark changed.      *)
LEMMA StepEdits ==
    ASSUME NEW s \in Step
    PROVE  /\ [s EXCEPT !.kind = "AT"] \in Step
           /\ [s EXCEPT !.n = @ + 1] \in Step
           /\ [s EXCEPT !.n = @ + 1, !.kind = "HS"] \in Step
<1>1. /\ s = [op |-> s.op, kind |-> s.kind, id |-> s.id, n |-> s.n]
      /\ s.op \in Ops /\ s.kind \in Kinds /\ s.id \in Nat /\ s.n \in Nat
  BY DEF Step
<1>2. s.n + 1 \in Nat
  BY <1>1
<1>3. [s EXCEPT !.kind = "AT"] \in Step
  BY <1>1 DEF Step, Kinds
<1>4. [s EXCEPT !.n = @ + 1] \in Step
  BY <1>1, <1>2 DEF Step
<1>5. [s EXCEPT !.n = @ + 1, !.kind = "HS"] \in Step
  <2> DEFINE r == [s EXCEPT !.n = @ + 1]
  <2>1. [s EXCEPT !.n = @ + 1, !.kind = "HS"] = [r EXCEPT !.kind = "HS"]
    BY Zenon
  <2> HIDE DEF r
  <2> QED BY <1>4, <2>1 DEF r, Step, Kinds
<1> QED BY <1>3, <1>4, <1>5

LEMMA CallType ==
    ASSUME NEW todo \in Seq(Step), NEW why \in Reasons
    PROVE  Call(todo, why) \in Activation
BY DEF Call, Activation, Places

LEMMA InitialDataType == WriteInitialData \in Seq(Step)
<1>1. Do("reset", 0, 0) \in Step /\ Do("modules", 0, 1) \in Step
      /\ Do("resources", 0, 1) \in Step /\ Do("flush", 0, 0) \in Step
  BY StepTypes DEF Ops
<1>2. Packet("HS", 0, 0) \in Step /\ Packet("OS", 0, 0) \in Step
      /\ Packet("PI", 0, 0) \in Step /\ Packet("MI", 0, 0) \in Step
      /\ Packet("NL", 0, 0) \in Step
  BY StepTypes DEF Kinds
<1> QED BY <1>1, <1>2 DEF WriteInitialData

(* Replacing the top activation keeps a stack a stack of busy activations. *)
LEMMA WithTopType ==
    ASSUME NEW s \in Seq(Activation), s # <<>>,
           \A i \in DOMAIN s : s[i].todo # <<>>,
           NEW a \in Activation
    PROVE  /\ WithTop(s, a) \in Seq(Activation)
           /\ \A i \in DOMAIN WithTop(s, a) : WithTop(s, a)[i].todo # <<>>
<1>1. CASE a.todo = <<>>
  BY <1>1 DEF WithTop
<1>2. CASE a.todo # <<>>
  BY <1>2 DEF WithTop
<1> QED BY <1>1, <1>2

(* What Inv says of the stacks alone.                                      *)
StackOK == stack \in [Threads -> Seq(Activation)] /\ Busy

LEMMA TopType ==
    ASSUME StackOK, NEW t \in Threads, stack[t] # <<>>
    PROVE  /\ Top(t) \in Activation
           /\ Top(t).todo \in Seq(Step) /\ Top(t).todo # <<>>
           /\ Current(t) \in Step
           /\ Current(t) = Top(t).todo[1]
           /\ Tail(Top(t).todo) \in Seq(Step)
           /\ Len(stack[t]) \in DOMAIN stack[t]
<1>1. /\ Len(stack[t]) \in DOMAIN stack[t]
      /\ Top(t) \in Activation
      /\ Top(t).todo # <<>>
  BY DEF StackOK, Busy, Top
<1>2. Top(t).todo \in Seq(Step)
  BY <1>1 DEF Activation
<1> QED BY <1>1, <1>2 DEF Current

(* Any replacement of one thread's stack by WithTop keeps StackOK.         *)
LEMMA TopReplaced ==
    ASSUME StackOK, NEW t \in Threads, stack[t] # <<>>, NEW a \in Activation,
           stack' = [stack EXCEPT ![t] = WithTop(stack[t], a)]
    PROVE  StackOK'
<1>1. /\ WithTop(stack[t], a) \in Seq(Activation)
      /\ \A i \in DOMAIN WithTop(stack[t], a) :
             WithTop(stack[t], a)[i].todo # <<>>
  BY WithTopType DEF StackOK, Busy
<1>2. stack' \in [Threads -> Seq(Activation)]
  BY <1>1 DEF StackOK
<1>3. ASSUME NEW u \in Threads, NEW i \in DOMAIN stack'[u]
      PROVE  stack'[u][i].todo # <<>>
  <2>1. CASE u = t
    BY <1>1, <1>3, <2>1 DEF StackOK
  <2>2. CASE u # t
    BY <1>3, <2>2 DEF StackOK, Busy
  <2> QED BY <2>1, <2>2
<1> QED BY <1>2, <1>3 DEF StackOK, Busy

LEMMA GotoStack ==
    ASSUME StackOK, NEW t \in Threads, stack[t] # <<>>, NEW place \in Places,
           Goto(t, place)
    PROVE  StackOK'
<1> DEFINE a == [Top(t) EXCEPT !.at = place]
<1>1. a \in Activation
  BY TopType DEF Activation
<1>2. stack' = [stack EXCEPT ![t] = WithTop(stack[t], a)]
  BY DEF Goto
<1> QED BY <1>1, <1>2, TopReplaced

LEMMA ContinueStack ==
    ASSUME StackOK, NEW t \in Threads, stack[t] # <<>>, NEW more \in Seq(Step),
           Continue(t, more)
    PROVE  StackOK'
<1> DEFINE rest == more \o Tail(Top(t).todo)
           a == [todo |-> rest, at |-> "start",
                 ptr |-> Top(t).ptr, why |-> Top(t).why]
<1>1. rest \in Seq(Step)
  BY TopType
<1>2. a \in Activation
  BY <1>1, TopType DEF Activation, Places
<1>3. stack' = [stack EXCEPT ![t] = WithTop(stack[t], a)]
  BY DEF Continue
<1> HIDE DEF a
<1> QED BY <1>2, <1>3, TopReplaced

LEMMA ReturnStack ==
    ASSUME StackOK, NEW t \in Threads, stack[t] # <<>>, Return(t)
    PROVE  StackOK'
<1>1. <<>> \in Seq(Step)
  OBVIOUS
<1> QED BY <1>1, ContinueStack DEF Return

LEMMA EnterStack ==
    ASSUME StackOK, NEW t \in Threads, NEW todo \in Seq(Step),
           NEW why \in Reasons, Enter(t, todo, why)
    PROVE  StackOK'
<1> DEFINE s == IF todo = <<>> THEN stack[t] ELSE Append(stack[t], Call(todo, why))
<1>1. /\ s \in Seq(Activation)
      /\ \A i \in DOMAIN s : s[i].todo # <<>>
  <2>1. Call(todo, why) \in Activation /\ Call(todo, why).todo = todo
    BY CallType DEF Call
  <2> QED BY <2>1 DEF StackOK, Busy
<1>2. stack' = [stack EXCEPT ![t] = s]
  BY DEF Enter
<1>3. stack' \in [Threads -> Seq(Activation)]
  BY <1>1, <1>2 DEF StackOK
<1>4. ASSUME NEW u \in Threads, NEW i \in DOMAIN stack'[u]
      PROVE  stack'[u][i].todo # <<>>
  <2>1. CASE u = t
    BY <1>1, <1>2, <1>4, <2>1 DEF StackOK
  <2>2. CASE u # t
    BY <1>2, <1>4, <2>2 DEF StackOK, Busy
  <2> QED BY <2>1, <2>2
<1> QED BY <1>3, <1>4 DEF StackOK, Busy

LEMMA InitInv == Init => Inv
<1> SUFFICES ASSUME Init PROVE Inv
  OBVIOUS
<1>1. Blank \in Cell
  BY DEF Blank, Cell, Kinds
<1>2. OptionTypes
  BY DEF Init, OptionTypes
<1>3. PipeTypes
  BY DEF Init, PipeTypes
<1>4. BufferTypes
  BY <1>1 DEF Init, BufferTypes
<1>5. RegistryTypes
  BY RegistryAssumption DEF Init, RegistryTypes
<1>6. LifeTypes
  BY OptionAssumption DEF Init, LifeTypes
<1>7. StackTypes /\ Busy
  BY DEF Init, StackTypes, Busy
<1>8. HeadFits
  BY BufferAssumption DEF Init, HeadFits
<1> QED BY <1>2, <1>3, <1>4, <1>5, <1>6, <1>7, <1>8 DEF Inv, TypeOK

LEMMA InvStack == Inv => StackOK
BY DEF Inv, TypeOK, StackTypes, StackOK

(* Each action preserves the invariant.                                    *)

LEMMA InitializeInv ==
    ASSUME Inv, NEW t \in Threads, Initialize(t)
    PROVE  Inv'
<1> USE InvStack
<1>1. StackOK'
  <2>1. InitializeSteps \in Seq(Step)
    <3>1. Do("openinit", 0, 0) \in Step /\ Do("ready", 0, 0) \in Step
      BY StepTypes DEF Ops
    <3> QED BY <3>1, OptionAssumption DEF InitializeSteps
  <2> QED BY <2>1, EnterStack DEF Initialize, Reasons
<1>2. OptionTypes'
  BY OptionAssumption DEF Inv, TypeOK, OptionTypes, Initialize, TakeInitializeLock
<1>3. LifeTypes'
  <2>1. initLock' \in 0 .. 2
    BY DEF Inv, TypeOK, LifeTypes, Initialize, TakeInitializeLock
  <2> QED BY <2>1 DEF Inv, TypeOK, LifeTypes, Initialize
<1>4. PipeTypes' /\ BufferTypes' /\ HeadFits' /\ RegistryTypes'
  BY DEF Inv, TypeOK, HeadFits, PipeTypes, BufferTypes, RegistryTypes, Initialize,
         pipeVars, bufferVars, registryVars, lifeVars
<1> QED BY <1>1, <1>2, <1>3, <1>4 DEF Inv, TypeOK, StackOK, StackTypes

LEMMA InitializeModuleInv ==
    ASSUME Inv, NEW t \in Threads, NEW m \in TracingModules,
           InitializeModule(t, m)
    PROVE  Inv'
<1> USE InvStack
<1>1. StackOK'
  <2>1. InitializeSteps \in Seq(Step)
    <3>1. Do("openinit", 0, 0) \in Step /\ Do("ready", 0, 0) \in Step
      BY StepTypes DEF Ops
    <3> QED BY <3>1, OptionAssumption DEF InitializeSteps
  <2> DEFINE regs == [i \in DOMAIN Registers[m] |-> Do("resource", Registers[m][i], 0)]
  <2>2. regs \in Seq(Step)
    <3>1. /\ Registers[m] \in Seq(Nat \ {0})
          /\ DOMAIN Registers[m] = 1 .. Len(Registers[m])
          /\ Len(Registers[m]) \in Nat
      BY RegistryAssumption DEF TracingModules
    <3>2. \A i \in 1 .. Len(Registers[m]) :
             Do("resource", Registers[m][i], 0) \in Step
      BY <3>1, StepTypes DEF Ops
    <3> QED BY <3>1, <3>2
  <2>3. <<Do("register", m, 0)>> \in Seq(Step)
    <3>1. m \in Nat
      BY RegistryAssumption DEF TracingModules
    <3> QED BY <3>1, StepTypes DEF Ops
  <2> DEFINE todo == InitializeSteps \o <<Do("register", m, 0)>> \o regs
  <2>4. todo \in Seq(Step)
    <3> HIDE DEF regs
    <3> QED BY <2>1, <2>2, <2>3
  <2>5. Enter(t, todo, "init")
    BY DEF InitializeModule
  <2> HIDE DEF todo
  <2> QED BY <2>4, <2>5, EnterStack DEF Reasons
<1>2. OptionTypes'
  BY OptionAssumption DEF Inv, TypeOK, OptionTypes, InitializeModule, TakeInitializeLock
<1>3. LifeTypes'
  <2>1. initLock' \in 0 .. 2
    BY DEF Inv, TypeOK, LifeTypes, InitializeModule, TakeInitializeLock
  <2> QED BY <2>1 DEF Inv, TypeOK, LifeTypes, InitializeModule
<1>4. PipeTypes' /\ BufferTypes' /\ HeadFits' /\ RegistryTypes'
  BY DEF Inv, TypeOK, HeadFits, PipeTypes, BufferTypes, RegistryTypes, InitializeModule,
         pipeVars, bufferVars, registryVars, lifeVars
<1> QED BY <1>1, <1>2, <1>3, <1>4 DEF Inv, TypeOK, StackOK, StackTypes

LEMMA FunctionCallInv ==
    ASSUME Inv, NEW t \in Threads, NEW m, NEW type,
           FunctionCall(t, m, type)
    PROVE  Inv'
<1> USE InvStack
<1>1. StackOK'
  <2>1. IdOf(type) \in Nat /\ calls + 1 \in Nat
    BY DEF Inv, TypeOK, LifeTypes, RegistryTypes, IdOf
  <2>2. Packet("FC", IdOf(type), calls + 1) \in Step /\ Do("store", 0, 0) \in Step
    BY <2>1, StepTypes DEF Kinds, Ops
  <2> DEFINE todo == <<Packet("FC", IdOf(type), calls + 1)>>
                        \o (IF StoreHeap THEN <<Do("store", 0, 0)>> ELSE <<>>)
  <2>3. todo \in Seq(Step)
    BY <2>2
  <2>4. Enter(t, todo, "call")
    BY DEF FunctionCall
  <2> HIDE DEF todo
  <2> QED BY <2>3, <2>4, EnterStack DEF Reasons
<1>2. LifeTypes'
  <2>1. calls' \in 0 .. MaxCalls
    BY OptionAssumption DEF Inv, TypeOK, LifeTypes, MayEnter, FunctionCall
  <2> QED BY <2>1 DEF Inv, TypeOK, LifeTypes, FunctionCall, lifeVars
<1>3. OptionTypes' /\ PipeTypes' /\ BufferTypes' /\ HeadFits' /\ RegistryTypes'
  BY DEF Inv, TypeOK, HeadFits, OptionTypes, PipeTypes, BufferTypes, RegistryTypes, FunctionCall,
         pipeVars, bufferVars, registryVars, lifeVars
<1> QED BY <1>1, <1>2, <1>3 DEF Inv, TypeOK, StackOK, StackTypes

LEMMA DlopenInv ==
    ASSUME Inv, NEW t \in Threads, Dlopen(t)
    PROVE  Inv'
<1> USE InvStack
<1>1. StackOK'
  <2>1. calls + 1 \in Nat
    BY DEF Inv, TypeOK, LifeTypes
  <2>2. Packet("NL", 2, calls + 1) \in Step
    BY <2>1, StepTypes DEF Kinds
  <2> DEFINE todo == <<Packet("NL", 2, calls + 1)>>
  <2>3. todo \in Seq(Step)
    BY <2>2
  <2>4. Enter(t, todo, "call")
    BY DEF Dlopen
  <2> HIDE DEF todo
  <2> QED BY <2>3, <2>4, EnterStack DEF Reasons
<1>2. LifeTypes'
  <2>1. calls' \in 0 .. MaxCalls
    BY OptionAssumption DEF Inv, TypeOK, LifeTypes, MayEnter, Dlopen
  <2> QED BY <2>1 DEF Inv, TypeOK, LifeTypes, Dlopen, lifeVars
<1>3. OptionTypes' /\ PipeTypes' /\ BufferTypes' /\ HeadFits' /\ RegistryTypes'
  BY DEF Inv, TypeOK, HeadFits, OptionTypes, PipeTypes, BufferTypes, RegistryTypes, Dlopen,
         pipeVars, bufferVars, registryVars, lifeVars
<1> QED BY <1>1, <1>2, <1>3 DEF Inv, TypeOK, StackOK, StackTypes

LEMMA CreateContextInv ==
    ASSUME Inv, NEW t \in Threads, CreateContext(t)
    PROVE  Inv'
<1> USE InvStack
<1>1. StackOK'
  <2>1. calls + 1 \in Nat
    BY DEF Inv, TypeOK, LifeTypes
  <2>2. Packet("CR", 0, calls + 1) \in Step
    BY <2>1, StepTypes DEF Kinds
  <2> DEFINE todo == <<Packet("CR", 0, calls + 1)>>
  <2>3. todo \in Seq(Step)
    BY <2>2
  <2>4. Enter(t, todo, "call")
    BY DEF CreateContext
  <2> HIDE DEF todo
  <2> QED BY <2>3, <2>4, EnterStack DEF Reasons
<1>2. LifeTypes'
  <2>1. calls' \in 0 .. MaxCalls
    BY OptionAssumption DEF Inv, TypeOK, LifeTypes, MayEnter, CreateContext
  <2> QED BY <2>1 DEF Inv, TypeOK, LifeTypes, CreateContext, lifeVars
<1>3. OptionTypes' /\ PipeTypes' /\ BufferTypes' /\ HeadFits' /\ RegistryTypes'
  BY DEF Inv, TypeOK, HeadFits, OptionTypes, PipeTypes, BufferTypes, RegistryTypes, CreateContext,
         pipeVars, bufferVars, registryVars, lifeVars
<1> QED BY <1>1, <1>2, <1>3 DEF Inv, TypeOK, StackOK, StackTypes

LEMMA ToggleTracingInv ==
    ASSUME Inv, NEW t \in Threads, ToggleTracing(t)
    PROVE  Inv'
<1> USE InvStack
<1>1. StackOK'
  <2>1. /\ WriteFinalData \in Seq(Step)
        /\ EnableTracing(0) \in Step /\ Do("flush", 0, 0) \in Step
        /\ Do("close", 0, 0) \in Step /\ Do("clear", 0, 0) \in Step
        /\ Do("open", 0, 0) \in Step
    BY StepTypes DEF WriteFinalData, Kinds, Ops
  <2> DEFINE off == <<EnableTracing(0), Do("flush", 0, 0),
                      Do("close", 0, 0), Do("clear", 0, 0)>>
  <2>2. WriteFinalData \o off \in Seq(Step) /\ <<Do("open", 0, 0)>> \in Seq(Step)
    BY <2>1
  <2>3. PICK todo \in Seq(Step) : Enter(t, todo, "signal")
    <3>1. CASE ~enable
      BY <3>1, <2>2 DEF ToggleTracing
    <3>2. CASE enable /\ fd_proc > 0
      BY <3>2, <2>2 DEF ToggleTracing
    <3>3. CASE enable /\ ~(fd_proc > 0)
      <4>1. <<>> \in Seq(Step)
        OBVIOUS
      <4> QED BY <3>3, <4>1 DEF ToggleTracing
    <3> QED BY <3>1, <3>2, <3>3
  <2> QED BY <2>3, EnterStack DEF Reasons
<1>2. OptionTypes'
  BY DEF Inv, TypeOK, OptionTypes, ToggleTracing
<1>3. LifeTypes'
  <2>1. toggles' \in 0 .. MaxToggles
    BY OptionAssumption DEF Inv, TypeOK, LifeTypes, ToggleTracing
  <2> QED BY <2>1 DEF Inv, TypeOK, LifeTypes, ToggleTracing
<1>4. PipeTypes' /\ BufferTypes' /\ HeadFits' /\ RegistryTypes'
  BY DEF Inv, TypeOK, HeadFits, PipeTypes, BufferTypes, RegistryTypes, ToggleTracing,
         pipeVars, bufferVars, registryVars, lifeVars
<1> QED BY <1>1, <1>2, <1>3, <1>4 DEF Inv, TypeOK, StackOK, StackTypes

LEMMA ExitInv ==
    ASSUME Inv, NEW t \in Threads, Exit(t)
    PROVE  Inv'
<1> USE InvStack
<1>1. StackOK'
  <2>1. /\ WriteFinalData \in Seq(Step)
        /\ EnableTracing(0) \in Step /\ Do("flush", 0, 0) \in Step
        /\ Do("close", 0, 0) \in Step /\ Do("clear", 0, 0) \in Step
        /\ Do("open", 0, 0) \in Step
    BY StepTypes DEF WriteFinalData, Kinds, Ops
  <2> DEFINE off == <<EnableTracing(0), Do("flush", 0, 0), Do("close", 0, 0)>>
  <2>2. WriteFinalData \o off \in Seq(Step) /\ <<>> \o off \in Seq(Step)
    BY <2>1
  <2>3. PICK todo \in Seq(Step) : Enter(t, todo, "exit")
    <3>1. CASE fd_proc > 0 /\ enable
      BY <3>1, <2>2 DEF Exit
    <3>2. CASE fd_proc > 0 /\ ~enable
      BY <3>2, <2>2 DEF Exit
    <3>3. CASE ~(fd_proc > 0)
      <4>1. <<>> \in Seq(Step)
        OBVIOUS
      <4> QED BY <3>3, <4>1 DEF Exit
    <3> QED BY <3>1, <3>2, <3>3
  <2> QED BY <2>3, EnterStack DEF Reasons
<1>2. OptionTypes'
  BY DEF Inv, TypeOK, OptionTypes, Exit
<1>3. PipeTypes' /\ BufferTypes' /\ HeadFits' /\ RegistryTypes' /\ LifeTypes'
  BY DEF Inv, TypeOK, HeadFits, PipeTypes, BufferTypes, RegistryTypes, LifeTypes, Exit,
         pipeVars, bufferVars, registryVars, lifeVars
<1> QED BY <1>1, <1>2, <1>3 DEF Inv, TypeOK, StackOK, StackTypes

(* The steps inside the library.                                        *)

LEMMA CheckEnableInv ==
    ASSUME Inv, NEW t \in Threads, CheckEnable(t)
    PROVE  Inv'
<1> USE InvStack
<1>1. StackOK'
  BY GotoStack, ReturnStack DEF CheckEnable, Running, Places
<1>2. LifeTypes'
  <2>1. Current(t).n \in Nat /\ fd_proc \in Int
    BY TopType DEF CheckEnable, Running, Step, Inv, TypeOK, PipeTypes
  <2>2. accepted' \subseteq Int \X Threads \X Nat
    BY <2>1 DEF CheckEnable, Inv, TypeOK, LifeTypes
  <2> QED BY <2>2 DEF Inv, TypeOK, LifeTypes, CheckEnable, lifeVars
<1>3. OptionTypes' /\ HeadFits' /\ PipeTypes' /\ BufferTypes' /\ RegistryTypes'
  BY DEF Inv, TypeOK, OptionTypes, HeadFits, PipeTypes, BufferTypes, RegistryTypes, CheckEnable,
         pipeVars, bufferVars, registryVars, lifeVars
<1> QED BY <1>1, <1>2, <1>3 DEF Inv, TypeOK, StackOK, StackTypes

LEMMA LockInv ==
    ASSUME Inv, NEW t \in Threads, Lock(t)
    PROVE  Inv'
<1> USE InvStack
<1>1. StackOK'
  <2> DEFINE a == [Top(t) EXCEPT !.at = "unlock", !.ptr = head]
  <2>1. stack[t] # <<>> /\ head \in Nat
    BY DEF Lock, Running, Inv, TypeOK, BufferTypes
  <2>2. a \in Activation
    BY <2>1, TopType DEF Activation, Places
  <2>3. stack' = [stack EXCEPT ![t] = WithTop(stack[t], a)]
    BY DEF Lock, LockAndFill
  <2> HIDE DEF a
  <2> QED BY <2>1, <2>2, <2>3, TopReplaced
<1>2. BufferTypes' /\ HeadFits'
  <2>1. Current(t) \in Step
    BY TopType DEF Lock, Running
  <2>2. \A j \in Nat : CellOf(t, Current(t), j) \in Cell
    BY <2>1 DEF CellOf, Cell, Step
  <2>3. head \in Nat
    BY DEF Inv, TypeOK, BufferTypes
  <2>4. \A j \in 0 .. 2 * BufferSize - 1 :
           j \in head .. head + Size[Current(t).kind] - 1 => j - head + 1 \in Nat
    BY <2>3
  <2>5. pipe_buffer' \in [0 .. 2 * BufferSize - 1 -> Cell]
    BY <2>2, <2>4 DEF Inv, TypeOK, BufferTypes, Lock, LockAndFill
  <2> QED BY <2>5 DEF Inv, TypeOK, BufferTypes, HeadFits, Lock, LockAndFill
<1>3. OptionTypes' /\ PipeTypes' /\ RegistryTypes' /\ LifeTypes'
  BY DEF Inv, TypeOK, OptionTypes, PipeTypes, RegistryTypes, LifeTypes, Lock, LockAndFill,
         pipeVars, bufferVars, registryVars, lifeVars
<1> QED BY <1>1, <1>2, <1>3 DEF Inv, TypeOK, StackOK, StackTypes

LEMMA UnlockInv ==
    ASSUME Inv, NEW t \in Threads, Unlock(t)
    PROVE  Inv'
<1> USE InvStack
<1>1. StackOK'
  BY GotoStack, ReturnStack DEF Unlock, Running, Places
<1>2. BufferTypes' /\ HeadFits'
  <2>1. Current(t).kind \in Kinds
    BY TopType DEF Unlock, Running, Step
  <2>2. Size[Current(t).kind] \in Nat
    BY <2>1, BufferAssumption
  <2>3. head \in Nat /\ head <= BufferSize
    BY DEF Inv, TypeOK, BufferTypes, HeadFits
  <2>4. \/ head' = head
        \/ /\ Top(t).ptr = head
           /\ ~Overflows(Top(t))
           /\ head' = head + Size[Current(t).kind]
    BY DEF Unlock
  <2>5. head' \in Nat /\ head' <= BufferSize
    BY <2>2, <2>3, <2>4, BufferAssumption DEF Overflows, Current
  <2> QED BY <2>5 DEF Inv, TypeOK, BufferTypes, HeadFits, Unlock
<1>3. OptionTypes' /\ PipeTypes' /\ RegistryTypes' /\ LifeTypes'
  BY DEF Inv, TypeOK, OptionTypes, PipeTypes, RegistryTypes, LifeTypes, Unlock,
         pipeVars, bufferVars, registryVars, lifeVars
<1> QED BY <1>1, <1>2, <1>3 DEF Inv, TypeOK, StackOK, StackTypes

LEMMA CopyCellInv ==
    ASSUME Inv, NEW t \in Threads, CopyCell(t)
    PROVE  Inv'
<1> USE InvStack
<1>1. StackOK'
  <2> DEFINE a == [Top(t) EXCEPT !.ptr = @ + 1]
  <2>1. stack[t] # <<>>
    BY DEF CopyCell, Running
  <2>2. a \in Activation
    BY <2>1, TopType DEF Activation
  <2>3. stack' = [stack EXCEPT ![t] = WithTop(stack[t], a)]
    BY DEF CopyCell
  <2> HIDE DEF a
  <2> QED BY <2>1, <2>2, <2>3, TopReplaced
<1>2. BufferTypes' /\ HeadFits'
  <2>1. Blank \in Cell
    BY DEF Blank, Cell, Kinds
  <2>2. head \in 0 .. 2 * BufferSize - 1 /\ head + 1 <= BufferSize
    <3>1. Current(t).kind \in Kinds
      BY TopType DEF CopyCell, Running, Step
    <3>2. Size[Current(t).kind] \in 1 .. BufferSize
      BY <3>1, BufferAssumption
    <3> QED BY <3>2, BufferAssumption DEF CopyCell, Inv, TypeOK, BufferTypes
  <2>3. pipe_buffer' \in [0 .. 2 * BufferSize - 1 -> Cell]
    BY <2>1, <2>2 DEF Inv, TypeOK, BufferTypes, CopyCell
  <2> QED BY <2>2, <2>3 DEF Inv, TypeOK, BufferTypes, HeadFits, CopyCell
<1>3. OptionTypes' /\ PipeTypes' /\ RegistryTypes' /\ LifeTypes'
  BY DEF Inv, TypeOK, OptionTypes, PipeTypes, RegistryTypes, LifeTypes, CopyCell,
         pipeVars, bufferVars, registryVars, lifeVars
<1> QED BY <1>1, <1>2, <1>3 DEF Inv, TypeOK, StackOK, StackTypes

LEMMA ReleaseInv ==
    ASSUME Inv, NEW t \in Threads, Release(t)
    PROVE  Inv'
<1> USE InvStack
<1>1. StackOK'
  BY ReturnStack DEF Release, Running
<1>2. BufferTypes' /\ HeadFits'
  BY DEF Inv, TypeOK, BufferTypes, HeadFits, Release
<1>3. OptionTypes' /\ PipeTypes' /\ RegistryTypes' /\ LifeTypes'
  BY DEF Inv, TypeOK, OptionTypes, PipeTypes, RegistryTypes, LifeTypes, Release,
         pipeVars, bufferVars, registryVars, lifeVars
<1> QED BY <1>1, <1>2, <1>3 DEF Inv, TypeOK, StackOK, StackTypes

LEMMA WriteSentInv ==
    ASSUME Inv, NEW t \in Threads, WriteSent(t)
    PROVE  Inv'
<1> USE InvStack
<1>1. StackOK'
  BY GotoStack DEF WriteSent, AtWrite, Running, Places
<1>2. PipeTypes'
  <2> DEFINE cells == [j \in 1 .. head |-> pipe_buffer[j - 1]]
  <2>1. cells \in Seq(Cell)
    <3>1. head \in Nat /\ head <= 2 * BufferSize
      BY BufferAssumption DEF Inv, TypeOK, BufferTypes, HeadFits
    <3>2. \A j \in 1 .. head : pipe_buffer[j - 1] \in Cell
      BY <3>1, BufferAssumption DEF Inv, TypeOK, BufferTypes
    <3> QED BY <3>1, <3>2
  <2>2. Send(cells) /\ UNCHANGED <<fd_proc, closed>>
    BY DEF WriteSent
  <2> HIDE DEF cells
  <2>3. PipeTypes /\ Writable
    BY DEF WriteSent, Inv, TypeOK
  <2>4. CASE fd_proc = 0
    <3>1. own' = own \o cells /\ out' = out
      BY <2>2, <2>4 DEF Send
    <3>2. own' \in Seq(Cell)
      BY <2>1, <2>3, <3>1 DEF PipeTypes
    <3> QED BY <2>2, <2>3, <3>1, <3>2 DEF PipeTypes
  <2>5. CASE fd_proc # 0
    <3>1. fd_proc \in 1 .. Len(out) /\ out[fd_proc] \in Seq(Cell)
      BY <2>3, <2>5 DEF PipeTypes, Writable
    <3>2. out[fd_proc] \o cells \in Seq(Cell)
      BY <2>1, <3>1
    <3>3. out' = [out EXCEPT ![fd_proc] = out[fd_proc] \o cells] /\ own' = own
      BY <2>2, <2>5 DEF Send
    <3>4. out' \in Seq(Seq(Cell)) /\ Len(out') = Len(out)
      BY <2>3, <3>1, <3>2, <3>3 DEF PipeTypes
    <3> QED BY <2>2, <2>3, <3>3, <3>4 DEF PipeTypes
  <2> QED BY <2>4, <2>5
<1>3. OptionTypes' /\ HeadFits' /\ BufferTypes' /\ RegistryTypes' /\ LifeTypes'
  BY DEF Inv, TypeOK, OptionTypes, HeadFits, BufferTypes, RegistryTypes, LifeTypes, WriteSent,
         pipeVars, bufferVars, registryVars, lifeVars
<1> QED BY <1>1, <1>2, <1>3 DEF Inv, TypeOK, StackOK, StackTypes

LEMMA WriteFailedInv ==
    ASSUME Inv, NEW t \in Threads, WriteFailed(t)
    PROVE  Inv'
<1> USE InvStack
<1>1. StackOK'
  <2> DEFINE a == [Top(t) EXCEPT !.at = "fail"]
             s == WithTop(stack[t], a)
             c == Call(<<EnableTracing(0)>>, "call")
  <2>1. stack[t] # <<>>
    BY DEF WriteFailed, AtWrite, Running
  <2>2. a \in Activation
    BY <2>1, TopType DEF Activation, Places
  <2>3. s \in Seq(Activation) /\ \A i \in DOMAIN s : s[i].todo # <<>>
    <3> HIDE DEF a
    <3> QED BY <2>1, <2>2, WithTopType DEF StackOK, Busy
  <2>4. c \in Activation /\ c.todo # <<>>
    <3>1. <<EnableTracing(0)>> \in Seq(Step) /\ "call" \in Reasons
      BY StepTypes DEF Reasons
    <3> QED BY <3>1, CallType DEF Call
  <2>5. stack' = [stack EXCEPT ![t] = Append(s, c)]
    BY DEF WriteFailed
  <2> HIDE DEF s, c
  <2>6. /\ Append(s, c) \in Seq(Activation)
        /\ \A i \in DOMAIN Append(s, c) : Append(s, c)[i].todo # <<>>
    BY <2>3, <2>4
  <2>7. stack' \in [Threads -> Seq(Activation)]
    BY <2>5, <2>6 DEF StackOK
  <2>8. ASSUME NEW u \in Threads, NEW i \in DOMAIN stack'[u]
        PROVE  stack'[u][i].todo # <<>>
    <3>1. CASE u = t
      BY <2>5, <2>6, <2>8, <3>1 DEF StackOK
    <3>2. CASE u # t
      BY <2>5, <2>8, <3>2 DEF StackOK, Busy
    <3> QED BY <3>1, <3>2
  <2> QED BY <2>7, <2>8 DEF StackOK, Busy
<1>2. OptionTypes' /\ HeadFits' /\ PipeTypes' /\ BufferTypes' /\ RegistryTypes' /\ LifeTypes'
  BY DEF Inv, TypeOK, OptionTypes, HeadFits, PipeTypes, BufferTypes, RegistryTypes, LifeTypes, WriteFailed,
         pipeVars, bufferVars, registryVars, lifeVars
<1> QED BY <1>1, <1>2 DEF Inv, TypeOK, StackOK, StackTypes

LEMMA DisableAfterErrorInv ==
    ASSUME Inv, NEW t \in Threads, DisableAfterError(t)
    PROVE  Inv'
<1> USE InvStack
<1>1. StackOK'
  BY GotoStack DEF DisableAfterError, Flushing, Running, Places
<1>2. PipeTypes'
  BY DEF DisableAfterError, Inv, TypeOK, PipeTypes
<1>3. OptionTypes' /\ HeadFits' /\ BufferTypes' /\ RegistryTypes' /\ LifeTypes'
  BY DEF Inv, TypeOK, OptionTypes, HeadFits, BufferTypes, RegistryTypes, LifeTypes, DisableAfterError,
         pipeVars, bufferVars, registryVars, lifeVars
<1> QED BY <1>1, <1>2, <1>3 DEF Inv, TypeOK, StackOK, StackTypes

LEMMA RewindInv ==
    ASSUME Inv, NEW t \in Threads, Rewind(t)
    PROVE  Inv'
<1> USE InvStack
<1>1. StackOK'
  BY GotoStack, ReturnStack DEF Rewind, Flushing, Running, Places
<1>2. BufferTypes' /\ HeadFits'
  BY BufferAssumption DEF Rewind, Inv, TypeOK, BufferTypes, HeadFits
<1>3. OptionTypes' /\ PipeTypes' /\ RegistryTypes' /\ LifeTypes'
  BY DEF Inv, TypeOK, OptionTypes, PipeTypes, RegistryTypes, LifeTypes, Rewind,
         pipeVars, bufferVars, registryVars, lifeVars
<1> QED BY <1>1, <1>2, <1>3 DEF Inv, TypeOK, StackOK, StackTypes

LEMMA OpenPipeSteps ==
    ASSUME Inv, NEW t \in Threads, OpenPipe(t)
    PROVE  stack[t] # <<>> /\ \E more \in Seq(Step) : Continue(t, more)
<1> USE InvStack
<1>1. /\ stack[t] # <<>>
      /\ WriteInitialData \in Seq(Step)
      /\ EnableTracing(1) \in Step /\ EnableTracing(0) \in Step
      /\ Do("nopipe", 0, 0) \in Step
  BY InitialDataType, StepTypes DEF OpenPipe, Running, Ops
<1> DEFINE data == Append(WriteInitialData, EnableTracing(1))
           failed == <<Do("nopipe", 0, 0)>> \o
                     (IF Current(t).op = "open" THEN <<>> ELSE data)
<1>2. data \in Seq(Step)
  BY <1>1
<1>3. Continue(t, data) \/ Continue(t, <<EnableTracing(0)>> \o failed)
      \/ Continue(t, failed)
  BY DEF OpenPipe
<1> HIDE DEF data
<1>4. failed \in Seq(Step)
  <2>1. (IF Current(t).op = "open" THEN <<>> ELSE data) \in Seq(Step)
    BY <1>2
  <2> QED BY <1>1, <2>1
<1> HIDE DEF failed
<1>5. <<EnableTracing(0)>> \o failed \in Seq(Step)
  BY <1>1, <1>4
<1> QED BY <1>1, <1>2, <1>3, <1>4, <1>5

LEMMA OpenPipeInv ==
    ASSUME Inv, NEW t \in Threads, OpenPipe(t)
    PROVE  Inv'
<1> USE InvStack
<1>1. StackOK'
  BY OpenPipeSteps, ContinueStack
<1>2. OptionTypes'
  <2>1. enable' = enable \/ enable' = FALSE
    BY DEF OpenPipe
  <2>2. UNCHANGED <<arena, exited>> /\ OptionTypes
    BY DEF OpenPipe, lifeVars, Inv, TypeOK
  <2> QED BY <2>1, <2>2 DEF OptionTypes
<1>3. PipeTypes'
  <2>1. UNCHANGED <<own, closed>> /\ PipeTypes
    BY DEF OpenPipe, Inv, TypeOK
  <2>2. CASE out' = Append(out, <<>>) /\ fd_proc' = Len(out) + 1
    <3>1. out' \in Seq(Seq(Cell)) /\ Len(out') = Len(out) + 1
      BY <2>1, <2>2 DEF PipeTypes
    <3> QED BY <2>1, <2>2, <3>1 DEF PipeTypes
  <2>3. CASE UNCHANGED <<out, fd_proc>>
    BY <2>1, <2>3 DEF PipeTypes
  <2> QED BY <2>2, <2>3 DEF OpenPipe
<1>4. BufferTypes' /\ HeadFits' /\ RegistryTypes' /\ LifeTypes'
  BY DEF Inv, TypeOK, BufferTypes, HeadFits, RegistryTypes, LifeTypes, OpenPipe,
         pipeVars, bufferVars, registryVars, lifeVars
<1> QED BY <1>1, <1>2, <1>3, <1>4 DEF Inv, TypeOK, StackOK, StackTypes

LEMMA ResetInv ==
    ASSUME Inv, NEW t \in Threads, Reset(t)
    PROVE  Inv'
<1> USE InvStack
<1>1. StackOK'
  BY ReturnStack DEF Reset, Running
<1>2. BufferTypes' /\ HeadFits'
  BY BufferAssumption DEF Reset, Inv, TypeOK, BufferTypes, HeadFits
<1>3. OptionTypes' /\ PipeTypes' /\ RegistryTypes' /\ LifeTypes'
  BY DEF Inv, TypeOK, OptionTypes, PipeTypes, RegistryTypes, LifeTypes, Reset,
         pipeVars, bufferVars, registryVars, lifeVars
<1> QED BY <1>1, <1>2, <1>3 DEF Inv, TypeOK, StackOK, StackTypes

LEMMA WriteRegistriesSteps ==
    ASSUME Inv, NEW t \in Threads, WriteRegistries(t)
    PROVE  stack[t] # <<>> /\ \E more \in Seq(Step) : Continue(t, more)
<1> USE InvStack
<1> DEFINE step == Current(t)
           kind == IF step.op = "modules" THEN "MI" ELSE "RR"
           next == [step EXCEPT !.n = @ + 1]
<1>1. stack[t] # <<>> /\ step \in Step
  BY TopType DEF WriteRegistries, Running
<1>2. Packet(kind, step.n, 0) \in Step /\ next \in Step
  <2>1. kind \in Kinds /\ step.n \in Nat
    BY <1>1 DEF Kinds, Step
  <2>2. next \in Step
    <3> HIDE DEF step
    <3> QED BY <1>1, StepEdits
  <2> QED BY <2>1, <2>2, StepTypes
<1>3. Continue(t, <<Packet(kind, step.n, 0), next>>) \/ Continue(t, <<>>)
  BY DEF WriteRegistries
<1> HIDE DEF step, kind, next
<1>4. <<Packet(kind, step.n, 0), next>> \in Seq(Step) /\ <<>> \in Seq(Step)
  BY <1>2
<1> QED BY <1>1, <1>3, <1>4

LEMMA WriteRegistriesInv ==
    ASSUME Inv, NEW t \in Threads, WriteRegistries(t)
    PROVE  Inv'
<1> USE InvStack
<1>1. StackOK'
  BY WriteRegistriesSteps, ContinueStack
<1>2. OptionTypes' /\ HeadFits' /\ PipeTypes' /\ BufferTypes' /\ RegistryTypes' /\ LifeTypes'
  BY DEF Inv, TypeOK, OptionTypes, HeadFits, PipeTypes, BufferTypes, RegistryTypes, LifeTypes, WriteRegistries,
         pipeVars, bufferVars, registryVars, lifeVars
<1> QED BY <1>1, <1>2 DEF Inv, TypeOK, StackOK, StackTypes

LEMMA HeapInfoSteps ==
    ASSUME Inv, NEW t \in Threads, HeapInfo(t)
    PROVE  stack[t] # <<>> /\ \E more \in Seq(Step) : Continue(t, more)
<1> USE InvStack
<1>1. stack[t] # <<>> /\ <<Packet("HI", 0, 0)>> \in Seq(Step) /\ <<>> \in Seq(Step)
  BY StepTypes DEF HeapInfo, Running, Kinds
<1>2. Continue(t, <<Packet("HI", 0, 0)>>) \/ Continue(t, <<>>)
  BY DEF HeapInfo
<1> QED BY <1>1, <1>2

LEMMA HeapInfoInv ==
    ASSUME Inv, NEW t \in Threads, HeapInfo(t)
    PROVE  Inv'
<1> USE InvStack
<1>1. StackOK'
  BY HeapInfoSteps, ContinueStack
<1>2. OptionTypes' /\ HeadFits' /\ PipeTypes' /\ BufferTypes' /\ RegistryTypes' /\ LifeTypes'
  BY DEF Inv, TypeOK, OptionTypes, HeadFits, PipeTypes, BufferTypes, RegistryTypes, LifeTypes, HeapInfo,
         pipeVars, bufferVars, registryVars, lifeVars
<1> QED BY <1>1, <1>2 DEF Inv, TypeOK, StackOK, StackTypes

LEMMA StoreHeapInfoInv ==
    ASSUME Inv, NEW t \in Threads, StoreHeapInfo(t)
    PROVE  Inv'
<1> USE InvStack
<1>1. StackOK'
  BY ReturnStack DEF StoreHeapInfo, Running
<1>2. OptionTypes' /\ HeadFits' /\ PipeTypes' /\ BufferTypes' /\ RegistryTypes' /\ LifeTypes'
  BY DEF Inv, TypeOK, OptionTypes, HeadFits, PipeTypes, BufferTypes, RegistryTypes, LifeTypes, StoreHeapInfo,
         pipeVars, bufferVars, registryVars, lifeVars
<1> QED BY <1>1, <1>2 DEF Inv, TypeOK, StackOK, StackTypes

LEMMA ClosePipeInv ==
    ASSUME Inv, NEW t \in Threads, ClosePipe(t)
    PROVE  Inv'
<1> USE InvStack
<1>1. StackOK'
  BY ReturnStack DEF ClosePipe, Running
<1>2. PipeTypes'
  BY DEF ClosePipe, Inv, TypeOK, PipeTypes
<1>3. OptionTypes' /\ HeadFits' /\ BufferTypes' /\ RegistryTypes' /\ LifeTypes'
  BY DEF Inv, TypeOK, OptionTypes, HeadFits, BufferTypes, RegistryTypes, LifeTypes, ClosePipe,
         pipeVars, bufferVars, registryVars, lifeVars
<1> QED BY <1>1, <1>2, <1>3 DEF Inv, TypeOK, StackOK, StackTypes

LEMMA ClearPipeInv ==
    ASSUME Inv, NEW t \in Threads, ClearPipe(t)
    PROVE  Inv'
<1> USE InvStack
<1>1. StackOK'
  BY ReturnStack DEF ClearPipe, Running
<1>2. PipeTypes'
  BY DEF ClearPipe, Inv, TypeOK, PipeTypes
<1>3. OptionTypes' /\ HeadFits' /\ BufferTypes' /\ RegistryTypes' /\ LifeTypes'
  BY DEF Inv, TypeOK, OptionTypes, HeadFits, BufferTypes, RegistryTypes, LifeTypes, ClearPipe,
         pipeVars, bufferVars, registryVars, lifeVars
<1> QED BY <1>1, <1>2, <1>3 DEF Inv, TypeOK, StackOK, StackTypes

LEMMA ReadyInv ==
    ASSUME Inv, NEW t \in Threads, Ready(t)
    PROVE  Inv'
<1> USE InvStack
<1>1. StackOK'
  BY ReturnStack DEF Ready, Running
<1>2. LifeTypes'
  BY DEF Ready, Inv, TypeOK, LifeTypes
<1>3. OptionTypes' /\ HeadFits' /\ PipeTypes' /\ BufferTypes' /\ RegistryTypes'
  BY DEF Inv, TypeOK, OptionTypes, HeadFits, PipeTypes, BufferTypes, RegistryTypes, Ready,
         pipeVars, bufferVars, registryVars, lifeVars
<1> QED BY <1>1, <1>2, <1>3 DEF Inv, TypeOK, StackOK, StackTypes

LEMMA EnableModuleSteps ==
    ASSUME Inv, NEW t \in Threads, EnableModule(t)
    PROVE  stack[t] # <<>> /\ \E more \in Seq(Step) : Continue(t, more)
<1> USE InvStack
<1> DEFINE step == Current(t)
           m == moduleAt[step.n]
           marked == [step EXCEPT !.kind = "AT"]
           next == [step EXCEPT !.n = @ + 1, !.kind = "HS"]
           attach == <<Packet("AT", 2 * m, 0), Packet("AT", 2 * m + 1, 0), marked>>
<1>1. stack[t] # <<>> /\ step \in Step
  BY TopType DEF EnableModule, Running
<1>2. marked \in Step /\ next \in Step
  <2> HIDE DEF step
  <2> QED BY <1>1, StepEdits
<1>3. m \in Attaching => attach \in Seq(Step)
  <2>1. ASSUME m \in Attaching PROVE 2 * m \in Nat /\ 2 * m + 1 \in Nat
    <3>1. m \in Nat
      BY <2>1, RegistryAssumption
    <3> QED BY <3>1
  <2>2. ASSUME m \in Attaching
        PROVE Packet("AT", 2 * m, 0) \in Step /\ Packet("AT", 2 * m + 1, 0) \in Step
    BY <2>1, <2>2, StepTypes DEF Kinds
  <2> HIDE DEF marked
  <2> QED BY <1>2, <2>2
<1>4. <<>> \in Seq(Step) /\ <<next>> \in Seq(Step)
  BY <1>2
<1>5. \/ Continue(t, <<>>)
      \/ m \in Attaching /\ Continue(t, attach)
      \/ Continue(t, <<next>>)
  BY DEF EnableModule, Return
<1> HIDE DEF step, m, next, attach
<1> QED BY <1>1, <1>3, <1>4, <1>5

LEMMA EnableModuleInv ==
    ASSUME Inv, NEW t \in Threads, EnableModule(t)
    PROVE  Inv'
<1> USE InvStack
<1>1. StackOK'
  BY EnableModuleSteps, ContinueStack
<1>2. RegistryTypes'
  <2>1. moduleOn' \in [TracingModules -> BOOLEAN]
    <3>1. \/ moduleOn' = moduleOn
          \/ moduleOn' = [moduleOn EXCEPT ![moduleAt[Current(t).n]] = (Current(t).id = 1)]
      BY DEF EnableModule
    <3>2. moduleOn \in [TracingModules -> BOOLEAN]
      BY DEF Inv, TypeOK, RegistryTypes
    <3> QED BY <3>1, <3>2
  <2> QED BY <2>1 DEF EnableModule, Inv, TypeOK, RegistryTypes
<1>3. OptionTypes' /\ HeadFits' /\ PipeTypes' /\ BufferTypes' /\ LifeTypes'
  BY DEF Inv, TypeOK, OptionTypes, HeadFits, PipeTypes, BufferTypes, LifeTypes, EnableModule,
         pipeVars, bufferVars, registryVars, lifeVars
<1> QED BY <1>1, <1>2, <1>3 DEF Inv, TypeOK, StackOK, StackTypes

LEMMA RegisterModuleSteps ==
    ASSUME Inv, NEW t \in Threads, RegisterModule(t)
    PROVE  stack[t] # <<>> /\ \E more \in Seq(Step) : Continue(t, more)
<1> USE InvStack
<1>1. stack[t] # <<>>
  BY DEF RegisterModule, Running
<1>2. \/ Continue(t, <<>>)
      \/ modules < MaxModules /\ modules' = modules + 1
         /\ Continue(t, <<Packet("MI", modules', 0)>>)
  BY DEF RegisterModule, Return
<1>3. modules' = modules + 1 => <<Packet("MI", modules', 0)>> \in Seq(Step)
  <2>1. modules + 1 \in Nat
    BY DEF Inv, TypeOK, RegistryTypes
  <2> QED BY <2>1, StepTypes DEF Kinds
<1>4. <<>> \in Seq(Step)
  OBVIOUS
<1> QED BY <1>1, <1>2, <1>3, <1>4

LEMMA RegisterModuleInv ==
    ASSUME Inv, NEW t \in Threads, RegisterModule(t)
    PROVE  Inv'
<1> USE InvStack
<1>1. StackOK'
  BY RegisterModuleSteps, ContinueStack
<1>2. RegistryTypes'
  <2>1. Current(t).id \in Nat /\ enable \in BOOLEAN
    BY TopType DEF RegisterModule, Running, Step, Inv, TypeOK, OptionTypes
  <2>2. moduleOn' \in [TracingModules -> BOOLEAN]
    <3>1. \/ moduleOn' = moduleOn
          \/ moduleOn' = [moduleOn EXCEPT ![Current(t).id] = enable]
      BY DEF RegisterModule
    <3>2. moduleOn \in [TracingModules -> BOOLEAN]
      BY DEF Inv, TypeOK, RegistryTypes
    <3> QED BY <2>1, <3>1, <3>2
  <2>3. modules' \in 0 .. MaxModules /\ moduleAt' \in [1 .. MaxModules -> Nat]
    <3>1. \/ UNCHANGED <<modules, moduleAt>>
          \/ /\ modules < MaxModules
             /\ modules' = modules + 1
             /\ moduleAt' = [moduleAt EXCEPT ![modules + 1] = Current(t).id]
      BY DEF RegisterModule
    <3>2. modules \in 0 .. MaxModules /\ moduleAt \in [1 .. MaxModules -> Nat]
      BY DEF Inv, TypeOK, RegistryTypes
    <3>3. modules' \in 0 .. MaxModules
      BY <3>1, <3>2, RegistryAssumption
    <3>4. moduleAt' \in [1 .. MaxModules -> Nat]
      BY <2>1, <3>1, <3>2
    <3> QED BY <3>3, <3>4
  <2> QED BY <2>2, <2>3 DEF RegisterModule, Inv, TypeOK, RegistryTypes
<1>3. OptionTypes' /\ HeadFits' /\ PipeTypes' /\ BufferTypes' /\ LifeTypes'
  BY DEF Inv, TypeOK, OptionTypes, HeadFits, PipeTypes, BufferTypes, LifeTypes, RegisterModule,
         pipeVars, bufferVars, registryVars, lifeVars
<1> QED BY <1>1, <1>2, <1>3 DEF Inv, TypeOK, StackOK, StackTypes

LEMMA RegisterResourceSteps ==
    ASSUME Inv, NEW t \in Threads, RegisterResource(t)
    PROVE  stack[t] # <<>> /\ \E more \in Seq(Step) : Continue(t, more)
<1> USE InvStack
<1>1. stack[t] # <<>>
  BY DEF RegisterResource, Running
<1>2. \/ Continue(t, <<>>)
      \/ resources' = resources + 1
         /\ Continue(t, <<Packet("RR", resources', 0)>>)
  BY DEF RegisterResource, Return
<1>3. resources' = resources + 1 => <<Packet("RR", resources', 0)>> \in Seq(Step)
  <2>1. resources + 1 \in Nat
    BY DEF Inv, TypeOK, RegistryTypes
  <2> QED BY <2>1, StepTypes DEF Kinds
<1>4. <<>> \in Seq(Step)
  OBVIOUS
<1> QED BY <1>1, <1>2, <1>3, <1>4

LEMMA RegisterResourceInv ==
    ASSUME Inv, NEW t \in Threads, RegisterResource(t)
    PROVE  Inv'
<1> USE InvStack
<1>1. StackOK'
  BY RegisterResourceSteps, ContinueStack
<1>2. RegistryTypes'
  <2>1. Current(t).id \in Nat
    BY TopType DEF RegisterResource, Running, Step
  <2>2. resources' \in 0 .. MaxResources /\ resourceType' \in [1 .. MaxResources -> Nat]
    <3>1. \/ UNCHANGED <<resources, resourceType>>
          \/ /\ resources < MaxResources
             /\ resources' = resources + 1
             /\ resourceType' = [resourceType EXCEPT ![resources + 1] = Current(t).id]
      BY DEF RegisterResource
    <3>2. resources \in 0 .. MaxResources /\ resourceType \in [1 .. MaxResources -> Nat]
      BY DEF Inv, TypeOK, RegistryTypes
    <3>3. resources' \in 0 .. MaxResources
      BY <3>1, <3>2, RegistryAssumption
    <3>4. resourceType' \in [1 .. MaxResources -> Nat]
      BY <2>1, <3>1, <3>2
    <3> QED BY <3>3, <3>4
  <2> QED BY <2>2 DEF RegisterResource, Inv, TypeOK, RegistryTypes
<1>3. OptionTypes' /\ HeadFits' /\ PipeTypes' /\ BufferTypes' /\ LifeTypes'
  BY DEF Inv, TypeOK, OptionTypes, HeadFits, PipeTypes, BufferTypes, LifeTypes, RegisterResource,
         pipeVars, bufferVars, registryVars, lifeVars
<1> QED BY <1>1, <1>2, <1>3 DEF Inv, TypeOK, StackOK, StackTypes

(* Every step preserves the invariant: one case for each action.           *)
LEMMA NextInv ==
    ASSUME Inv, [Next]_vars
    PROVE  Inv'
<1>1. CASE UNCHANGED vars
  BY <1>1 DEF vars, Inv, TypeOK, OptionTypes, PipeTypes, BufferTypes,
              RegistryTypes, LifeTypes, StackTypes, Busy, HeadFits
<1>2. ASSUME NEW t \in Threads, EntryPoint(t)
      PROVE  Inv'
  <2>1. CASE Initialize(t)
    BY <2>1, InitializeInv
  <2>2. CASE Dlopen(t)
    BY <2>2, DlopenInv
  <2>3. CASE CreateContext(t)
    BY <2>3, CreateContextInv
  <2>4. CASE ToggleTracing(t)
    BY <2>4, ToggleTracingInv
  <2>5. CASE Exit(t)
    BY <2>5, ExitInv
  <2>6. ASSUME NEW m \in TracingModules, InitializeModule(t, m)
        PROVE  Inv'
    BY <2>6, InitializeModuleInv
  <2>7. ASSUME NEW m \in TracingModules, NEW i \in DOMAIN Registers[m],
               FunctionCall(t, m, Registers[m][i])
        PROVE  Inv'
    BY <2>7, FunctionCallInv
  <2> QED BY <1>2, <2>1, <2>2, <2>3, <2>4, <2>5, <2>6, <2>7 DEF EntryPoint
<1>3. ASSUME NEW t \in Threads, Progress(t)
      PROVE  Inv'
  <2>1. CASE CheckEnable(t)
    BY <2>1, CheckEnableInv
  <2>2. CASE Lock(t)
    BY <2>2, LockInv
  <2>3. CASE Unlock(t)
    BY <2>3, UnlockInv
  <2>4. CASE CopyCell(t)
    BY <2>4, CopyCellInv
  <2>5. CASE Release(t)
    BY <2>5, ReleaseInv
  <2>6. CASE WriteSent(t)
    BY <2>6, WriteSentInv
  <2>7. CASE WriteFailed(t)
    BY <2>7, WriteFailedInv
  <2>8. CASE DisableAfterError(t)
    BY <2>8, DisableAfterErrorInv
  <2>9. CASE Rewind(t)
    BY <2>9, RewindInv
  <2>10. CASE OpenPipe(t)
    BY <2>10, OpenPipeInv
  <2>11. CASE Reset(t)
    BY <2>11, ResetInv
  <2>12. CASE WriteRegistries(t)
    BY <2>12, WriteRegistriesInv
  <2>13. CASE EnableModule(t)
    BY <2>13, EnableModuleInv
  <2>14. CASE RegisterModule(t)
    BY <2>14, RegisterModuleInv
  <2>15. CASE RegisterResource(t)
    BY <2>15, RegisterResourceInv
  <2>16. CASE HeapInfo(t)
    BY <2>16, HeapInfoInv
  <2>17. CASE StoreHeapInfo(t)
    BY <2>17, StoreHeapInfoInv
  <2>18. CASE ClosePipe(t)
    BY <2>18, ClosePipeInv
  <2>19. CASE ClearPipe(t)
    BY <2>19, ClearPipeInv
  <2>20. CASE Ready(t)
    BY <2>20, ReadyInv
  <2> QED BY <1>3, <2>1, <2>2, <2>3, <2>4, <2>5, <2>6, <2>7, <2>8, <2>9,
            <2>10, <2>11, <2>12, <2>13, <2>14, <2>15, <2>16, <2>17, <2>18,
            <2>19, <2>20 DEF Progress
<1> QED BY <1>1, <1>2, <1>3 DEF Next

(* Everything the library stores and sends keeps its type in every         *)
(* interleaving of calls, toggle signals and failing writes: in particular *)
(* the registries are never indexed past their arrays, and what a flush    *)
(* sends was read inside pipe_buffer.                                      *)
THEOREM TypeCorrect == Spec => []TypeOK
<1>1. Inv => TypeOK
  BY DEF Inv
<1> QED BY <1>1, InitInv, NextInv, PTL DEF Spec

(* The library's packets are never stored past the end of pipe_buffer,     *)
(* whatever resets or flushes the buffer behind the back of a writer.      *)
THEOREM StoresSafe == Spec => []StoresInBounds
<1>1. Inv => StoresInBounds
  <2> SUFFICES ASSUME Inv PROVE StoresInBounds
    OBVIOUS
  <2>1. head \in Nat /\ head <= BufferSize
    BY DEF Inv, TypeOK, BufferTypes, HeadFits
  <2>2. ASSUME NEW k \in Kinds PROVE head + Size[k] <= 2 * BufferSize
    <3>1. Size[k] \in 1 .. BufferSize
      BY <2>2, BufferAssumption
    <3> QED BY <2>1, <3>1, BufferAssumption
  <2> QED BY <2>1, <2>2 DEF StoresInBounds
<1> QED BY <1>1, InitInv, NextInv, PTL DEF Spec

(***************************************************************************)
(* pipe_buffer_lock and pipe_buffer_unlock exclude each other's holders,   *)
(* with nested activations and toggle signals on any thread.  Only Lock    *)
(* makes a new holder, and it finds the buffer unlocked; only Release      *)
(* unlocks it, and the activation that does so was the only holder.        *)
(***************************************************************************)

HoldingPlaces == {"unlock", "write", "fail", "rewind", "copy", "release"}

(* The step makes no activation a holder that was not one at its place.    *)
HoldersKept ==
    \A u \in Threads : \A i \in DOMAIN stack'[u] :
        Holding(stack'[u][i]) => i \in DOMAIN stack[u] /\ Holding(stack[u][i])

LEMMA WithTopAt ==
    ASSUME NEW s \in Seq(Activation), s # <<>>, NEW a \in Activation,
           NEW i \in DOMAIN WithTop(s, a)
    PROVE  /\ i \in DOMAIN s
           /\ i # Len(s) => WithTop(s, a)[i] = s[i]
           /\ i = Len(s) => WithTop(s, a)[i] = a
<1>1. CASE a.todo = <<>>
  BY <1>1 DEF WithTop
<1>2. CASE a.todo # <<>>
  BY <1>2 DEF WithTop
<1> QED BY <1>1, <1>2

LEMMA ReplacedHolders ==
    ASSUME StackOK, NEW t \in Threads, stack[t] # <<>>, NEW a \in Activation,
           stack' = [stack EXCEPT ![t] = WithTop(stack[t], a)],
           Holding(a) => Holding(Top(t))
    PROVE  HoldersKept
<1> SUFFICES ASSUME NEW u \in Threads, NEW i \in DOMAIN stack'[u],
                    Holding(stack'[u][i])
             PROVE  i \in DOMAIN stack[u] /\ Holding(stack[u][i])
  BY DEF HoldersKept
<1>1. CASE u # t
  BY <1>1 DEF StackOK
<1>2. CASE u = t
  <2>1. stack'[t] = WithTop(stack[t], a) /\ stack[t] \in Seq(Activation)
    BY DEF StackOK
  <2>2. /\ i \in DOMAIN stack[t]
        /\ i # Len(stack[t]) => stack'[t][i] = stack[t][i]
        /\ i = Len(stack[t]) => stack'[t][i] = a
    BY <1>2, <2>1, WithTopAt
  <2> QED BY <1>2, <2>2 DEF Top
<1> QED BY <1>1, <1>2

LEMMA GotoHolders ==
    ASSUME StackOK, NEW t \in Threads, stack[t] # <<>>, NEW place \in Places,
           Goto(t, place),
           \/ place \notin HoldingPlaces
           \/ Current(t).op # "packet"
           \/ Holding(Top(t))
    PROVE  HoldersKept
<1> DEFINE a == [Top(t) EXCEPT !.at = place]
<1>1. a \in Activation /\ a.at = place /\ a.todo = Top(t).todo
  BY TopType DEF Activation
<1>2. stack' = [stack EXCEPT ![t] = WithTop(stack[t], a)]
  BY DEF Goto
<1>3. Holding(a) => Holding(Top(t))
  BY <1>1 DEF Holding, HoldingPlaces, Current
<1> HIDE DEF a
<1> QED BY <1>1, <1>2, <1>3, ReplacedHolders

LEMMA ContinueHolders ==
    ASSUME StackOK, NEW t \in Threads, stack[t] # <<>>, NEW more \in Seq(Step),
           Continue(t, more)
    PROVE  HoldersKept
<1> DEFINE rest == more \o Tail(Top(t).todo)
           a == [todo |-> rest, at |-> "start",
                 ptr |-> Top(t).ptr, why |-> Top(t).why]
<1>1. rest \in Seq(Step)
  BY TopType
<1>2. a \in Activation /\ a.at = "start"
  BY <1>1, TopType DEF Activation, Places
<1>3. stack' = [stack EXCEPT ![t] = WithTop(stack[t], a)]
  BY DEF Continue
<1> HIDE DEF a
<1>4. ~Holding(a)
  BY <1>2 DEF Holding
<1> QED BY <1>2, <1>3, <1>4, ReplacedHolders

LEMMA ReturnHolders ==
    ASSUME StackOK, NEW t \in Threads, stack[t] # <<>>, Return(t)
    PROVE  HoldersKept
<1>1. <<>> \in Seq(Step)
  OBVIOUS
<1> QED BY <1>1, ContinueHolders DEF Return

LEMMA EnterHolders ==
    ASSUME StackOK, NEW t \in Threads, NEW todo, NEW why, Enter(t, todo, why)
    PROVE  HoldersKept
<1> SUFFICES ASSUME NEW u \in Threads, NEW i \in DOMAIN stack'[u],
                    Holding(stack'[u][i])
             PROVE  i \in DOMAIN stack[u] /\ Holding(stack[u][i])
  BY DEF HoldersKept
<1> DEFINE c == Call(todo, why)
<1>1. ~Holding(c)
  BY DEF Holding, Call
<1>2. stack' = [stack EXCEPT ![t] = IF todo = <<>> THEN stack[t]
                                     ELSE Append(stack[t], c)]
  BY DEF Enter
<1> HIDE DEF c
<1>3. CASE u # t \/ todo = <<>>
  BY <1>2, <1>3 DEF StackOK
<1>4. CASE u = t /\ todo # <<>>
  <2>1. stack'[u] = Append(stack[u], c) /\ stack[u] \in Seq(Activation)
    BY <1>2, <1>4 DEF StackOK
  <2>2. i \in 1 .. Len(stack[u]) + 1
    BY <2>1
  <2>3. i # Len(stack[u]) + 1
    BY <1>1, <2>1
  <2> QED BY <2>1, <2>2, <2>3
<1> QED BY <1>3, <1>4

(* A step that makes no holder and leaves the lock alone.                  *)
LEMMA KeptExcludes ==
    ASSUME LockExcludes, HoldersKept, locked' = locked
    PROVE  LockExcludes'
BY DEF LockExcludes, HoldersKept, Holding

LEMMA InitializeExcludes ==
    ASSUME Inv, LockExcludes, NEW t \in Threads, Initialize(t)
    PROVE  LockExcludes'
<1>1. HoldersKept
  BY InvStack, EnterHolders DEF Initialize
<1>2. locked' = locked
  BY DEF Initialize, bufferVars
<1> QED BY <1>1, <1>2, KeptExcludes

LEMMA InitializeModuleExcludes ==
    ASSUME Inv, LockExcludes, NEW t \in Threads, NEW m, InitializeModule(t, m)
    PROVE  LockExcludes'
<1>1. HoldersKept
  BY InvStack, EnterHolders DEF InitializeModule
<1>2. locked' = locked
  BY DEF InitializeModule, bufferVars
<1> QED BY <1>1, <1>2, KeptExcludes

LEMMA FunctionCallExcludes ==
    ASSUME Inv, LockExcludes, NEW t \in Threads, NEW m, NEW type, FunctionCall(t, m, type)
    PROVE  LockExcludes'
<1>1. HoldersKept
  BY InvStack, EnterHolders DEF FunctionCall
<1>2. locked' = locked
  BY DEF FunctionCall, bufferVars
<1> QED BY <1>1, <1>2, KeptExcludes

LEMMA DlopenExcludes ==
    ASSUME Inv, LockExcludes, NEW t \in Threads, Dlopen(t)
    PROVE  LockExcludes'
<1>1. HoldersKept
  BY InvStack, EnterHolders DEF Dlopen
<1>2. locked' = locked
  BY DEF Dlopen, bufferVars
<1> QED BY <1>1, <1>2, KeptExcludes

LEMMA CreateContextExcludes ==
    ASSUME Inv, LockExcludes, NEW t \in Threads, CreateContext(t)
    PROVE  LockExcludes'
<1>1. HoldersKept
  BY InvStack, EnterHolders DEF CreateContext
<1>2. locked' = locked
  BY DEF CreateContext, bufferVars
<1> QED BY <1>1, <1>2, KeptExcludes

LEMMA ToggleTracingExcludes ==
    ASSUME Inv, LockExcludes, NEW t \in Threads, ToggleTracing(t)
    PROVE  LockExcludes'
<1>1. HoldersKept
  BY InvStack, EnterHolders DEF ToggleTracing
<1>2. locked' = locked
  BY DEF ToggleTracing, bufferVars
<1> QED BY <1>1, <1>2, KeptExcludes

LEMMA ExitExcludes ==
    ASSUME Inv, LockExcludes, NEW t \in Threads, Exit(t)
    PROVE  LockExcludes'
<1>1. HoldersKept
  BY InvStack, EnterHolders DEF Exit
<1>2. locked' = locked
  BY DEF Exit, bufferVars
<1> QED BY <1>1, <1>2, KeptExcludes

LEMMA CheckEnableExcludes ==
    ASSUME Inv, LockExcludes, NEW t \in Threads, CheckEnable(t)
    PROVE  LockExcludes'
<1>1. HoldersKept
  BY InvStack, GotoHolders, ReturnHolders DEF CheckEnable, Running, Places, HoldingPlaces
<1>2. locked' = locked
  BY DEF CheckEnable, bufferVars
<1> QED BY <1>1, <1>2, KeptExcludes

LEMMA UnlockExcludes ==
    ASSUME Inv, LockExcludes, NEW t \in Threads, Unlock(t)
    PROVE  LockExcludes'
<1>1. HoldersKept
  <2>1. stack[t] # <<>> /\ Holding(Top(t))
    BY InvStack, TopType DEF Unlock, Running, Holding, Current
  <2> QED BY <2>1, InvStack, GotoHolders, ReturnHolders DEF Unlock, Places
<1>2. locked' = locked
  BY DEF Unlock, bufferVars
<1> QED BY <1>1, <1>2, KeptExcludes

LEMMA CopyCellExcludes ==
    ASSUME Inv, LockExcludes, NEW t \in Threads, CopyCell(t)
    PROVE  LockExcludes'
<1>1. HoldersKept
  <2> DEFINE a == [Top(t) EXCEPT !.ptr = @ + 1]
  <2>1. stack[t] # <<>> /\ Holding(Top(t))
    BY InvStack, TopType DEF CopyCell, Running, Holding, Current
  <2>2. a \in Activation
    BY <2>1, InvStack, TopType DEF Activation
  <2>3. stack' = [stack EXCEPT ![t] = WithTop(stack[t], a)]
    BY DEF CopyCell
  <2> HIDE DEF a
  <2> QED BY <2>1, <2>2, <2>3, InvStack, ReplacedHolders
<1>2. locked' = locked
  BY DEF CopyCell, bufferVars
<1> QED BY <1>1, <1>2, KeptExcludes

LEMMA WriteSentExcludes ==
    ASSUME Inv, LockExcludes, NEW t \in Threads, WriteSent(t)
    PROVE  LockExcludes'
<1>1. HoldersKept
  <2>1. stack[t] # <<>> /\ (Current(t).op # "packet" \/ Holding(Top(t)))
    BY InvStack, TopType DEF WriteSent, AtWrite, Running, Holding, Current
  <2> QED BY <2>1, InvStack, GotoHolders DEF WriteSent, Places
<1>2. locked' = locked
  BY DEF WriteSent, bufferVars
<1> QED BY <1>1, <1>2, KeptExcludes

LEMMA WriteFailedExcludes ==
    ASSUME Inv, LockExcludes, NEW t \in Threads, WriteFailed(t)
    PROVE  LockExcludes'
<1>1. HoldersKept
  <2> DEFINE a == [Top(t) EXCEPT !.at = "fail"]
             s == WithTop(stack[t], a)
             c == Call(<<EnableTracing(0)>>, "call")
  <2>1. stack[t] # <<>> /\ (Current(t).op # "packet" \/ Holding(Top(t)))
    BY InvStack, TopType DEF WriteFailed, AtWrite, Running, Holding, Current
  <2>2. a \in Activation /\ a.todo = Top(t).todo /\ stack[t] \in Seq(Activation)
    BY <2>1, InvStack, TopType DEF Activation, Places, StackOK
  <2>3. Holding(a) => Holding(Top(t))
    BY <2>1, <2>2 DEF Holding, Current
  <2>4. ~Holding(c)
    BY DEF Holding, Call
  <2>5. stack' = [stack EXCEPT ![t] = Append(s, c)]
    BY DEF WriteFailed
  <2>6. s \in Seq(Activation)
    <3> HIDE DEF a
    <3> QED BY <2>1, <2>2, InvStack, WithTopType DEF StackOK, Busy
  <2>7. ASSUME NEW i \in DOMAIN s
        PROVE  /\ i \in DOMAIN stack[t]
               /\ i # Len(stack[t]) => s[i] = stack[t][i]
               /\ i = Len(stack[t]) => s[i] = a
    <3> HIDE DEF a
    <3> QED BY <2>1, <2>2, <2>7, WithTopAt
  <2> HIDE DEF s, c, a
  <2> SUFFICES ASSUME NEW u \in Threads, NEW i \in DOMAIN stack'[u],
                      Holding(stack'[u][i])
               PROVE  i \in DOMAIN stack[u] /\ Holding(stack[u][i])
    BY DEF HoldersKept
  <2>8. CASE u # t
    BY <2>5, <2>8, InvStack DEF StackOK
  <2>9. CASE u = t
    <3>1. stack'[u] = Append(s, c)
      BY <2>5, <2>9, InvStack DEF StackOK
    <3>2. i \in 1 .. Len(s) + 1
      BY <2>6, <3>1
    <3>3. i # Len(s) + 1
      BY <2>4, <2>6, <3>1
    <3>4. i \in DOMAIN s /\ stack'[u][i] = s[i]
      BY <2>6, <3>1, <3>2, <3>3
    <3> QED BY <2>3, <2>7, <2>9, <3>4 DEF Top
  <2> QED BY <2>8, <2>9
<1>2. locked' = locked
  BY DEF WriteFailed, bufferVars
<1> QED BY <1>1, <1>2, KeptExcludes

LEMMA DisableAfterErrorExcludes ==
    ASSUME Inv, LockExcludes, NEW t \in Threads, DisableAfterError(t)
    PROVE  LockExcludes'
<1>1. HoldersKept
  <2>1. stack[t] # <<>> /\ (Current(t).op # "packet" \/ Holding(Top(t)))
    BY InvStack, TopType DEF DisableAfterError, Flushing, Running, Holding, Current
  <2> QED BY <2>1, InvStack, GotoHolders DEF DisableAfterError, Places
<1>2. locked' = locked
  BY DEF DisableAfterError, bufferVars
<1> QED BY <1>1, <1>2, KeptExcludes

LEMMA RewindExcludes ==
    ASSUME Inv, LockExcludes, NEW t \in Threads, Rewind(t)
    PROVE  LockExcludes'
<1>1. HoldersKept
  <2>1. stack[t] # <<>> /\ (Current(t).op # "packet" \/ Holding(Top(t)))
    BY InvStack, TopType DEF Rewind, Flushing, Running, Holding, Current
  <2> QED BY <2>1, InvStack, GotoHolders, ReturnHolders DEF Rewind, Places
<1>2. locked' = locked
  BY DEF Rewind, bufferVars
<1> QED BY <1>1, <1>2, KeptExcludes

LEMMA OpenPipeExcludes ==
    ASSUME Inv, LockExcludes, NEW t \in Threads, OpenPipe(t)
    PROVE  LockExcludes'
<1>1. HoldersKept
  <2>1. PICK more \in Seq(Step) : stack[t] # <<>> /\ Continue(t, more)
    BY OpenPipeSteps
  <2> QED BY <2>1, InvStack, ContinueHolders
<1>2. locked' = locked
  BY DEF OpenPipe, bufferVars
<1> QED BY <1>1, <1>2, KeptExcludes

LEMMA ResetExcludes ==
    ASSUME Inv, LockExcludes, NEW t \in Threads, Reset(t)
    PROVE  LockExcludes'
<1>1. HoldersKept
  BY InvStack, ReturnHolders DEF Reset, Running
<1>2. locked' = locked
  BY DEF Reset, bufferVars
<1> QED BY <1>1, <1>2, KeptExcludes

LEMMA WriteRegistriesExcludes ==
    ASSUME Inv, LockExcludes, NEW t \in Threads, WriteRegistries(t)
    PROVE  LockExcludes'
<1>1. HoldersKept
  <2>1. PICK more \in Seq(Step) : stack[t] # <<>> /\ Continue(t, more)
    BY WriteRegistriesSteps
  <2> QED BY <2>1, InvStack, ContinueHolders
<1>2. locked' = locked
  BY DEF WriteRegistries, bufferVars
<1> QED BY <1>1, <1>2, KeptExcludes

LEMMA EnableModuleExcludes ==
    ASSUME Inv, LockExcludes, NEW t \in Threads, EnableModule(t)
    PROVE  LockExcludes'
<1>1. HoldersKept
  <2>1. PICK more \in Seq(Step) : stack[t] # <<>> /\ Continue(t, more)
    BY EnableModuleSteps
  <2> QED BY <2>1, InvStack, ContinueHolders
<1>2. locked' = locked
  BY DEF EnableModule, bufferVars
<1> QED BY <1>1, <1>2, KeptExcludes

LEMMA RegisterModuleExcludes ==
    ASSUME Inv, LockExcludes, NEW t \in Threads, RegisterModule(t)
    PROVE  LockExcludes'
<1>1. HoldersKept
  <2>1. PICK more \in Seq(Step) : stack[t] # <<>> /\ Continue(t, more)
    BY RegisterModuleSteps
  <2> QED BY <2>1, InvStack, ContinueHolders
<1>2. locked' = locked
  BY DEF RegisterModule, bufferVars
<1> QED BY <1>1, <1>2, KeptExcludes

LEMMA RegisterResourceExcludes ==
    ASSUME Inv, LockExcludes, NEW t \in Threads, RegisterResource(t)
    PROVE  LockExcludes'
<1>1. HoldersKept
  <2>1. PICK more \in Seq(Step) : stack[t] # <<>> /\ Continue(t, more)
    BY RegisterResourceSteps
  <2> QED BY <2>1, InvStack, ContinueHolders
<1>2. locked' = locked
  BY DEF RegisterResource, bufferVars
<1> QED BY <1>1, <1>2, KeptExcludes

LEMMA HeapInfoExcludes ==
    ASSUME Inv, LockExcludes, NEW t \in Threads, HeapInfo(t)
    PROVE  LockExcludes'
<1>1. HoldersKept
  <2>1. PICK more \in Seq(Step) : stack[t] # <<>> /\ Continue(t, more)
    BY HeapInfoSteps
  <2> QED BY <2>1, InvStack, ContinueHolders
<1>2. locked' = locked
  BY DEF HeapInfo, bufferVars
<1> QED BY <1>1, <1>2, KeptExcludes

LEMMA StoreHeapInfoExcludes ==
    ASSUME Inv, LockExcludes, NEW t \in Threads, StoreHeapInfo(t)
    PROVE  LockExcludes'
<1>1. HoldersKept
  BY InvStack, ReturnHolders DEF StoreHeapInfo, Running
<1>2. locked' = locked
  BY DEF StoreHeapInfo, bufferVars
<1> QED BY <1>1, <1>2, KeptExcludes

LEMMA ClosePipeExcludes ==
    ASSUME Inv, LockExcludes, NEW t \in Threads, ClosePipe(t)
    PROVE  LockExcludes'
<1>1. HoldersKept
  BY InvStack, ReturnHolders DEF ClosePipe, Running
<1>2. locked' = locked
  BY DEF ClosePipe, bufferVars
<1> QED BY <1>1, <1>2, KeptExcludes

LEMMA ClearPipeExcludes ==
    ASSUME Inv, LockExcludes, NEW t \in Threads, ClearPipe(t)
    PROVE  LockExcludes'
<1>1. HoldersKept
  BY InvStack, ReturnHolders DEF ClearPipe, Running
<1>2. locked' = locked
  BY DEF ClearPipe, bufferVars
<1> QED BY <1>1, <1>2, KeptExcludes

LEMMA ReadyExcludes ==
    ASSUME Inv, LockExcludes, NEW t \in Threads, Ready(t)
    PROVE  LockExcludes'
<1>1. HoldersKept
  BY InvStack, ReturnHolders DEF Ready, Running
<1>2. locked' = locked
  BY DEF Ready, bufferVars
<1> QED BY <1>1, <1>2, KeptExcludes

(* The buffer was unlocked, so nobody held it: t is the only holder.       *)
LEMMA LockExcludesStep ==
    ASSUME Inv, LockExcludes, NEW t \in Threads, Lock(t)
    PROVE  LockExcludes'
<1> DEFINE a == [Top(t) EXCEPT !.at = "unlock", !.ptr = head]
<1>1. stack[t] # <<>> /\ head \in Nat /\ locked = 0 /\ locked' = 1
  BY DEF Lock, Running, Inv, TypeOK, BufferTypes
<1>2. a \in Activation /\ stack[t] \in Seq(Activation)
  BY <1>1, InvStack, TopType DEF Activation, Places, StackOK
<1>3. stack' = [stack EXCEPT ![t] = WithTop(stack[t], a)]
  BY DEF Lock, LockAndFill
<1>4. \A u \in Threads : \A i \in DOMAIN stack[u] : ~Holding(stack[u][i])
  BY <1>1 DEF LockExcludes
<1> HIDE DEF a
<1>5. ASSUME NEW u \in Threads, NEW i \in DOMAIN stack'[u],
             Holding(stack'[u][i])
      PROVE  u = t /\ i = Len(stack[t])
  <2>1. u = t
    BY <1>3, <1>4, <1>5, InvStack DEF StackOK
  <2>2. i \in DOMAIN WithTop(stack[t], a) /\ stack'[u][i] = WithTop(stack[t], a)[i]
    BY <1>3, <1>5, <2>1, InvStack DEF StackOK
  <2> QED BY <1>1, <1>2, <1>4, <1>5, <2>1, <2>2, WithTopAt
<1> QED BY <1>1, <1>5 DEF LockExcludes, Holding

(* The activation that unlocks was the only holder, and is none after it.  *)
LEMMA ReleaseExcludes ==
    ASSUME Inv, LockExcludes, NEW t \in Threads, Release(t)
    PROVE  LockExcludes'
<1> DEFINE n == Len(stack[t])
           a == [todo |-> <<>> \o Tail(Top(t).todo), at |-> "start",
                 ptr |-> Top(t).ptr, why |-> Top(t).why]
<1>1. stack[t] # <<>> /\ Holding(Top(t))
  BY InvStack, TopType DEF Release, Running, Holding, Current
<1>2. n \in DOMAIN stack[t] /\ Holding(stack[t][n]) /\ stack[t] \in Seq(Activation)
  BY <1>1, InvStack, TopType DEF Top, StackOK
<1>3. \A u \in Threads : \A i \in DOMAIN stack[u] :
         Holding(stack[u][i]) => u = t /\ i = n
  BY <1>2 DEF LockExcludes
<1>4. a \in Activation /\ ~Holding(a)
  <2>1. <<>> \o Tail(Top(t).todo) \in Seq(Step)
    BY <1>1, InvStack, TopType
  <2>2. a \in Activation /\ a.at = "start"
    BY <1>1, <2>1, InvStack, TopType DEF Activation, Places
  <2> HIDE DEF a
  <2> QED BY <2>2 DEF Holding
<1>5. stack' = [stack EXCEPT ![t] = WithTop(stack[t], a)]
  BY DEF Release, Return, Continue
<1> HIDE DEF a
<1>6. ASSUME NEW u \in Threads, NEW i \in DOMAIN stack'[u],
             Holding(stack'[u][i])
      PROVE  FALSE
  <2>1. CASE u # t
    BY <1>3, <1>5, <1>6, <2>1, InvStack DEF StackOK
  <2>2. CASE u = t
    <3>1. i \in DOMAIN WithTop(stack[t], a) /\ stack'[u][i] = WithTop(stack[t], a)[i]
      BY <1>5, <1>6, <2>2, InvStack DEF StackOK
    <3> QED BY <1>1, <1>2, <1>3, <1>4, <1>6, <2>2, <3>1, WithTopAt
  <2> QED BY <2>1, <2>2
<1> QED BY <1>6 DEF LockExcludes, Holding

LEMMA NextExcludes ==
    ASSUME Inv, LockExcludes, [Next]_vars
    PROVE  LockExcludes'
<1>1. CASE UNCHANGED vars
  BY <1>1 DEF vars, LockExcludes, Holding
<1>2. ASSUME NEW t \in Threads, EntryPoint(t)
      PROVE  LockExcludes'
  <2>1. CASE Initialize(t)
    BY <2>1, InitializeExcludes
  <2>2. CASE Dlopen(t)
    BY <2>2, DlopenExcludes
  <2>3. CASE CreateContext(t)
    BY <2>3, CreateContextExcludes
  <2>4. CASE ToggleTracing(t)
    BY <2>4, ToggleTracingExcludes
  <2>5. CASE Exit(t)
    BY <2>5, ExitExcludes
  <2>6. ASSUME NEW m \in TracingModules, InitializeModule(t, m)
        PROVE  LockExcludes'
    BY <2>6, InitializeModuleExcludes
  <2>7. ASSUME NEW m \in TracingModules, NEW i \in DOMAIN Registers[m],
               FunctionCall(t, m, Registers[m][i])
        PROVE  LockExcludes'
    BY <2>7, FunctionCallExcludes
  <2> QED BY <1>2, <2>1, <2>2, <2>3, <2>4, <2>5, <2>6, <2>7 DEF EntryPoint
<1>3. ASSUME NEW t \in Threads, Progress(t)
      PROVE  LockExcludes'
  <2>1. CASE CheckEnable(t)
    BY <2>1, CheckEnableExcludes
  <2>2. CASE Lock(t)
    BY <2>2, LockExcludesStep
  <2>3. CASE Unlock(t)
    BY <2>3, UnlockExcludes
  <2>4. CASE CopyCell(t)
    BY <2>4, CopyCellExcludes
  <2>5. CASE Release(t)
    BY <2>5, ReleaseExcludes
  <2>6. CASE WriteSent(t)
    BY <2>6, WriteSentExcludes
  <2>7. CASE WriteFailed(t)
    BY <2>7, WriteFailedExcludes
  <2>8. CASE DisableAfterError(t)
    BY <2>8, DisableAfterErrorExcludes
  <2>9. CASE Rewind(t)
    BY <2>9, RewindExcludes
  <2>10. CASE OpenPipe(t)
    BY <2>10, OpenPipeExcludes
  <2>11. CASE Reset(t)
    BY <2>11, ResetExcludes
  <2>12. CASE WriteRegistries(t)
    BY <2>12, WriteRegistriesExcludes
  <2>13. CASE EnableModule(t)
    BY <2>13, EnableModuleExcludes
  <2>14. CASE RegisterModule(t)
    BY <2>14, RegisterModuleExcludes
  <2>15. CASE RegisterResource(t)
    BY <2>15, RegisterResourceExcludes
  <2>16. CASE HeapInfo(t)
    BY <2>16, HeapInfoExcludes
  <2>17. CASE StoreHeapInfo(t)
    BY <2>17, StoreHeapInfoExcludes
  <2>18. CASE ClosePipe(t)
    BY <2>18, ClosePipeExcludes
  <2>19. CASE ClearPipe(t)
    BY <2>19, ClearPipeExcludes
  <2>20. CASE Ready(t)
    BY <2>20, ReadyExcludes
  <2> QED BY <1>3, <2>1, <2>2, <2>3, <2>4, <2>5, <2>6, <2>7, <2>8, <2>9,
            <2>10, <2>11, <2>12, <2>13, <2>14, <2>15, <2>16, <2>17, <2>18,
            <2>19, <2>20 DEF Progress
<1> QED BY <1>1, <1>2, <1>3 DEF Next

(* For any number of threads, with the toggle handler and nested failing   *)
(* flushes anywhere: at most one activation is between pipe_buffer_lock    *)
(* and the end of pipe_buffer_unlock, and the buffer is locked then.       *)
THEOREM LockExclusion == Spec => []LockExcludes
<1>1. Init => LockExcludes
  BY DEF Init, LockExcludes
<1> QED BY <1>1, InitInv, NextInv, NextExcludes, PTL DEF Spec

(***************************************************************************)
(* The streams, when toggle signals, initialization and exit come while no *)
(* call is in progress and write() to an open pipe does not fail.          *)
(*                                                                         *)
(* A thread has then at most two activations: what it does, and above it   *)
(* the enable_tracing(false) of a flush that failed because open_pipe      *)
(* returned -1.  What the first has still to do is described by the set of *)
(* its steps; that they come in the order of their ranks tells which steps *)
(* are over when the first of them is reached.                             *)
(***************************************************************************)

Elements(s) == {s[j] : j \in DOMAIN s}

Bottom(t) == stack[t][1]
First(t) == Head(stack[t][1].todo)
Later(t) == Elements(Tail(stack[t][1].todo))
Steps(t) == IF Idle(t) THEN {} ELSE Elements(stack[t][1].todo)
At(t) == IF Idle(t) THEN "start" ELSE stack[t][1].at
Why(t) == IF Idle(t) THEN "call" ELSE stack[t][1].why
Inner(t) == IF Len(stack[t]) < 2 THEN {} ELSE Elements(stack[t][2].todo)
Op(t, op) == \E s \in Steps(t) : s.op = op
Others(t) == \A u \in Threads : u # t => stack'[u] = stack[u]

Enables(s) == s.op = "enable" /\ s.id = 1
Disables(s) == s.op = "enable" /\ s.id = 0
Opens(s) == s.op \in {"open", "openinit", "nopipe"}

PacketRank(s) ==
    CASE s.kind = "NL" -> IF s.id = 0 THEN 15 ELSE 0
      [] s.kind = "HI" -> 1
      [] s.kind = "AT" -> 3
      [] s.kind = "HS" -> 7
      [] s.kind = "OS" -> 8
      [] s.kind = "PI" -> 9
      [] s.kind = "MI" -> IF s.id = 0 THEN 10 ELSE 11
      [] s.kind = "RR" -> 13
      [] OTHER -> 0
Rank(s) ==
    CASE s.op = "packet" -> PacketRank(s)
      [] s.op = "heapinfo" -> 2
      [] s.op = "enable" -> IF s.id = 0 THEN 4 ELSE 17
      [] s.op = "nopipe" -> 5
      [] s.op = "reset" -> 6
      [] s.op = "modules" -> 12
      [] s.op = "resources" -> 14
      [] s.op = "flush" -> 16
      [] s.op = "open" -> 17
      [] s.op = "openinit" -> 17
      [] s.op = "ready" -> 18
      [] s.op = "register" -> 19
      [] s.op = "resource" -> 20
      [] s.op = "close" -> 21
      [] s.op = "clear" -> 22
      [] OTHER -> 23
Before(r, s) ==
    \/ Rank(r) < Rank(s)
    \/ r.op = "resource" /\ s.op = "resource"
    \/ Rank(r) = 3 /\ Rank(s) = 3 /\ r # s
Ordered(todo) ==
    \A i, j \in DOMAIN todo : i < j => Before(todo[i], todo[j])

(* The steps of a call of the program, and those of initialization, of the *)
(* signal handler and of the exit handler.                                 *)
CallStep(s) ==
    \/ s.op = "store"
    \/ /\ s.op = "packet"
       /\ s.kind \in {"FC", "NL", "CR"}
       /\ s.n \in 1 .. calls
       /\ s.kind = "NL" => s.id = 2
SoloStep(s) ==
    /\ s.op # "store"
    /\ s.op = "packet" => /\ s.n = 0
                          /\ s.kind \notin {"FC", "CR"}
                          /\ s.kind = "NL" => s.id \in {0, 1}
    /\ s.op = "enable" => s.id \in {0, 1} /\ s.n >= 1
    /\ s.op \in {"modules", "resources"} => s.n >= 1
    /\ s.op = "register" => s.id \in TracingModules
InnerStep(s) ==
    \/ Disables(s) /\ s.n >= 1
    \/ s.op = "packet" /\ s.kind = "AT"

(* What thread t is doing.                                                 *)
OuterFits(t) ==
    ~Idle(t) =>
        /\ Ordered(Bottom(t).todo)
        /\ Why(t) = "call" => \A s \in Steps(t) : CallStep(s)
        /\ Why(t) # "call" => \A s \in Steps(t) : SoloStep(s)
        /\ First(t).op \notin {"packet", "flush"} => At(t) = "start"
        /\ First(t).op = "flush" => At(t) \in {"start", "fail", "rewind"}
InnerFits(t) ==
    Len(stack[t]) = 2 =>
        /\ At(t) = "fail"
        /\ stack[t][2].why = "call"
        /\ \/ stack[t][2].at = "start"
           \/ stack[t][2].at = "lock" /\ Head(stack[t][2].todo).op = "packet"
        /\ \A s \in Inner(t) :
              InnerStep(s) /\ (s.op = "packet" => First(t).op = "packet")
Fits(t) == Len(stack[t]) <= 2 /\ OuterFits(t) /\ InnerFits(t)

Solo(t) == Why(t) # "call"
Apart == \A t, u \in Threads : Solo(t) /\ ~Idle(u) => u = t
Shape == Apart /\ \A t \in Threads : Fits(t)

AllOn == \A i \in 1 .. modules : moduleOn[moduleAt[i]]
AllOff == \A i \in 1 .. modules : ~moduleOn[moduleAt[i]]
(* enable_tracing has been through the modules below number s.n.           *)
Switched(s) ==
    \A i \in 1 .. modules : i < s.n => (moduleOn[moduleAt[i]] <=> s.id = 1)

(* How the pipe, the option and the modules agree with one another and     *)
(* with what a thread has still to do.                                     *)
Standing ==
    /\ \A i \in 1 .. modules : moduleAt[i] \in TracingModules
    /\ 0 \notin closed
    /\ initLock = 0 => /\ \A t \in Threads : Idle(t)
                       /\ modules = 0 /\ resources = 0 /\ fd_proc = 0 /\ ~enable
    /\ initLock = 1 => \E t \in Threads : Op(t, "ready")
    /\ exited => initLock = 2
    /\ fd_proc = 0 => AllOff
    /\ fd_proc = 0 /\ enable => \E t \in Threads : \E s \in Steps(t) : Opens(s)
    /\ fd_proc > 0 =>
          \/ exited
          \/ \E t \in Threads : Op(t, "clear")
          \/ /\ enable
             /\ fd_proc \notin closed
             /\ AllOn \/ \E t \in Threads : \E s \in Steps(t) : Enables(s)
Doing(t) ==
    /\ exited /\ ~Idle(t) => Why(t) = "exit"
    /\ Why(t) = "exit" => exited
    /\ Solo(t) /\ initLock # 2 => Why(t) = "init"
    /\ Op(t, "ready") =>
          initLock = 1 /\ modules = 0 /\ resources = 0 /\ Why(t) = "init"
    /\ Op(t, "openinit") => Op(t, "ready")
    /\ Op(t, "open") \/ Op(t, "clear") => Why(t) = "signal"
    /\ Op(t, "open") \/ Op(t, "openinit") =>
          enable /\ First(t).op \in {"open", "openinit"}
    /\ Why(t) = "exit" => Op(t, "close")
    /\ Op(t, "close") => /\ fd_proc > 0 /\ fd_proc \notin closed
                         /\ Why(t) = "exit" \/ Op(t, "clear")
    /\ Op(t, "clear") => /\ Op(t, "close") \/ First(t).op = "clear"
                         /\ fd_proc > 0 /\ ~enable
                         /\ AllOff \/ \E s \in Steps(t) : Disables(s)
    /\ Op(t, "flush") => Op(t, "close") \/ \E s \in Steps(t) : Enables(s)
    /\ \A s \in Steps(t) :
          /\ Opens(s) => fd_proc <= 0
          /\ Disables(s) => Switched(s) /\ (Op(t, "nopipe") \/ Op(t, "close"))
          /\ Enables(s) => /\ Switched(s)
                           /\ ~Op(t, "clear") /\ ~Op(t, "close") /\ ~exited
                           /\ Op(t, "ready") \/ (fd_proc > 0 /\ enable)
    /\ At(t) = "fail" =>
          fd_proc = -1 /\ (AllOff \/ \E s \in Inner(t) : Disables(s))
    /\ \A s \in Inner(t) : Disables(s) => Switched(s)
Control == Standing /\ \A t \in Threads : Doing(t)

Calm == Inv /\ LockExcludes /\ Shape /\ Control
(* What the ranks of the steps are.                                        *)
LEMMA Ranks ==
    ASSUME NEW s \in Step
    PROVE  /\ s.op \in {"heapinfo"} => Rank(s) = 2
           /\ s.op = "enable" => Rank(s) = IF s.id = 0 THEN 4 ELSE 17
           /\ s.op = "nopipe" => Rank(s) = 5
           /\ s.op = "reset" => Rank(s) = 6
           /\ s.op = "modules" => Rank(s) = 12
           /\ s.op = "resources" => Rank(s) = 14
           /\ s.op = "flush" => Rank(s) = 16
           /\ s.op \in {"open", "openinit"} => Rank(s) = 17
           /\ s.op = "ready" => Rank(s) = 18
           /\ s.op = "register" => Rank(s) = 19
           /\ s.op = "resource" => Rank(s) = 20
           /\ s.op = "close" => Rank(s) = 21
           /\ s.op = "clear" => Rank(s) = 22
           /\ s.op = "store" => Rank(s) = 23
           /\ s.op = "packet" => Rank(s) = PacketRank(s)
           /\ PacketRank(s) \in 0 .. 15
           /\ s.kind = "NL" => PacketRank(s) = IF s.id = 0 THEN 15 ELSE 0
           /\ s.kind = "HI" => PacketRank(s) = 1
           /\ s.kind = "AT" <=> PacketRank(s) = 3
           /\ s.kind = "HS" => PacketRank(s) = 7
           /\ s.kind = "OS" => PacketRank(s) = 8
           /\ s.kind = "PI" => PacketRank(s) = 9
           /\ s.kind = "MI" => PacketRank(s) = IF s.id = 0 THEN 10 ELSE 11
           /\ s.kind = "RR" => PacketRank(s) = 13
           /\ s.kind \in {"FC", "CR"} => PacketRank(s) = 0
           /\ Rank(s) \in Int
<1>1. s.op \in Ops /\ s.kind \in Kinds /\ s.id \in Nat
  BY DEF Step
<1>2. /\ PacketRank(s) \in 0 .. 15
      /\ s.kind = "NL" => PacketRank(s) = IF s.id = 0 THEN 15 ELSE 0
      /\ s.kind = "HI" => PacketRank(s) = 1
      /\ s.kind = "AT" <=> PacketRank(s) = 3
      /\ s.kind = "HS" => PacketRank(s) = 7
      /\ s.kind = "OS" => PacketRank(s) = 8
      /\ s.kind = "PI" => PacketRank(s) = 9
      /\ s.kind = "MI" => PacketRank(s) = IF s.id = 0 THEN 10 ELSE 11
      /\ s.kind = "RR" => PacketRank(s) = 13
      /\ s.kind \in {"FC", "CR"} => PacketRank(s) = 0
  BY <1>1 DEF Kinds, PacketRank
<1>3. /\ s.op \in {"heapinfo"} => Rank(s) = 2
      /\ s.op = "enable" => Rank(s) = IF s.id = 0 THEN 4 ELSE 17
      /\ s.op = "nopipe" => Rank(s) = 5
      /\ s.op = "reset" => Rank(s) = 6
      /\ s.op = "modules" => Rank(s) = 12
      /\ s.op = "resources" => Rank(s) = 14
      /\ s.op = "flush" => Rank(s) = 16
      /\ s.op \in {"open", "openinit"} => Rank(s) = 17
      /\ s.op = "ready" => Rank(s) = 18
      /\ s.op = "register" => Rank(s) = 19
      /\ s.op = "resource" => Rank(s) = 20
      /\ s.op = "close" => Rank(s) = 21
      /\ s.op = "clear" => Rank(s) = 22
      /\ s.op = "store" => Rank(s) = 23
      /\ s.op = "packet" => Rank(s) = PacketRank(s)
  BY DEF Rank
<1>4. Rank(s) \in Int
  BY <1>1, <1>2, <1>3 DEF Ops
<1> QED
  BY <1>2, <1>3, <1>4

LEMMA HeadAndTail ==
    ASSUME NEW S, NEW s \in Seq(S), s # <<>>
    PROVE  /\ Head(s) \in S /\ Tail(s) \in Seq(S)
           /\ Head(s) = s[1] /\ 1 \in DOMAIN s
           /\ Elements(s) = {Head(s)} \cup Elements(Tail(s))
<1>1. /\ Tail(s) \in Seq(S) /\ Len(Tail(s)) = Len(s) - 1
      /\ \A i \in 1 .. Len(s) - 1 : Tail(s)[i] = s[i + 1]
      /\ Head(s) = s[1] /\ s[1] \in S /\ Len(s) \in Nat \ {0}
  OBVIOUS
<1>2. Elements(s) \subseteq {Head(s)} \cup Elements(Tail(s))
  <2> SUFFICES ASSUME NEW i \in DOMAIN s, i # 1
               PROVE  s[i] \in Elements(Tail(s))
    BY <1>1 DEF Elements
  <2>1. i - 1 \in 1 .. Len(s) - 1 /\ i = (i - 1) + 1
    BY <1>1
  <2>2. i - 1 \in DOMAIN Tail(s) /\ Tail(s)[i - 1] = s[i]
    BY <1>1, <2>1
  <2> QED
    BY <2>2 DEF Elements
<1>3. {Head(s)} \cup Elements(Tail(s)) \subseteq Elements(s)
  <2> SUFFICES ASSUME NEW i \in DOMAIN Tail(s)
               PROVE  Tail(s)[i] \in Elements(s)
    BY <1>1 DEF Elements
  <2>1. i \in 1 .. Len(s) - 1 /\ i + 1 \in DOMAIN s
    BY <1>1
  <2> QED
    BY <1>1, <2>1 DEF Elements
<1> QED
  BY <1>1, <1>2, <1>3

LEMMA JoinedElements ==
    ASSUME NEW S, NEW a \in Seq(S), NEW b \in Seq(S)
    PROVE  /\ a \o b \in Seq(S)
           /\ Elements(a \o b) = Elements(a) \cup Elements(b)
           /\ Elements(a) \subseteq S
           /\ a = <<>> <=> Elements(a) = {}
<1>1. /\ a \o b \in Seq(S) /\ Len(a \o b) = Len(a) + Len(b)
      /\ \A i \in 1 .. Len(a) : (a \o b)[i] = a[i]
      /\ \A i \in Len(a) + 1 .. Len(a) + Len(b) : (a \o b)[i] = b[i - Len(a)]
      /\ Len(a) \in Nat /\ Len(b) \in Nat
      /\ DOMAIN a = 1 .. Len(a) /\ DOMAIN b = 1 .. Len(b)
      /\ DOMAIN (a \o b) = 1 .. Len(a) + Len(b)
  OBVIOUS
<1>2. ASSUME NEW i \in DOMAIN (a \o b) PROVE (a \o b)[i] \in Elements(a) \cup Elements(b)
  <2>1. CASE i <= Len(a)
    BY <1>1, <2>1 DEF Elements
  <2>2. CASE i > Len(a)
    <3>1. i - Len(a) \in DOMAIN b /\ (a \o b)[i] = b[i - Len(a)]
      BY <1>1, <2>2
    <3> QED
      BY <3>1 DEF Elements
  <2> QED
    BY <1>1, <2>1, <2>2
<1>3. ASSUME NEW i \in DOMAIN a PROVE a[i] \in Elements(a \o b)
  BY <1>1 DEF Elements
<1>4. ASSUME NEW i \in DOMAIN b PROVE b[i] \in Elements(a \o b)
  <2>1. Len(a) + i \in DOMAIN (a \o b) /\ (a \o b)[Len(a) + i] = b[i]
    BY <1>1
  <2> QED
    BY <2>1 DEF Elements
<1>5. Elements(a \o b) = Elements(a) \cup Elements(b)
  BY <1>2, <1>3, <1>4 DEF Elements
<1>6. Elements(a) \subseteq S
  BY <1>1 DEF Elements
<1>7. ASSUME a # <<>> PROVE Elements(a) # {}
  <2>1. Elements(a) = {Head(a)} \cup Elements(Tail(a))
    BY <1>7, HeadAndTail
  <2> QED
    BY <2>1
<1>8. a = <<>> => Elements(a) = {}
  BY DEF Elements
<1> QED
  BY <1>1, <1>5, <1>6, <1>7, <1>8

LEMMA OrderedTail ==
    ASSUME NEW s \in Seq(Step), s # <<>>, Ordered(s)
    PROVE  /\ Ordered(Tail(s))
           /\ \A r \in Elements(Tail(s)) : Before(Head(s), r)
<1>1. /\ Tail(s) \in Seq(Step) /\ Len(Tail(s)) = Len(s) - 1
      /\ \A i \in 1 .. Len(s) - 1 : Tail(s)[i] = s[i + 1]
      /\ Head(s) = s[1] /\ Len(s) \in Nat \ {0}
      /\ DOMAIN s = 1 .. Len(s) /\ DOMAIN Tail(s) = 1 .. Len(s) - 1
  OBVIOUS
<1>2. ASSUME NEW i \in DOMAIN Tail(s) PROVE Before(Head(s), Tail(s)[i])
  <2>1. 1 \in DOMAIN s /\ i + 1 \in DOMAIN s /\ 1 < i + 1
    BY <1>1
  <2>2. Before(s[1], s[i + 1])
    BY <2>1 DEF Ordered
  <2> QED
    BY <1>1, <2>2
<1>3. ASSUME NEW i \in DOMAIN Tail(s), NEW j \in DOMAIN Tail(s), i < j
      PROVE  Before(Tail(s)[i], Tail(s)[j])
  <2>1. i + 1 \in DOMAIN s /\ j + 1 \in DOMAIN s /\ i + 1 < j + 1
    BY <1>1, <1>3
  <2>2. Before(s[i + 1], s[j + 1])
    BY <2>1 DEF Ordered
  <2> QED
    BY <1>1, <2>2
<1> QED
  BY <1>2, <1>3 DEF Ordered, Elements

LEMMA OrderedJoin ==
    ASSUME NEW a \in Seq(Step), NEW b \in Seq(Step), Ordered(a), Ordered(b),
           \A r \in Elements(a), s \in Elements(b) : Before(r, s)
    PROVE  Ordered(a \o b)
<1>1. /\ Len(a \o b) = Len(a) + Len(b)
      /\ \A i \in 1 .. Len(a) : (a \o b)[i] = a[i]
      /\ \A i \in Len(a) + 1 .. Len(a) + Len(b) : (a \o b)[i] = b[i - Len(a)]
      /\ Len(a) \in Nat /\ Len(b) \in Nat
      /\ DOMAIN a = 1 .. Len(a) /\ DOMAIN b = 1 .. Len(b)
      /\ DOMAIN (a \o b) = 1 .. Len(a) + Len(b)
  OBVIOUS
<1> SUFFICES ASSUME NEW i \in DOMAIN (a \o b), NEW j \in DOMAIN (a \o b), i < j
             PROVE  Before((a \o b)[i], (a \o b)[j])
  BY DEF Ordered
<1>2. CASE j <= Len(a)
  <2>1. i \in DOMAIN a /\ j \in DOMAIN a /\ (a \o b)[i] = a[i] /\ (a \o b)[j] = a[j]
    BY <1>1, <1>2
  <2> QED
    BY <2>1 DEF Ordered
<1>3. CASE i <= Len(a) /\ j > Len(a)
  <2>1. i \in DOMAIN a /\ j - Len(a) \in DOMAIN b
    BY <1>1, <1>3
  <2>2. (a \o b)[i] = a[i] /\ (a \o b)[j] = b[j - Len(a)]
    BY <1>1, <1>3
  <2> QED
    BY <2>1, <2>2 DEF Elements
<1>4. CASE i > Len(a)
  <2>1. i - Len(a) \in DOMAIN b /\ j - Len(a) \in DOMAIN b /\ i - Len(a) < j - Len(a)
    BY <1>1, <1>4
  <2>2. (a \o b)[i] = b[i - Len(a)] /\ (a \o b)[j] = b[j - Len(a)]
    BY <1>1, <1>4
  <2> QED
    BY <2>1, <2>2 DEF Ordered
<1> QED
  BY <1>1, <1>2, <1>3, <1>4

LEMMA IdleViews ==
    ASSUME NEW t \in Threads, Idle(t)
    PROVE  Steps(t) = {} /\ At(t) = "start" /\ Why(t) = "call" /\ Inner(t) = {}
<1>1. Len(stack[t]) = 0
  BY DEF Idle
<1> QED
  BY <1>1 DEF Steps, At, Why, Inner

LEMMA Views ==
    ASSUME StackOK, NEW t \in Threads, ~Idle(t)
    PROVE  /\ Bottom(t) \in Activation
           /\ Bottom(t).todo \in Seq(Step) /\ Bottom(t).todo # <<>>
           /\ First(t) \in Step /\ First(t) \in Steps(t)
           /\ Steps(t) = {First(t)} \cup Later(t)
           /\ Steps(t) \subseteq Step /\ Later(t) \subseteq Step
           /\ At(t) = Bottom(t).at /\ At(t) \in Places
           /\ Why(t) = Bottom(t).why /\ Why(t) \in Reasons
           /\ Len(stack[t]) \in Nat \ {0}
           /\ Len(stack[t]) = 1 =>
                 Top(t) = Bottom(t) /\ Current(t) = First(t) /\ Inner(t) = {}
<1>1. stack[t] \in Seq(Activation) /\ stack[t] # <<>>
  BY DEF StackOK, Idle
<1>2. 1 \in DOMAIN stack[t] /\ Len(stack[t]) \in Nat \ {0}
  BY <1>1
<1>3. Bottom(t) \in Activation /\ Bottom(t).todo # <<>>
  BY <1>1, <1>2 DEF Bottom, StackOK, Busy
<1>4. Bottom(t).todo \in Seq(Step) /\ Bottom(t).at \in Places /\ Bottom(t).why \in Reasons
  BY <1>3 DEF Activation
<1>5. /\ Head(Bottom(t).todo) \in Step /\ Tail(Bottom(t).todo) \in Seq(Step)
      /\ Elements(Bottom(t).todo) = {Head(Bottom(t).todo)} \cup Elements(Tail(Bottom(t).todo))
  BY <1>3, <1>4, HeadAndTail
<1>6. Elements(Tail(Bottom(t).todo)) \subseteq Step
  BY <1>5, JoinedElements
<1>7. Steps(t) = {First(t)} \cup Later(t) /\ First(t) \in Step /\ Later(t) \subseteq Step
  BY <1>1, <1>5, <1>6 DEF Steps, First, Later, Bottom, Idle
<1>8. Len(stack[t]) = 1 =>
         Top(t) = Bottom(t) /\ Current(t) = First(t) /\ Inner(t) = {}
  BY DEF Top, Bottom, Current, First, Inner
<1> QED
  BY <1>2, <1>3, <1>4, <1>7, <1>8 DEF At, Why, Bottom

LEMMA FirstIsBefore ==
    ASSUME StackOK, NEW t \in Threads, ~Idle(t), Ordered(Bottom(t).todo)
    PROVE  \A s \in Later(t) : Before(First(t), s)
<1>1. Bottom(t).todo \in Seq(Step) /\ Bottom(t).todo # <<>>
  BY Views
<1> QED
  BY <1>1, OrderedTail DEF First, Later, Bottom

(* Thread t's only activation goes on with the same steps.                 *)
SameSteps(t) ==
    /\ Others(t)
    /\ Len(stack'[t]) = 1 /\ ~Idle(t)'
    /\ Bottom(t)'.todo = Bottom(t).todo
    /\ Steps(t)' = Steps(t)
    /\ First(t)' = First(t)
    /\ Later(t)' = Later(t)
    /\ Why(t)' = Why(t)
    /\ Inner(t)' = {}

LEMMA ReplacedView ==
    ASSUME StackOK, NEW t \in Threads, ~Idle(t), Len(stack[t]) = 1,
           NEW a \in Activation, a.todo = Bottom(t).todo, a.why = Bottom(t).why,
           stack' = [stack EXCEPT ![t] = WithTop(stack[t], a)]
    PROVE  /\ SameSteps(t)
           /\ Bottom(t)' = a /\ At(t)' = a.at
<1>1. Bottom(t).todo # <<>> /\ Why(t) = Bottom(t).why
  BY Views
<1>2. stack[t] \in Seq(Activation) /\ t \in DOMAIN stack
  BY DEF StackOK
<1>3. WithTop(stack[t], a) = [stack[t] EXCEPT ![1] = a]
  BY <1>1 DEF WithTop
<1>4. stack'[t] = [stack[t] EXCEPT ![1] = a] /\ Others(t)
  BY <1>2, <1>3 DEF Others, StackOK
<1>5. Len(stack'[t]) = 1 /\ stack'[t][1] = a /\ stack'[t] # <<>>
  BY <1>2, <1>4
<1> QED
  BY <1>1, <1>4, <1>5
  DEF SameSteps, Idle, Bottom, Steps, First, Later, Why, At, Inner

LEMMA GotoView ==
    ASSUME StackOK, NEW t \in Threads, ~Idle(t), Len(stack[t]) = 1,
           NEW place \in Places, Goto(t, place)
    PROVE  /\ SameSteps(t)
           /\ At(t)' = place
           /\ Bottom(t)' = [Bottom(t) EXCEPT !.at = place]
<1> DEFINE a == [Bottom(t) EXCEPT !.at = place]
<1>1. Bottom(t) \in Activation /\ Top(t) = Bottom(t)
  BY Views
<1>2. a \in Activation /\ a.at = place /\ a.todo = Bottom(t).todo /\ a.why = Bottom(t).why
  BY <1>1 DEF Activation
<1>3. stack' = [stack EXCEPT ![t] = WithTop(stack[t], a)]
  BY <1>1 DEF Goto
<1> HIDE DEF a
<1>4. SameSteps(t) /\ Bottom(t)' = a /\ At(t)' = a.at
  BY <1>2, <1>3, ReplacedView
<1> QED
  BY <1>2, <1>4 DEF a

(* The first step of thread t's only activation is replaced by more.       *)
MovedOn(t, more) ==
    /\ Others(t)
    /\ Len(stack'[t]) <= 1
    /\ Steps(t)' = Elements(more) \cup Later(t)
    /\ Idle(t)' <=> Steps(t)' = {}
    /\ ~Idle(t)' => /\ Why(t)' = Why(t)
                    /\ Ordered(Bottom(t)'.todo)
                    /\ Len(stack'[t]) = 1
    /\ Idle(t)' => Why(t)' = "call"
    /\ more # <<>> => First(t)' = more[1]
    /\ At(t)' = "start"
    /\ Inner(t)' = {}

LEMMA ContinueView ==
    ASSUME StackOK, NEW t \in Threads, ~Idle(t), Len(stack[t]) = 1,
           Ordered(Bottom(t).todo), NEW more \in Seq(Step), Continue(t, more),
           Ordered(more), \A r \in Elements(more), s \in Later(t) : Before(r, s)
    PROVE  MovedOn(t, more)
<1> DEFINE rest == Tail(Bottom(t).todo)
           todo == more \o rest
           a == [todo |-> todo, at |-> "start", ptr |-> Bottom(t).ptr,
                 why |-> Bottom(t).why]
<1>1. /\ Bottom(t) \in Activation /\ Top(t) = Bottom(t)
      /\ Bottom(t).todo \in Seq(Step) /\ Bottom(t).todo # <<>>
      /\ Why(t) = Bottom(t).why
  BY Views
<1>2. rest \in Seq(Step) /\ Ordered(rest) /\ Later(t) = Elements(rest)
  BY <1>1, HeadAndTail, OrderedTail DEF Later, Bottom
<1>3. /\ todo \in Seq(Step)
      /\ Elements(todo) = Elements(more) \cup Later(t)
      /\ todo = <<>> <=> Elements(todo) = {}
  <2> HIDE DEF rest
  <2>1. /\ more \o rest \in Seq(Step)
        /\ Elements(more \o rest) = Elements(more) \cup Elements(rest)
    BY <1>2, JoinedElements
  <2>2. more \o rest = <<>> <=> Elements(more \o rest) = {}
    BY <2>1, JoinedElements
  <2> QED
    BY <1>2, <2>1, <2>2
<1>4. Ordered(todo)
  BY <1>2, OrderedJoin
<1>5. more # <<>> => Head(todo) = more[1]
  BY <1>2
<1>6. stack' = [stack EXCEPT ![t] = WithTop(stack[t], a)]
  BY <1>1 DEF Continue
<1> HIDE DEF rest, todo
<1>7. a.todo = todo /\ a.at = "start" /\ a.why = Why(t)
  BY <1>1
<1> HIDE DEF a
<1>8. stack[t] \in Seq(Activation) /\ Others(t) /\ stack'[t] = WithTop(stack[t], a)
  BY <1>6 DEF Others, StackOK
<1>9. CASE todo = <<>>
  <2>1. stack'[t] = <<>>
    BY <1>7, <1>8, <1>9 DEF WithTop
  <2>2. Idle(t)' /\ Len(stack'[t]) = 0
    BY <2>1 DEF Idle
  <2>3. Steps(t)' = {} /\ At(t)' = "start" /\ Why(t)' = "call" /\ Inner(t)' = {}
    BY <2>2 DEF Steps, At, Why, Inner
  <2>4. more = <<>>
    BY <1>2, <1>9 DEF todo
  <2> QED
    BY <1>3, <1>8, <1>9, <2>2, <2>3, <2>4 DEF MovedOn
<1>10. CASE todo # <<>>
  <2>1. stack'[t] = [stack[t] EXCEPT ![1] = a]
    BY <1>7, <1>8, <1>10 DEF WithTop
  <2>2. Len(stack'[t]) = 1 /\ stack'[t][1] = a /\ stack'[t] # <<>>
    BY <1>8, <2>1
  <2>3. /\ ~Idle(t)' /\ Steps(t)' = Elements(todo) /\ At(t)' = "start"
        /\ Why(t)' = Why(t) /\ Inner(t)' = {} /\ First(t)' = Head(todo)
        /\ Bottom(t)'.todo = todo
    BY <1>7, <2>2 DEF Idle, Steps, At, Why, Inner, First, Bottom
  <2> QED
    BY <1>3, <1>4, <1>5, <1>8, <1>10, <2>2, <2>3 DEF MovedOn
<1> QED
  BY <1>9, <1>10

LEMMA ReturnView ==
    ASSUME StackOK, NEW t \in Threads, ~Idle(t), Len(stack[t]) = 1,
           Ordered(Bottom(t).todo), Return(t)
    PROVE  /\ MovedOn(t, <<>>) /\ Steps(t)' = Later(t)
<1>1. <<>> \in Seq(Step) /\ Elements(<<>>) = {} /\ Ordered(<<>>)
  BY DEF Elements, Ordered
<1>2. Continue(t, <<>>)
  BY DEF Return
<1>3. MovedOn(t, <<>>)
  BY <1>1, <1>2, ContinueView
<1> QED
  BY <1>1, <1>3 DEF MovedOn

(* Thread t, which was not in the library, has these steps to take.        *)
LEMMA EnterView ==
    ASSUME StackOK, NEW t \in Threads, Idle(t), NEW todo \in Seq(Step),
           NEW why \in Reasons, Enter(t, todo, why)
    PROVE  /\ Others(t)
           /\ Len(stack'[t]) <= 1
           /\ Steps(t)' = Elements(todo)
           /\ Idle(t)' <=> todo = <<>>
           /\ ~Idle(t)' => /\ Why(t)' = why
                           /\ Bottom(t)'.todo = todo
                           /\ Len(stack'[t]) = 1
                           /\ First(t)' = Head(todo)
           /\ Idle(t)' => Why(t)' = "call"
           /\ At(t)' = "start"
           /\ Inner(t)' = {}
<1> DEFINE c == Call(todo, why)
<1>1. c.todo = todo /\ c.at = "start" /\ c.why = why
  BY DEF Call
<1>2. stack' = [stack EXCEPT ![t] = IF todo = <<>> THEN stack[t]
                                     ELSE Append(stack[t], c)]
  BY DEF Enter
<1> HIDE DEF c
<1>3. stack[t] = <<>> /\ t \in DOMAIN stack
  BY DEF Idle, StackOK
<1>4. Others(t)
  BY <1>2 DEF Others, StackOK
<1>5. CASE todo = <<>>
  <2>1. stack'[t] = <<>>
    BY <1>2, <1>3, <1>5
  <2>2. Elements(todo) = {}
    BY <1>5 DEF Elements
  <2>3. Idle(t)' /\ Len(stack'[t]) = 0
    BY <2>1 DEF Idle
  <2> QED
    BY <1>4, <1>5, <2>2, <2>3 DEF Steps, At, Why, Inner
<1>6. CASE todo # <<>>
  <2>1. stack'[t] = <<c>>
    BY <1>2, <1>3, <1>6
  <2>2. ~Idle(t)' /\ Len(stack'[t]) = 1 /\ stack'[t][1] = c
    BY <2>1 DEF Idle
  <2> QED
    BY <1>1, <1>4, <1>6, <2>2 DEF Steps, At, Why, Inner, Bottom, First
<1> QED
  BY <1>5, <1>6

(***************************************************************************)
(* Which activation takes a step, and what is left of it.                  *)
(***************************************************************************)

(* The step is one of thread t's only activation.                          *)
OnBottom(t) ==
    /\ ~Idle(t) /\ Len(stack[t]) = 1
    /\ Top(t) = Bottom(t) /\ Current(t) = First(t)
    /\ Ordered(Bottom(t).todo)
    /\ Inner(t) = {}
(* The step is one of the enable_tracing(false) above it.                  *)
OnInner(t) ==
    /\ ~Idle(t) /\ Len(stack[t]) = 2 /\ At(t) = "fail"
    /\ Top(t) = stack[t][2] /\ Current(t) = Head(stack[t][2].todo)
    /\ Current(t) \in Inner(t) /\ InnerStep(Current(t))
    /\ Current(t).op = "packet" => First(t).op = "packet"

LEMMA WhichActivation ==
    ASSUME Calm, NEW t \in Threads, stack[t] # <<>>
    PROVE  \/ OnBottom(t) /\ Current(t).op = First(t).op /\ Top(t).at = At(t)
           \/ OnInner(t)
<1>1. StackOK /\ ~Idle(t) /\ Fits(t)
  BY InvStack DEF Calm, Shape, Idle
<1>2. Len(stack[t]) \in {1, 2}
  <2> DEFINE n == Len(stack[t])
  <2>1. n \in Nat \ {0}
    BY <1>1, Views
  <2>2. n <= 2
    BY <1>1 DEF Fits
  <2> HIDE DEF n
  <2>3. n \in {1, 2}
    BY <2>1, <2>2
  <2> QED
    BY <2>3 DEF n
<1>3. CASE Len(stack[t]) = 1
  BY <1>1, <1>3, Views DEF OnBottom, Fits, OuterFits
<1>4. CASE Len(stack[t]) = 2
  <2>1. /\ Top(t) = stack[t][2] /\ Current(t) = Head(stack[t][2].todo)
        /\ Inner(t) = Elements(stack[t][2].todo)
    BY <1>4 DEF Top, Current, Inner
  <2>2. Current(t) \in Inner(t)
    <3>1. stack[t][2].todo \in Seq(Step) /\ stack[t][2].todo # <<>>
      BY <1>1, <1>4, <2>1, TopType DEF Idle
    <3> QED
      BY <2>1, <3>1, HeadAndTail
  <2> QED
    BY <1>1, <1>4, <2>1, <2>2 DEF OnInner, Fits, InnerFits
<1> QED
  BY <1>2, <1>3, <1>4

LEMMA RunsOnBottom ==
    ASSUME Calm, NEW t \in Threads, NEW op, NEW place, Running(t, op, place),
           \/ op \notin {"enable", "packet"}
           \/ op = "packet" /\ place \notin {"start", "lock"}
           \/ op = "packet" /\ place = "lock" /\ locked = 0
    PROVE  OnBottom(t) /\ First(t).op = op /\ At(t) = place
<1>1. stack[t] # <<>> /\ Top(t).at = place /\ Current(t).op = op
  BY DEF Running
<1>2. ASSUME OnInner(t) PROVE FALSE
  <2>1. /\ Current(t).op \in {"enable", "packet"} /\ Len(stack[t]) = 2
        /\ Top(t) = stack[t][2] /\ At(t) = "fail"
        /\ Current(t).op = "packet" => First(t).op = "packet"
    BY <1>2 DEF OnInner, InnerStep, Disables
  <2>2. Fits(t) /\ StackOK /\ ~Idle(t)
    BY <1>1, InvStack DEF Calm, Shape, Idle
  <2>3. Top(t).at \in {"start", "lock"}
    BY <2>1, <2>2 DEF Fits, InnerFits
  <2>4. op = "packet" /\ place = "lock" /\ locked = 0
    BY <1>1, <2>1, <2>3
  <2>5. Holding(Bottom(t)) /\ 1 \in DOMAIN stack[t]
    <3>1. Bottom(t).todo # <<>> /\ At(t) = Bottom(t).at /\ stack[t] \in Seq(Activation)
      BY <2>2, Views DEF StackOK
    <3> QED
      BY <1>1, <2>1, <2>4, <3>1 DEF Holding, First, Bottom
  <2>6. locked = 1
    BY <2>5 DEF Calm, LockExcludes, Bottom
  <2> QED
    BY <2>4, <2>6
<1> QED
  BY <1>1, <1>2, WhichActivation

LEMMA OthersFit ==
    ASSUME Shape, NEW t \in Threads, Others(t), calls \in Nat, calls' \in Nat,
           calls <= calls', NEW u \in Threads, u # t
    PROVE  Fits(u)'
<1>1. Fits(u) /\ stack'[u] = stack[u]
  BY DEF Shape, Others
<1>2. ASSUME NEW s, CallStep(s) PROVE CallStep(s)'
  BY <1>2 DEF CallStep
<1>3. OuterFits(u)'
  BY <1>1, <1>2 DEF Fits, OuterFits, Idle, Bottom, Why, Steps, First, At, SoloStep
<1>4. InnerFits(u)'
  BY <1>1 DEF Fits, InnerFits, Idle, At, Inner, InnerStep, First, Disables
<1> QED
  BY <1>1, <1>3, <1>4 DEF Fits

LEMMA SameFits ==
    ASSUME NEW t \in Threads, Fits(t), ~Idle(t), SameSteps(t), calls' = calls,
           \/ First(t).op = "packet"
           \/ First(t).op = "flush" /\ At(t)' \in {"fail", "rewind"}
    PROVE  Fits(t)'
<1>1. OuterFits(t)'
  BY DEF SameSteps, Fits, OuterFits, CallStep, SoloStep
<1>2. InnerFits(t)' /\ Len(stack'[t]) <= 2
  BY DEF SameSteps, InnerFits
<1> QED
  BY <1>1, <1>2 DEF Fits

LEMMA MovedFits ==
    ASSUME NEW t \in Threads, StackOK, Fits(t), ~Idle(t), NEW more, MovedOn(t, more),
           calls' = calls,
           \A s \in Elements(more) : IF Why(t) = "call" THEN CallStep(s) ELSE SoloStep(s)
    PROVE  Fits(t)'
<1>1. \A s \in Later(t) : s \in Steps(t)
  BY Views
<1>2. \A s \in Steps(t)' : IF Why(t) = "call" THEN CallStep(s) ELSE SoloStep(s)
  BY <1>1 DEF MovedOn, Fits, OuterFits
<1>3. OuterFits(t)'
  BY <1>2 DEF MovedOn, OuterFits, CallStep, SoloStep
<1>4. InnerFits(t)' /\ Len(stack'[t]) <= 2
  BY DEF MovedOn, InnerFits
<1> QED
  BY <1>3, <1>4 DEF Fits

LEMMA ApartKept ==
    ASSUME Apart, NEW t \in Threads, Others(t), ~Idle(t), Why(t)' \in {Why(t), "call"}
    PROVE  Apart'
<1> SUFFICES ASSUME NEW v \in Threads, NEW u \in Threads, Solo(v)', ~Idle(u)'
             PROVE  u = v
  BY DEF Apart
<1>1. Solo(v)
  <2>1. CASE v = t
    BY <2>1 DEF Solo
  <2>2. CASE v # t
    BY <2>2 DEF Others, Solo, Why, Idle
  <2> QED
    BY <2>1, <2>2
<1>2. ~Idle(u)
  BY DEF Others, Idle
<1> QED
  BY <1>1, <1>2 DEF Apart

(* Shape is kept by a step of a thread that was in the library.            *)
LEMMA SameShape ==
    ASSUME Calm, NEW t \in Threads, ~Idle(t), SameSteps(t), UNCHANGED calls,
           \/ First(t).op = "packet"
           \/ First(t).op = "flush" /\ At(t)' \in {"fail", "rewind"}
    PROVE  Shape'
<1>1. Others(t) /\ Why(t)' = Why(t) /\ calls \in Nat
  BY DEF SameSteps, Calm, Inv, TypeOK, LifeTypes
<1>2. Apart'
  BY <1>1, ApartKept DEF Calm, Shape
<1>3. Fits(t)'
  BY SameFits DEF Calm, Shape
<1>4. \A u \in Threads : u # t => Fits(u)'
  BY <1>1, OthersFit DEF Calm
<1> QED
  BY <1>2, <1>3, <1>4 DEF Shape

LEMMA MovedShape ==
    ASSUME Calm, NEW t \in Threads, ~Idle(t), NEW more, MovedOn(t, more), UNCHANGED calls,
           \A s \in Elements(more) : IF Why(t) = "call" THEN CallStep(s) ELSE SoloStep(s)
    PROVE  Shape'
<1>1. Others(t) /\ Why(t)' \in {Why(t), "call"} /\ calls \in Nat
  BY DEF MovedOn, Calm, Inv, TypeOK, LifeTypes
<1>2. Apart'
  BY <1>1, ApartKept DEF Calm, Shape
<1>3. Fits(t)'
  BY MovedFits, InvStack DEF Calm, Shape
<1>4. \A u \in Threads : u # t => Fits(u)'
  BY <1>1, OthersFit DEF Calm
<1> QED
  BY <1>2, <1>3, <1>4 DEF Shape

(* A thread enters the library, when no other is inside or for a call.     *)
LEMMA EnterShape ==
    ASSUME Calm, NEW t \in Threads, Idle(t), NEW todo \in Seq(Step), NEW why \in Reasons,
           Enter(t, todo, why), Ordered(todo), calls' \in Nat, calls <= calls',
           IF why = "call" THEN \A u \in Threads : ~Solo(u)
                           ELSE \A u \in Threads : Idle(u),
           \A s \in Elements(todo) : IF why = "call" THEN CallStep(s)' ELSE SoloStep(s)
    PROVE  Shape'
<1>1. StackOK /\ calls \in Nat
  BY InvStack DEF Calm, Inv, TypeOK, LifeTypes
<1>2. /\ Others(t)
      /\ Len(stack'[t]) <= 1
      /\ Steps(t)' = Elements(todo)
      /\ Idle(t)' <=> todo = <<>>
      /\ ~Idle(t)' => Why(t)' = why /\ Bottom(t)'.todo = todo
      /\ Idle(t)' => Why(t)' = "call"
      /\ At(t)' = "start"
  BY <1>1, EnterView
<1>3. OuterFits(t)'
  BY <1>2 DEF OuterFits, SoloStep
<1>4. InnerFits(t)'
  BY <1>2 DEF InnerFits
<1>5. Fits(t)'
  BY <1>2, <1>3, <1>4 DEF Fits
<1>6. Apart'
  <2> SUFFICES ASSUME NEW v \in Threads, NEW u \in Threads, Solo(v)', ~Idle(u)'
               PROVE  u = v
    BY DEF Apart
  <2>1. \A w \in Threads : w # t => (Solo(w)' <=> Solo(w)) /\ (Idle(w)' <=> Idle(w))
    BY <1>2 DEF Others, Solo, Why, Idle
  <2>2. \A w \in Threads : Idle(w) => ~Solo(w)
    BY DEF Idle, Solo, Why
  <2> QED
    BY <1>2, <2>1, <2>2 DEF Solo
<1>7. \A u \in Threads : u # t => Fits(u)'
  BY <1>1, <1>2, OthersFit DEF Calm
<1> QED
  BY <1>5, <1>6, <1>7 DEF Shape

(***************************************************************************)
(* Most steps concern the buffer and leave the pipe, the option and the    *)
(* modules alone, with all that a thread has still to do about them.       *)
(***************************************************************************)

PlainOps == {"packet", "flush", "reset", "store", "heapinfo", "modules",
             "resources", "resource"}
PlainStep(t) ==
    /\ Others(t)
    /\ \A s \in Step : s.op \notin PlainOps => (s \in Steps(t)' <=> s \in Steps(t))
    /\ Op(t, "flush")' => Op(t, "flush")
    /\ ~Idle(t)' => Why(t)' = Why(t) /\ (Idle(t) => ~exited)
    /\ ~Idle(t) => First(t).op \notin {"clear", "open", "openinit"}
    /\ At(t)' = "fail" => At(t) = "fail"
    /\ Inner(t)' = Inner(t)
    /\ initLock # 0
    /\ UNCHANGED <<enable, fd_proc, closed, modules, moduleOn, moduleAt,
                   initLock, exited>>
    /\ resources' = resources \/ (~Idle(t) /\ ~Op(t, "ready"))

LEMMA StepsAreSteps ==
    ASSUME StackOK, NEW t \in Threads
    PROVE  Steps(t) \subseteq Step
<1>1. CASE Idle(t)
  BY <1>1 DEF Steps
<1>2. CASE ~Idle(t)
  BY <1>2, Views
<1> QED
  BY <1>1, <1>2

LEMMA StepsStaySteps ==
    ASSUME StackOK', NEW t \in Threads
    PROVE  Steps(t)' \subseteq Step
<1>1. CASE Idle(t)'
  BY <1>1 DEF Steps
<1>2. CASE ~Idle(t)'
  <2>1. stack'[t] \in Seq(Activation) /\ 1 \in DOMAIN stack'[t]
    BY <1>2 DEF StackOK, Idle
  <2>2. stack'[t][1].todo \in Seq(Step)
    <3>1. stack'[t][1] \in Activation
      BY <2>1
    <3> QED
      BY <3>1 DEF Activation
  <2>3. Elements(stack'[t][1].todo) \subseteq Step
    BY <2>2, JoinedElements
  <2> QED
    BY <1>2, <2>3 DEF Steps
<1> QED
  BY <1>1, <1>2

LEMMA SameStack ==
    ASSUME NEW u \in Threads, stack'[u] = stack[u]
    PROVE  /\ Idle(u)' <=> Idle(u)
           /\ Steps(u)' = Steps(u) /\ Inner(u)' = Inner(u)
           /\ At(u)' = At(u) /\ Why(u)' = Why(u)
           /\ First(u)' = First(u) /\ Bottom(u)' = Bottom(u)
           /\ Solo(u)' <=> Solo(u)
           /\ \A op : Op(u, op)' <=> Op(u, op)
BY DEF Idle, Steps, Inner, At, Why, First, Bottom, Solo, Op

LEMMA ControlKept ==
    ASSUME Calm, StackOK', NEW t \in Threads, PlainStep(t)
    PROVE  Control'
<1>1. /\ StackOK /\ Standing /\ \A u \in Threads : Doing(u)
  BY InvStack DEF Calm, Control
<1>2. ASSUME NEW u \in Threads
      PROVE  /\ \A s \in Step : s.op \notin PlainOps => (s \in Steps(u)' <=> s \in Steps(u))
             /\ Steps(u) \subseteq Step /\ Steps(u)' \subseteq Step
             /\ Op(u, "flush")' => Op(u, "flush")
             /\ Idle(u)' => Steps(u)' = {} /\ Why(u)' = "call"
             /\ Idle(u) => Steps(u) = {} /\ Why(u) = "call"
             /\ ~Idle(u)' => Why(u)' = Why(u) /\ (Idle(u) => ~exited)
             /\ At(u)' = "fail" => At(u) = "fail"
             /\ Inner(u)' = Inner(u)
             /\ ~Idle(u) /\ u = t => First(u).op \notin {"clear", "open", "openinit"}
             /\ u # t => First(u)' = First(u)
  <2>1. Steps(u) \subseteq Step /\ Steps(u)' \subseteq Step
    <3>1. Steps(u) \subseteq Step
      BY <1>1, StepsAreSteps
    <3>2. Steps(u)' \subseteq Step
      BY StepsStaySteps
    <3> QED
      BY <3>1, <3>2
  <2>2. /\ Idle(u)' => Steps(u)' = {} /\ Why(u)' = "call"
        /\ Idle(u) => Steps(u) = {} /\ Why(u) = "call"
    BY DEF Idle, Steps, Why
  <2>3. CASE u = t
    BY <2>1, <2>2, <2>3 DEF PlainStep
  <2>4. CASE u # t
    <3>1. stack'[u] = stack[u]
      BY <2>4 DEF PlainStep, Others
    <3>2. UNCHANGED exited
      BY DEF PlainStep
    <3>3. exited /\ ~Idle(u) => Why(u) = "exit"
      BY <1>1 DEF Doing
    <3> QED
      BY <2>1, <2>2, <2>4, <3>1, SameStack
  <2> QED
    BY <2>3, <2>4
<1>3. ASSUME NEW u \in Threads
      PROVE  /\ \A op \in Ops \ PlainOps : Op(u, op)' <=> Op(u, op)
             /\ \A s \in Steps(u)' : s.op \notin PlainOps => s \in Steps(u)
             /\ \A s \in Steps(u) : s.op \notin PlainOps => s \in Steps(u)'
             /\ (\E s \in Steps(u)' : Enables(s)) <=> (\E s \in Steps(u) : Enables(s))
             /\ (\E s \in Steps(u)' : Disables(s)) <=> (\E s \in Steps(u) : Disables(s))
             /\ (\E s \in Steps(u)' : Opens(s)) <=> (\E s \in Steps(u) : Opens(s))
  <2>1. /\ \A s \in Steps(u)' : s.op \notin PlainOps => s \in Steps(u)
        /\ \A s \in Steps(u) : s.op \notin PlainOps => s \in Steps(u)'
    BY <1>2
  <2>2. \A op \in Ops \ PlainOps : Op(u, op)' <=> Op(u, op)
    BY <2>1 DEF Op
  <2> QED
    BY <2>1, <2>2 DEF Enables, Disables, Opens, PlainOps
<1>4. /\ UNCHANGED <<enable, fd_proc, closed, modules, moduleOn, moduleAt,
                     initLock, exited>>
      /\ initLock # 0
      /\ AllOn' <=> AllOn
      /\ AllOff' <=> AllOff
      /\ \A s : Switched(s)' <=> Switched(s)
  BY DEF PlainStep, AllOn, AllOff, Switched
<1>5. Standing'
  <2>1. /\ \A op \in {"ready", "clear"} :
              (\E u \in Threads : Op(u, op)') <=> (\E u \in Threads : Op(u, op))
    BY <1>3 DEF Ops, PlainOps
  <2>2. /\ (\E u \in Threads : \E s \in Steps(u)' : Enables(s))
               <=> (\E u \in Threads : \E s \in Steps(u) : Enables(s))
        /\ (\E u \in Threads : \E s \in Steps(u)' : Opens(s))
               <=> (\E u \in Threads : \E s \in Steps(u) : Opens(s))
    BY <1>3
  <2> QED
    BY <1>1, <1>4, <2>1, <2>2 DEF Standing, Enables, Opens
<1>6. ASSUME NEW u \in Threads PROVE Doing(u)'
  <2>1. Doing(u)
    BY <1>1
  <2>2. \A op \in {"ready", "openinit", "open", "clear", "close", "nopipe"} :
            Op(u, op)' <=> Op(u, op)
    BY <1>3 DEF Ops, PlainOps
  <2>3. /\ exited' /\ ~Idle(u)' => Why(u)' = "exit"
        /\ Why(u)' = "exit" => exited'
        /\ Solo(u)' /\ initLock' # 2 => Why(u)' = "init"
    BY <1>2, <1>4, <2>1 DEF Doing, Solo
  <2>4. Op(u, "ready")' => initLock' = 1 /\ modules' = 0 /\ resources' = 0 /\ Why(u)' = "init"
    <3> SUFFICES ASSUME Op(u, "ready")'
                 PROVE  initLock' = 1 /\ modules' = 0 /\ resources' = 0 /\ Why(u)' = "init"
      OBVIOUS
    <3>1. Op(u, "ready")
      BY <2>2
    <3>2. initLock = 1 /\ modules = 0 /\ resources = 0 /\ Why(u) = "init"
      BY <2>1, <3>1 DEF Doing
    <3>3. ~Idle(u)'
      BY <1>2 DEF Op
    <3>4. resources' = resources
      <4>1. Solo(u)
        BY <3>2 DEF Solo
      <4>2. ~Idle(t) => u = t
        BY <4>1 DEF Calm, Shape, Apart
      <4> QED
        BY <3>1, <4>2 DEF PlainStep
    <3> QED
      BY <1>2, <1>4, <3>2, <3>3, <3>4
  <2> QED
    BY <1>2, <1>3, <1>4, <2>1, <2>2, <2>3, <2>4
    DEF Doing, Op, Opens, Enables, Disables, PlainOps
<1> QED
  BY <1>5, <1>6 DEF Control

(***************************************************************************)
(* What each step of a thread in the library does to its activations.      *)
(***************************************************************************)

LEMMA BeforeLater ==
    ASSUME StackOK, NEW t \in Threads, OnBottom(t), NEW r \in Step,
           \/ Rank(r) < Rank(First(t))
           \/ Rank(r) = Rank(First(t)) /\ Rank(r) \notin {3, 20}
    PROVE  \A s \in Later(t) : Before(r, s)
<1> SUFFICES ASSUME NEW s \in Later(t) PROVE Before(r, s)
  OBVIOUS
<1>1. First(t) \in Step /\ s \in Step /\ ~Idle(t) /\ Ordered(Bottom(t).todo)
  BY Views DEF OnBottom
<1>2. Before(First(t), s)
  BY <1>1, FirstIsBefore
<1>3. Rank(r) \in Int /\ Rank(s) \in Int /\ Rank(First(t)) \in Int
  BY <1>1, Ranks
<1>4. First(t).op = "resource" => Rank(First(t)) = 20
  BY <1>1, Ranks
<1>5. s.op = "resource" => Rank(s) = 20
  BY <1>1, Ranks
<1> QED
  BY <1>2, <1>3, <1>4, <1>5 DEF Before

LEMMA OneMore ==
    ASSUME StackOK, NEW t \in Threads, OnBottom(t), NEW p \in Step, Continue(t, <<p>>),
           \/ Rank(p) < Rank(First(t))
           \/ Rank(p) = Rank(First(t)) /\ Rank(p) \notin {3, 20}
    PROVE  MovedOn(t, <<p>>) /\ Steps(t)' = {p} \cup Later(t) /\ First(t)' = p
<1>1. <<p>> \in Seq(Step) /\ Elements(<<p>>) = {p} /\ Ordered(<<p>>)
  BY DEF Elements, Ordered
<1>2. \A s \in Later(t) : Before(p, s)
  BY BeforeLater
<1>3. MovedOn(t, <<p>>)
  BY <1>1, <1>2, ContinueView DEF OnBottom
<1> QED
  BY <1>1, <1>3 DEF MovedOn

LEMMA TwoMore ==
    ASSUME StackOK, NEW t \in Threads, OnBottom(t), NEW p \in Step, NEW q \in Step,
           Continue(t, <<p, q>>), Rank(p) < Rank(q),
           Rank(q) = Rank(First(t)), Rank(q) \notin {3, 20}
    PROVE  /\ MovedOn(t, <<p, q>>) /\ Steps(t)' = {p, q} \cup Later(t)
           /\ First(t)' = p
<1>1. <<p, q>> \in Seq(Step) /\ Elements(<<p, q>>) = {p, q}
  BY DEF Elements
<1>2. Ordered(<<p, q>>)
  BY DEF Ordered, Before
<1>3. \A s \in Later(t) : Before(p, s) /\ Before(q, s)
  BY BeforeLater
<1>4. \A r \in Elements(<<p, q>>), s \in Later(t) : Before(r, s)
  BY <1>1, <1>3
<1>5. MovedOn(t, <<p, q>>)
  BY <1>1, <1>2, <1>4, ContinueView DEF OnBottom
<1> QED
  BY <1>1, <1>5 DEF MovedOn

(* The first step of t's only activation is over.                          *)
Skipped(t) == MovedOn(t, <<>>) /\ Steps(t)' = Later(t)

LEMMA SkippedView ==
    ASSUME StackOK, NEW t \in Threads, OnBottom(t), Return(t)
    PROVE  Skipped(t)
BY ReturnView DEF OnBottom, Skipped

LEMMA CheckEnableEffect ==
    ASSUME Calm, NEW t \in Threads, CheckEnable(t)
    PROVE  \/ /\ OnBottom(t) /\ First(t).op = "packet" /\ At(t) = "start"
              /\ \/ /\ First(t).kind \in Checked /\ ~enable
                    /\ Skipped(t)
                    /\ accepted' = accepted
                 \/ /\ First(t).kind \in Checked => enable
                    /\ SameSteps(t) /\ At(t)' = "lock"
                    /\ Bottom(t)' = [Bottom(t) EXCEPT !.at = "lock"]
                    /\ accepted' = IF First(t).kind = "FC"
                                   THEN accepted \cup {<<fd_proc, t, First(t).n>>}
                                   ELSE accepted
           \/ /\ OnInner(t) /\ Others(t) /\ Len(stack'[t]) = 2
              /\ stack'[t][1] = stack[t][1]
              /\ stack'[t][2] = [stack[t][2] EXCEPT !.at = "lock"]
              /\ Current(t).op = "packet" /\ accepted' = accepted
<1>1. StackOK /\ stack[t] # <<>> /\ Top(t).at = "start" /\ Current(t).op = "packet"
  BY InvStack DEF Calm, CheckEnable, Running
<1>2. CASE OnBottom(t)
  <2>1. First(t).op = "packet" /\ At(t) = "start" /\ Current(t) = First(t)
    BY <1>1, <1>2, Views DEF OnBottom
  <2>2. CASE First(t).kind \in Checked /\ ~enable
    <3>1. Return(t) /\ accepted' = accepted
      BY <2>1, <2>2 DEF CheckEnable
    <3> QED
      BY <1>1, <1>2, <2>1, <2>2, <3>1, SkippedView
  <2>3. CASE ~(First(t).kind \in Checked /\ ~enable)
    <3>1. /\ Goto(t, "lock")
          /\ accepted' = IF First(t).kind = "FC"
                         THEN accepted \cup {<<fd_proc, t, First(t).n>>}
                         ELSE accepted
      BY <2>1, <2>3 DEF CheckEnable
    <3>2. /\ SameSteps(t) /\ At(t)' = "lock"
          /\ Bottom(t)' = [Bottom(t) EXCEPT !.at = "lock"]
      BY <1>1, <1>2, <3>1, GotoView DEF OnBottom, Places
    <3> QED
      BY <1>2, <2>1, <2>3, <3>1, <3>2
  <2> QED
    BY <2>2, <2>3
<1>3. CASE OnInner(t)
  <2>1. Current(t).kind = "AT" /\ Current(t).kind \notin Checked
    BY <1>1, <1>3 DEF OnInner, InnerStep, Disables, Checked
  <2>2. Goto(t, "lock") /\ accepted' = accepted
    BY <2>1 DEF CheckEnable
  <2> DEFINE a == [stack[t][2] EXCEPT !.at = "lock"]
  <2>3. /\ stack' = [stack EXCEPT ![t] = WithTop(stack[t], a)]
        /\ Len(stack[t]) = 2 /\ stack[t] \in Seq(Activation)
    BY <1>1, <1>3, <2>2 DEF OnInner, Goto, StackOK
  <2>4. a.todo # <<>>
    BY <1>1, <1>3, <2>3, TopType DEF OnInner, Activation
  <2> HIDE DEF a
  <2>5. stack'[t] = [stack[t] EXCEPT ![2] = a] /\ Others(t)
    BY <1>1, <2>3, <2>4 DEF WithTop, Others, StackOK
  <2>6. Len(stack'[t]) = 2 /\ stack'[t][1] = stack[t][1] /\ stack'[t][2] = a
    BY <2>3, <2>5
  <2> QED
    BY <1>1, <1>3, <2>2, <2>5, <2>6 DEF a
<1> QED
  BY <1>1, <1>2, <1>3, WhichActivation

LEMMA LockEffect ==
    ASSUME Calm, NEW t \in Threads, Lock(t)
    PROVE  /\ OnBottom(t) /\ First(t).op = "packet" /\ At(t) = "lock"
           /\ SameSteps(t) /\ At(t)' = "unlock"
           /\ Bottom(t)' = [Bottom(t) EXCEPT !.at = "unlock", !.ptr = head]
           /\ locked = 0
           /\ pipe_buffer' =
                 [j \in DOMAIN pipe_buffer |->
                    IF j \in head .. head + Size[First(t).kind] - 1
                    THEN CellOf(t, First(t), j - head + 1)
                    ELSE pipe_buffer[j]]
<1>1. StackOK /\ Running(t, "packet", "lock") /\ locked = 0
  BY InvStack DEF Calm, Lock
<1>2. OnBottom(t) /\ First(t).op = "packet" /\ At(t) = "lock"
  BY <1>1, RunsOnBottom
<1> DEFINE a == [Bottom(t) EXCEPT !.at = "unlock", !.ptr = head]
<1>3. /\ Bottom(t) \in Activation /\ ~Idle(t) /\ Len(stack[t]) = 1
      /\ Top(t) = Bottom(t) /\ Current(t) = First(t)
  BY <1>1, <1>2, Views DEF OnBottom
<1>4. /\ a \in Activation /\ a.todo = Bottom(t).todo /\ a.why = Bottom(t).why
      /\ a.at = "unlock"
  <2>1. head \in Nat
    BY DEF Calm, Inv, TypeOK, BufferTypes
  <2>2. "unlock" \in Places
    BY DEF Places
  <2> DEFINE b == [Bottom(t) EXCEPT !.at = "unlock"]
  <2>3. b \in Activation /\ b.todo = Bottom(t).todo /\ b.why = Bottom(t).why /\ b.at = "unlock"
    BY <1>3, <2>2 DEF Activation
  <2>4. a = [b EXCEPT !.ptr = head]
    BY Zenon
  <2> HIDE DEF b, a
  <2> QED
    BY <2>1, <2>3, <2>4 DEF Activation
<1>5. stack' = [stack EXCEPT ![t] = WithTop(stack[t], a)]
  BY <1>3 DEF Lock, LockAndFill
<1>6. pipe_buffer' =
         [j \in DOMAIN pipe_buffer |->
            IF j \in head .. head + Size[First(t).kind] - 1
            THEN CellOf(t, First(t), j - head + 1)
            ELSE pipe_buffer[j]]
  BY <1>3 DEF Lock, LockAndFill
<1> HIDE DEF a
<1>7. SameSteps(t) /\ Bottom(t)' = a /\ At(t)' = a.at
  BY <1>1, <1>3, <1>4, <1>5, ReplacedView
<1> QED
  BY <1>1, <1>2, <1>4, <1>6, <1>7 DEF a

LEMMA UnlockEffect ==
    ASSUME Calm, NEW t \in Threads, Unlock(t)
    PROVE  /\ OnBottom(t) /\ First(t).op = "packet" /\ At(t) = "unlock"
           /\ \/ /\ Bottom(t).ptr # head
                 /\ Skipped(t) /\ head' = head
              \/ /\ Bottom(t).ptr = head /\ Overflows(Bottom(t))
                 /\ SameSteps(t) /\ At(t)' = "write" /\ head' = head
                 /\ Bottom(t)' = [Bottom(t) EXCEPT !.at = "write"]
              \/ /\ Bottom(t).ptr = head /\ ~Overflows(Bottom(t))
                 /\ SameSteps(t) /\ head' = head + Size[First(t).kind]
                 /\ \E place \in {"release", "write"} :
                       /\ At(t)' = place
                       /\ Bottom(t)' = [Bottom(t) EXCEPT !.at = place]
<1>1. StackOK /\ Running(t, "packet", "unlock")
  BY InvStack DEF Calm, Unlock
<1>2. OnBottom(t) /\ First(t).op = "packet" /\ At(t) = "unlock"
  BY <1>1, RunsOnBottom
<1>3. Top(t) = Bottom(t) /\ Current(t) = First(t) /\ ~Idle(t) /\ Len(stack[t]) = 1
  BY <1>2 DEF OnBottom
<1>4. CASE Bottom(t).ptr # head
  <2>1. Return(t) /\ head' = head
    BY <1>3, <1>4 DEF Unlock
  <2> QED
    BY <1>1, <1>2, <1>4, <2>1, SkippedView
<1>5. CASE Bottom(t).ptr = head /\ Overflows(Bottom(t))
  <2>1. Goto(t, "write") /\ head' = head
    BY <1>3, <1>5 DEF Unlock
  <2>2. SameSteps(t) /\ At(t)' = "write" /\ Bottom(t)' = [Bottom(t) EXCEPT !.at = "write"]
    BY <1>1, <1>3, <2>1, GotoView DEF Places
  <2> QED
    BY <1>2, <1>5, <2>1, <2>2
<1>6. CASE Bottom(t).ptr = head /\ ~Overflows(Bottom(t))
  <2>1. /\ head' = head + Size[First(t).kind]
        /\ \E place \in {"release", "write"} : Goto(t, place)
    BY <1>3, <1>6 DEF Unlock
  <2>2. PICK place \in {"release", "write"} : Goto(t, place)
    BY <2>1
  <2>3. SameSteps(t) /\ At(t)' = place /\ Bottom(t)' = [Bottom(t) EXCEPT !.at = place]
    BY <1>1, <1>3, <2>2, GotoView DEF Places
  <2> QED
    BY <1>2, <1>6, <2>1, <2>3
<1> QED
  BY <1>4, <1>5, <1>6

LEMMA CopyCellEffect ==
    ASSUME Calm, NEW t \in Threads, CopyCell(t)
    PROVE  /\ OnBottom(t) /\ First(t).op = "packet" /\ At(t) = "copy"
           /\ SameSteps(t) /\ At(t)' = "copy"
           /\ Bottom(t)' = [Bottom(t) EXCEPT !.ptr = Bottom(t).ptr + 1]
           /\ head < Size[First(t).kind]
           /\ head' = head + 1
           /\ pipe_buffer' = [pipe_buffer EXCEPT ![head] =
                 IF Bottom(t).ptr \in DOMAIN pipe_buffer
                 THEN pipe_buffer[Bottom(t).ptr] ELSE Blank]
<1>1. StackOK /\ Running(t, "packet", "copy")
  BY InvStack DEF Calm, CopyCell
<1>2. OnBottom(t) /\ First(t).op = "packet" /\ At(t) = "copy"
  BY <1>1, RunsOnBottom
<1>3. /\ Top(t) = Bottom(t) /\ Current(t) = First(t) /\ ~Idle(t) /\ Len(stack[t]) = 1
      /\ Bottom(t) \in Activation /\ At(t) = Bottom(t).at
  BY <1>1, <1>2, Views DEF OnBottom
<1> DEFINE a == [Bottom(t) EXCEPT !.ptr = Bottom(t).ptr + 1]
<1>4. /\ a \in Activation /\ a.todo = Bottom(t).todo /\ a.why = Bottom(t).why
      /\ a.at = "copy"
  BY <1>2, <1>3 DEF Activation
<1>5. stack' = [stack EXCEPT ![t] = WithTop(stack[t], a)]
  BY <1>3 DEF CopyCell
<1> HIDE DEF a
<1>6. SameSteps(t) /\ Bottom(t)' = a /\ At(t)' = a.at
  BY <1>1, <1>3, <1>4, <1>5, ReplacedView
<1> QED
  BY <1>2, <1>3, <1>4, <1>6 DEF a, CopyCell

LEMMA ReleaseEffect ==
    ASSUME Calm, NEW t \in Threads, Release(t)
    PROVE  /\ OnBottom(t) /\ First(t).op = "packet"
           /\ \/ At(t) = "release"
              \/ At(t) = "copy" /\ head >= Size[First(t).kind]
           /\ Skipped(t)
<1>1. StackOK /\ Return(t)
  BY InvStack DEF Calm, Release
<1>2. OnBottom(t) /\ First(t).op = "packet" /\ At(t) \in {"release", "copy"}
  BY RunsOnBottom DEF Release
<1>3. Current(t) = First(t) /\ Top(t).at = At(t)
  BY <1>1, <1>2, Views DEF OnBottom
<1>4. \/ At(t) = "release"
      \/ At(t) = "copy" /\ head >= Size[First(t).kind]
  BY <1>2, <1>3 DEF Release, Running
<1> QED
  BY <1>1, <1>2, <1>4, SkippedView

LEMMA Pair ==
    ASSUME NEW S, NEW a \in S, NEW c \in S
    PROVE  Append(<<a>>, c) = <<a, c>>
<1>1. <<a>> \in Seq(S) /\ Len(<<a>>) = 1
  OBVIOUS
<1>2. /\ Append(<<a>>, c) \in Seq(S) /\ Len(Append(<<a>>, c)) = 2
      /\ Append(<<a>>, c)[1] = a /\ Append(<<a>>, c)[2] = c
  BY <1>1
<1>3. <<a, c>> \in Seq(S) /\ Len(<<a, c>>) = 2
  OBVIOUS
<1> DEFINE s == Append(<<a>>, c)
           r == <<a, c>>
<1>4. \A i \in 1 .. 2 : s[i] = r[i]
  <2>1. \A i \in 1 .. 2 : i = 1 \/ i = 2
    OBVIOUS
  <2> QED
    BY <1>2, <2>1
<1> HIDE DEF s
<1>5. s = [i \in 1 .. 2 |-> s[i]] /\ r = [i \in 1 .. 2 |-> r[i]]
  BY <1>2, <1>3 DEF s
<1> QED
  BY <1>4, <1>5 DEF s

LEMMA WriteSentEffect ==
    ASSUME Calm, NEW t \in Threads, WriteSent(t)
    PROVE  /\ OnBottom(t)
           /\ \/ First(t).op = "packet" /\ At(t) = "write"
              \/ First(t).op = "flush" /\ At(t) = "start"
           /\ SameSteps(t) /\ At(t)' = "rewind"
           /\ Bottom(t)' = [Bottom(t) EXCEPT !.at = "rewind"]
<1>1. StackOK /\ Goto(t, "rewind") /\ "rewind" \in Places
  BY InvStack DEF Calm, WriteSent, Places
<1>2. OnBottom(t) /\ (\/ First(t).op = "packet" /\ At(t) = "write"
                      \/ First(t).op = "flush" /\ At(t) = "start")
  BY RunsOnBottom DEF WriteSent, AtWrite
<1> QED
  BY <1>1, <1>2, GotoView DEF OnBottom

LEMMA WriteFailedEffect ==
    ASSUME Calm, NEW t \in Threads, WriteFailed(t)
    PROVE  /\ OnBottom(t)
           /\ \/ First(t).op = "packet" /\ At(t) = "write"
              \/ First(t).op = "flush" /\ At(t) = "start"
           /\ Others(t) /\ ~Idle(t)'
           /\ stack'[t] = <<[Bottom(t) EXCEPT !.at = "fail"],
                            Call(<<EnableTracing(0)>>, "call")>>
           /\ Bottom(t)' = [Bottom(t) EXCEPT !.at = "fail"]
           /\ Steps(t)' = Steps(t) /\ First(t)' = First(t) /\ Why(t)' = Why(t)
           /\ At(t)' = "fail"
           /\ Inner(t)' = {EnableTracing(0)}
<1>1. StackOK
  BY InvStack DEF Calm
<1>2. OnBottom(t) /\ (\/ First(t).op = "packet" /\ At(t) = "write"
                      \/ First(t).op = "flush" /\ At(t) = "start")
  BY RunsOnBottom DEF WriteFailed, AtWrite
<1> DEFINE a == [Bottom(t) EXCEPT !.at = "fail"]
           c == Call(<<EnableTracing(0)>>, "call")
<1>3. /\ Bottom(t) \in Activation /\ Top(t) = Bottom(t) /\ ~Idle(t)
      /\ Bottom(t).todo # <<>> /\ Len(stack[t]) = 1 /\ stack[t] \in Seq(Activation)
      /\ Why(t) = Bottom(t).why
  BY <1>1, <1>2, Views DEF OnBottom, StackOK
<1>4. a.todo = Bottom(t).todo /\ a.why = Bottom(t).why /\ a.at = "fail" /\ a \in Activation
  BY <1>3 DEF Activation, Places
<1>5. stack' = [stack EXCEPT ![t] = Append(WithTop(stack[t], a), c)]
  BY <1>3 DEF WriteFailed
<1>6. c.todo = <<EnableTracing(0)>>
  BY DEF Call
<1> HIDE DEF a, c
<1>7. WithTop(stack[t], a) = [stack[t] EXCEPT ![1] = a]
  BY <1>3, <1>4 DEF WithTop
<1>8. [stack[t] EXCEPT ![1] = a] = <<a>>
  BY <1>3
<1>9. Others(t) /\ stack'[t] = <<a, c>>
  <2>1. Append(WithTop(stack[t], a), c) = <<a, c>>
    <3>1. WithTop(stack[t], a) = <<a>>
      BY <1>7, <1>8
    <3>2. Append(<<a>>, c) = <<a, c>>
      <4>1. a \in {a, c} /\ c \in {a, c}
        OBVIOUS
      <4> QED
        BY <4>1, Pair
    <3> QED
      BY <3>1, <3>2
  <2>2. stack' = [stack EXCEPT ![t] = <<a, c>>]
    BY <1>5, <2>1
  <2> QED
    BY <1>1, <2>2 DEF Others, StackOK
<1>10. Len(stack'[t]) = 2 /\ stack'[t] # <<>> /\ stack'[t][1] = a /\ stack'[t][2] = c
  BY <1>9
<1>11. /\ Steps(t)' = Steps(t) /\ First(t)' = First(t) /\ Why(t)' = Why(t)
       /\ At(t)' = "fail" /\ Bottom(t)' = a /\ ~Idle(t)'
  BY <1>3, <1>4, <1>10 DEF Steps, First, Why, At, Idle, Bottom
<1>12. Inner(t)' = {EnableTracing(0)}
  BY <1>6, <1>10 DEF Inner, Elements
<1> QED
  BY <1>2, <1>9, <1>11, <1>12 DEF a, c

LEMMA DisableAfterErrorEffect ==
    ASSUME Calm, NEW t \in Threads, DisableAfterError(t)
    PROVE  /\ OnBottom(t) /\ First(t).op \in {"packet", "flush"} /\ At(t) = "fail"
           /\ SameSteps(t) /\ At(t)' = "rewind"
           /\ Bottom(t)' = [Bottom(t) EXCEPT !.at = "rewind"]
<1>1. StackOK /\ Goto(t, "rewind") /\ "rewind" \in Places
  BY InvStack DEF Calm, DisableAfterError, Places
<1>2. OnBottom(t) /\ First(t).op \in {"packet", "flush"} /\ At(t) = "fail"
  BY RunsOnBottom DEF DisableAfterError, Flushing
<1> QED
  BY <1>1, <1>2, GotoView DEF OnBottom

LEMMA RewindEffect ==
    ASSUME Calm, NEW t \in Threads, Rewind(t)
    PROVE  /\ OnBottom(t) /\ At(t) = "rewind" /\ head' = 0
           /\ \/ First(t).op = "flush" /\ Skipped(t)
              \/ /\ First(t).op = "packet" /\ Overflows(Bottom(t))
                 /\ SameSteps(t) /\ At(t)' = "copy"
                 /\ Bottom(t)' = [Bottom(t) EXCEPT !.at = "copy"]
              \/ /\ First(t).op = "packet" /\ ~Overflows(Bottom(t))
                 /\ SameSteps(t) /\ At(t)' = "release"
                 /\ Bottom(t)' = [Bottom(t) EXCEPT !.at = "release"]
<1>1. StackOK /\ head' = 0 /\ "copy" \in Places /\ "release" \in Places
  BY InvStack DEF Calm, Rewind, Places
<1>2. OnBottom(t) /\ First(t).op \in {"packet", "flush"} /\ At(t) = "rewind"
  BY RunsOnBottom DEF Rewind, Flushing
<1>3. Top(t) = Bottom(t) /\ Current(t) = First(t) /\ ~Idle(t) /\ Len(stack[t]) = 1
  BY <1>2 DEF OnBottom
<1>4. CASE First(t).op = "flush"
  <2>1. Return(t)
    BY <1>3, <1>4 DEF Rewind
  <2> QED
    BY <1>1, <1>2, <1>4, <2>1, SkippedView
<1>5. CASE First(t).op = "packet" /\ Overflows(Bottom(t))
  <2>1. Goto(t, "copy")
    BY <1>3, <1>5 DEF Rewind
  <2>2. SameSteps(t) /\ At(t)' = "copy" /\ Bottom(t)' = [Bottom(t) EXCEPT !.at = "copy"]
    BY <1>1, <1>3, <2>1, GotoView
  <2> QED
    BY <1>1, <1>2, <1>5, <2>2
<1>6. CASE First(t).op = "packet" /\ ~Overflows(Bottom(t))
  <2>1. Goto(t, "release")
    BY <1>3, <1>6 DEF Rewind
  <2>2. SameSteps(t) /\ At(t)' = "release" /\ Bottom(t)' = [Bottom(t) EXCEPT !.at = "release"]
    BY <1>1, <1>3, <2>1, GotoView
  <2> QED
    BY <1>1, <1>2, <1>6, <2>2
<1> QED
  BY <1>2, <1>4, <1>5, <1>6

(* The steps that are over at once.                                        *)
LEMMA ReturnEffects ==
    ASSUME Calm, NEW t \in Threads
    PROVE  /\ Reset(t) => OnBottom(t) /\ First(t).op = "reset" /\ Skipped(t)
           /\ StoreHeapInfo(t) => OnBottom(t) /\ First(t).op = "store" /\ Skipped(t)
           /\ ClosePipe(t) => OnBottom(t) /\ First(t).op = "close" /\ Skipped(t)
           /\ ClearPipe(t) =>
                 /\ OnBottom(t) /\ Skipped(t)
                 /\ \/ First(t).op = "clear" /\ fd_proc' = 0
                    \/ First(t).op = "nopipe" /\ fd_proc' = -1
           /\ Ready(t) => OnBottom(t) /\ First(t).op = "ready" /\ Skipped(t)
<1>1. StackOK
  BY InvStack DEF Calm
<1>2. Return(t) /\ OnBottom(t) => Skipped(t)
  BY <1>1, SkippedView
<1>3. Reset(t) => OnBottom(t) /\ First(t).op = "reset" /\ Skipped(t)
  BY <1>2, RunsOnBottom DEF Reset
<1>4. StoreHeapInfo(t) => OnBottom(t) /\ First(t).op = "store" /\ Skipped(t)
  BY <1>2, RunsOnBottom DEF StoreHeapInfo
<1>5. ClosePipe(t) => OnBottom(t) /\ First(t).op = "close" /\ Skipped(t)
  BY <1>2, RunsOnBottom DEF ClosePipe
<1>6. Ready(t) => OnBottom(t) /\ First(t).op = "ready" /\ Skipped(t)
  BY <1>2, RunsOnBottom DEF Ready
<1>7. ASSUME ClearPipe(t)
      PROVE  /\ OnBottom(t) /\ Skipped(t)
             /\ \/ First(t).op = "clear" /\ fd_proc' = 0
                \/ First(t).op = "nopipe" /\ fd_proc' = -1
  BY <1>2, <1>7, RunsOnBottom DEF ClearPipe
<1> QED
  BY <1>3, <1>4, <1>5, <1>6, <1>7

LEMMA WriteRegistriesEffect ==
    ASSUME Calm, NEW t \in Threads, WriteRegistries(t)
    PROVE  /\ OnBottom(t) /\ First(t).op \in {"modules", "resources"}
           /\ LET count == IF First(t).op = "modules" THEN modules ELSE resources
                  kind == IF First(t).op = "modules" THEN "MI" ELSE "RR"
                  p == Packet(kind, First(t).n, 0)
                  q == [First(t) EXCEPT !.n = First(t).n + 1]
              IN  \/ First(t).n > count /\ Skipped(t)
                  \/ /\ First(t).n <= count
                     /\ p \in Step /\ q \in Step
                     /\ MovedOn(t, <<p, q>>)
                     /\ Steps(t)' = {p, q} \cup Later(t) /\ First(t)' = p
<1>1. StackOK
  BY InvStack DEF Calm
<1>2. OnBottom(t) /\ First(t).op \in {"modules", "resources"}
  BY RunsOnBottom DEF WriteRegistries
<1>3. Current(t) = First(t) /\ First(t) \in Step
  BY <1>1, <1>2, Views DEF OnBottom
<1>4. First(t).n >= 1 /\ First(t).n \in Nat
  <2>1. First(t) \in Steps(t) /\ Fits(t) /\ ~Idle(t)
    BY <1>1, <1>2, Views DEF OnBottom, Calm, Shape
  <2>2. Why(t) # "call"
    BY <1>2, <2>1 DEF Fits, OuterFits, CallStep
  <2>3. SoloStep(First(t))
    BY <2>1, <2>2 DEF Fits, OuterFits
  <2> QED
    BY <1>2, <1>3, <2>3 DEF SoloStep, Step
<1> DEFINE count == IF First(t).op = "modules" THEN modules ELSE resources
           kind == IF First(t).op = "modules" THEN "MI" ELSE "RR"
           p == Packet(kind, First(t).n, 0)
           q == [First(t) EXCEPT !.n = First(t).n + 1]
<1>5. Continue(t, IF First(t).n <= count THEN <<p, q>> ELSE <<>>)
  BY <1>3 DEF WriteRegistries
<1>6. p \in Step /\ q \in Step /\ q.op = First(t).op
  <2>1. kind \in Kinds
    BY DEF Kinds
  <2>2. p \in Step
    BY <1>4, <2>1, StepTypes
  <2>3. q \in Step /\ q.op = First(t).op
    BY <1>3, <1>4 DEF Step
  <2> QED
    BY <2>2, <2>3
<1>7. Rank(p) < Rank(q) /\ Rank(q) = Rank(First(t)) /\ Rank(q) \notin {3, 20}
  <2>1. p.op = "packet" /\ p.kind = kind /\ p.id = First(t).n
    BY DEF Packet
  <2>2. Rank(p) = IF kind = "MI" THEN 11 ELSE 13
    BY <1>4, <1>6, <2>1, Ranks
  <2>3. /\ Rank(q) = IF First(t).op = "modules" THEN 12 ELSE 14
        /\ Rank(First(t)) = IF First(t).op = "modules" THEN 12 ELSE 14
    BY <1>2, <1>3, <1>6, Ranks
  <2> QED
    BY <1>2, <2>2, <2>3
<1>8. CASE First(t).n <= count
  <2>1. Continue(t, <<p, q>>)
    BY <1>5, <1>8
  <2> HIDE DEF p, q, count
  <2>2. MovedOn(t, <<p, q>>) /\ Steps(t)' = {p, q} \cup Later(t) /\ First(t)' = p
    BY <1>1, <1>2, <1>6, <1>7, <2>1, TwoMore
  <2> QED
    BY <1>2, <1>6, <1>8, <2>2 DEF p, q, count
<1>9. CASE ~(First(t).n <= count)
  <2>1. Return(t)
    BY <1>5, <1>9 DEF Return
  <2>2. Skipped(t) /\ First(t).n > count
    <3>1. count \in Nat
      BY DEF Calm, Inv, TypeOK, RegistryTypes
    <3> QED
      BY <1>1, <1>2, <1>4, <1>9, <2>1, <3>1, SkippedView
  <2> QED
    BY <1>2, <2>2
<1> QED
  BY <1>8, <1>9

LEMMA HeapInfoEffect ==
    ASSUME Calm, NEW t \in Threads, HeapInfo(t)
    PROVE  /\ OnBottom(t) /\ First(t).op = "heapinfo"
           /\ \/ Skipped(t)
              \/ /\ Packet("HI", 0, 0) \in Step
                 /\ MovedOn(t, <<Packet("HI", 0, 0)>>)
                 /\ Steps(t)' = {Packet("HI", 0, 0)} \cup Later(t)
                 /\ First(t)' = Packet("HI", 0, 0)
<1>1. StackOK
  BY InvStack DEF Calm
<1>2. OnBottom(t) /\ First(t).op = "heapinfo"
  BY RunsOnBottom DEF HeapInfo
<1>3. First(t) \in Step
  BY <1>1, <1>2, Views DEF OnBottom
<1> DEFINE p == Packet("HI", 0, 0)
<1>4. p \in Step /\ p.op = "packet" /\ p.kind = "HI"
  BY StepTypes DEF Packet, Kinds
<1>5. Rank(p) < Rank(First(t))
  BY <1>2, <1>3, <1>4, Ranks
<1>6. Continue(t, <<p>>) \/ Continue(t, <<>>)
  BY DEF HeapInfo
<1> HIDE DEF p
<1>7. CASE Continue(t, <<p>>)
  <2>1. MovedOn(t, <<p>>) /\ Steps(t)' = {p} \cup Later(t) /\ First(t)' = p
    BY <1>1, <1>2, <1>4, <1>5, <1>7, OneMore
  <2> QED
    BY <1>2, <1>4, <2>1 DEF p
<1>8. CASE Continue(t, <<>>)
  BY <1>1, <1>2, <1>8, SkippedView DEF Return
<1> QED
  BY <1>6, <1>7, <1>8

LEMMA RegisterResourceEffect ==
    ASSUME Calm, NEW t \in Threads, RegisterResource(t)
    PROVE  /\ OnBottom(t) /\ First(t).op = "resource"
           /\ \/ /\ ~(IdOf(First(t).id) = 0 /\ resources < MaxResources)
                 /\ Skipped(t) /\ UNCHANGED <<resources, resourceType>>
              \/ /\ IdOf(First(t).id) = 0 /\ resources < MaxResources
                 /\ resources' = resources + 1
                 /\ resourceType' = [resourceType EXCEPT ![resources + 1] = First(t).id]
                 /\ \/ ~enable /\ Skipped(t)
                    \/ LET p == Packet("RR", resources + 1, 0)
                       IN  /\ enable /\ p \in Step /\ MovedOn(t, <<p>>)
                           /\ Steps(t)' = {p} \cup Later(t) /\ First(t)' = p
<1>1. StackOK
  BY InvStack DEF Calm
<1>2. OnBottom(t) /\ First(t).op = "resource"
  BY RunsOnBottom DEF RegisterResource
<1>3. First(t) \in Step /\ Current(t) = First(t)
  BY <1>1, <1>2, Views DEF OnBottom
<1>4. CASE ~(IdOf(First(t).id) = 0 /\ resources < MaxResources)
  <2>1. Return(t) /\ UNCHANGED <<resources, resourceType>>
    BY <1>3, <1>4 DEF RegisterResource
  <2> QED
    BY <1>1, <1>2, <1>4, <2>1, SkippedView
<1>5. CASE IdOf(First(t).id) = 0 /\ resources < MaxResources
  <2> DEFINE p == Packet("RR", resources + 1, 0)
  <2>1. /\ resources' = resources + 1
        /\ resourceType' = [resourceType EXCEPT ![resources + 1] = First(t).id]
        /\ Continue(t, IF enable THEN <<p>> ELSE <<>>)
    BY <1>3, <1>5 DEF RegisterResource
  <2>2. p \in Step /\ p.op = "packet" /\ p.kind = "RR"
    <3>1. resources + 1 \in Nat
      BY DEF Calm, Inv, TypeOK, RegistryTypes
    <3> QED
      BY <3>1, StepTypes DEF Packet, Kinds
  <2>3. Rank(p) < Rank(First(t))
    BY <1>2, <1>3, <2>2, Ranks
  <2> HIDE DEF p
  <2>4. CASE enable
    <3>1. MovedOn(t, <<p>>) /\ Steps(t)' = {p} \cup Later(t) /\ First(t)' = p
      BY <1>1, <1>2, <2>1, <2>2, <2>3, <2>4, OneMore
    <3> QED
      BY <1>2, <1>5, <2>1, <2>2, <2>4, <3>1 DEF p
  <2>5. CASE ~enable
    BY <1>1, <1>2, <1>5, <2>1, <2>5, SkippedView DEF Return
  <2> QED
    BY <2>4, <2>5
<1> QED
  BY <1>4, <1>5

LEMMA RegisterModuleEffect ==
    ASSUME Calm, NEW t \in Threads, RegisterModule(t)
    PROVE  /\ OnBottom(t) /\ First(t).op = "register"
           /\ \/ /\ Skipped(t) /\ UNCHANGED <<modules, moduleAt, moduleOn>>
              \/ /\ modules < MaxModules
                 /\ modules' = modules + 1
                 /\ moduleAt' = [moduleAt EXCEPT ![modules + 1] = First(t).id]
                 /\ moduleOn' = [moduleOn EXCEPT ![First(t).id] = enable]
                 /\ \/ ~enable /\ Skipped(t)
                    \/ LET p == Packet("MI", modules + 1, 0)
                       IN  /\ enable /\ p \in Step /\ MovedOn(t, <<p>>)
                           /\ Steps(t)' = {p} \cup Later(t) /\ First(t)' = p
<1>1. StackOK
  BY InvStack DEF Calm
<1>2. OnBottom(t) /\ First(t).op = "register"
  BY RunsOnBottom DEF RegisterModule
<1>3. First(t) \in Step /\ Current(t) = First(t)
  BY <1>1, <1>2, Views DEF OnBottom
<1>4. CASE ~(modules < MaxModules)
  <2>1. Return(t) /\ UNCHANGED <<modules, moduleAt, moduleOn>>
    BY <1>4 DEF RegisterModule
  <2> QED
    BY <1>1, <1>2, <2>1, SkippedView
<1>5. CASE modules < MaxModules
  <2> DEFINE p == Packet("MI", modules + 1, 0)
  <2>1. /\ modules' = modules + 1
        /\ moduleAt' = [moduleAt EXCEPT ![modules + 1] = First(t).id]
        /\ moduleOn' = [moduleOn EXCEPT ![First(t).id] = enable]
        /\ Continue(t, IF enable THEN <<p>> ELSE <<>>)
    BY <1>3, <1>5 DEF RegisterModule
  <2>2. p \in Step /\ p.op = "packet" /\ p.kind = "MI" /\ p.id # 0
    <3>1. modules + 1 \in Nat /\ modules + 1 # 0
      BY DEF Calm, Inv, TypeOK, RegistryTypes
    <3> QED
      BY <3>1, StepTypes DEF Packet, Kinds
  <2>3. Rank(p) < Rank(First(t))
    BY <1>2, <1>3, <2>2, Ranks
  <2> HIDE DEF p
  <2>4. CASE enable
    <3>1. MovedOn(t, <<p>>) /\ Steps(t)' = {p} \cup Later(t) /\ First(t)' = p
      BY <1>1, <1>2, <2>1, <2>2, <2>3, <2>4, OneMore
    <3> QED
      BY <1>2, <1>5, <2>1, <2>2, <2>4, <3>1 DEF p
  <2>5. CASE ~enable
    BY <1>1, <1>2, <1>5, <2>1, <2>5, SkippedView DEF Return
  <2> QED
    BY <2>4, <2>5
<1> QED
  BY <1>4, <1>5

LEMMA NotEmpty ==
    ASSUME NEW w \in Seq(Step), Len(w) = 9
    PROVE  w # <<>>
OBVIOUS

LEMMA JoinedSteps ==
    ASSUME NEW a \in Seq(Step), NEW b \in Seq(Step), NEW c, c = a \o b
    PROVE  /\ c \in Seq(Step)
           /\ Elements(c) = Elements(a) \cup Elements(b)
           /\ a # <<>> => c # <<>> /\ c[1] = a[1]
<1>1. a \o b \in Seq(Step) /\ Elements(a \o b) = Elements(a) \cup Elements(b)
  BY JoinedElements
<1>2. ASSUME a # <<>> PROVE c # <<>> /\ c[1] = a[1]
  <2>1. Len(a) \in Nat /\ Len(b) \in Nat /\ Len(a) # 0
    BY <1>2
  <2>2. Len(c) = Len(a) + Len(b) /\ c[1] = a[1]
    BY <2>1
  <2> QED
    BY <2>1, <2>2
<1> QED
  BY <1>1, <1>2

(* The initial data of a session and enable_tracing(true) after it.        *)
InitialSteps ==
    {Do("reset", 0, 0), Packet("HS", 0, 0), Packet("OS", 0, 0), Packet("PI", 0, 0),
     Packet("MI", 0, 0), Do("modules", 0, 1), Do("resources", 0, 1),
     Packet("NL", 0, 0), Do("flush", 0, 0), EnableTracing(1)}

LEMMA InitialStepFacts ==
    /\ InitialSteps \subseteq Step
    /\ \A s \in InitialSteps :
          /\ Rank(s) \in 6 .. 17
          /\ SoloStep(s)
          /\ s.op \in {"reset", "packet", "modules", "resources", "flush", "enable"}
          /\ s.op = "packet" => s.kind \in {"HS", "OS", "PI", "MI", "NL"} /\ s.id = 0
          /\ s.op = "enable" => s = EnableTracing(1)
    /\ EnableTracing(1).id = 1 /\ EnableTracing(1).n = 1 /\ EnableTracing(1).op = "enable"
<1> DEFINE Packets == {Packet("HS", 0, 0), Packet("OS", 0, 0), Packet("PI", 0, 0),
                       Packet("MI", 0, 0), Packet("NL", 0, 0)}
           Doings == {Do("reset", 0, 0), Do("modules", 0, 1), Do("resources", 0, 1),
                      Do("flush", 0, 0), EnableTracing(1)}
<1>1. InitialSteps = Packets \cup Doings
  BY DEF InitialSteps
<1>2. \A s \in Packets : /\ s \in Step /\ s.op = "packet" /\ s.id = 0 /\ s.n = 0
                         /\ s.kind \in {"HS", "OS", "PI", "MI", "NL"}
  BY StepTypes DEF Packet, Kinds
<1>3. \A s \in Packets : Rank(s) \in 6 .. 17
  BY <1>2, Ranks
<1>4. \A s \in Doings : /\ s \in Step /\ s.n \in {0, 1}
                        /\ s.op \in {"reset", "modules", "resources", "flush", "enable"}
                        /\ s.op = "enable" => s = EnableTracing(1) /\ s.id = 1 /\ s.n = 1
                        /\ s.op \in {"modules", "resources"} => s.n = 1
  BY StepTypes DEF Do, EnableTracing, Ops
<1>5. \A s \in Doings : Rank(s) \in 6 .. 17
  BY <1>4, Ranks
<1>6. EnableTracing(1).id = 1 /\ EnableTracing(1).n = 1 /\ EnableTracing(1).op = "enable"
  BY DEF EnableTracing, Do
<1> HIDE DEF Packets, Doings
<1>7. \A s \in InitialSteps : SoloStep(s)
  BY <1>1, <1>2, <1>4 DEF SoloStep
<1> QED
  BY <1>1, <1>2, <1>3, <1>4, <1>5, <1>6, <1>7

LEMMA InitialDataOrder ==
    /\ WriteInitialData \in Seq(Step) /\ Len(WriteInitialData) = 9
    /\ WriteInitialData[1] = Do("reset", 0, 0)
    /\ Elements(WriteInitialData) = InitialSteps \ {EnableTracing(1)}
    /\ Ordered(WriteInitialData)
    /\ \A s \in Elements(WriteInitialData) : Rank(s) <= 16
<1>0. PICK w : w = WriteInitialData
  OBVIOUS
<1> DEFINE ranks == <<6, 7, 8, 9, 10, 12, 14, 15, 16>>
<1>1. /\ w \in Seq(Step) /\ Len(w) = 9 /\ DOMAIN w = 1 .. 9
      /\ w[1] = Do("reset", 0, 0) /\ w[2] = Packet("HS", 0, 0)
      /\ w[3] = Packet("OS", 0, 0) /\ w[4] = Packet("PI", 0, 0)
      /\ w[5] = Packet("MI", 0, 0) /\ w[6] = Do("modules", 0, 1)
      /\ w[7] = Do("resources", 0, 1) /\ w[8] = Packet("NL", 0, 0)
      /\ w[9] = Do("flush", 0, 0)
  BY <1>0, InitialDataType DEF WriteInitialData
<1>2. \A i \in 1 .. 9 : i = 1 \/ i = 2 \/ i = 3 \/ i = 4 \/ i = 5 \/ i = 6 \/ i = 7
                        \/ i = 8 \/ i = 9
  OBVIOUS
<1>3. Elements(w) = {w[1], w[2], w[3], w[4], w[5], w[6], w[7], w[8], w[9]}
  BY <1>1, <1>2 DEF Elements
<1>4. \A i \in 1 .. 9 : w[i] # EnableTracing(1)
  BY <1>1, <1>2 DEF Packet, Do, EnableTracing
<1>5. Elements(w) = InitialSteps \ {EnableTracing(1)}
  BY <1>1, <1>3, <1>4 DEF InitialSteps
<1>6. /\ Rank(w[1]) = 6 /\ Rank(w[2]) = 7 /\ Rank(w[3]) = 8 /\ Rank(w[4]) = 9
      /\ Rank(w[5]) = 10 /\ Rank(w[6]) = 12 /\ Rank(w[7]) = 14 /\ Rank(w[8]) = 15
      /\ Rank(w[9]) = 16
  <2>1. \A i \in 1 .. 9 : w[i] \in Step
    <3>1. \A i \in DOMAIN w : w[i] \in Step
      <4>1. w \in Seq(Step)
        BY <1>1
      <4> QED
        BY <4>1
    <3> QED
      BY <1>1, <3>1
  <2>2. /\ w[1].op = "reset" /\ w[6].op = "modules" /\ w[7].op = "resources"
        /\ w[9].op = "flush" /\ \A i \in {2, 3, 4, 5, 8} : w[i].op = "packet"
        /\ w[2].kind = "HS" /\ w[3].kind = "OS" /\ w[4].kind = "PI" /\ w[5].kind = "MI"
        /\ w[8].kind = "NL" /\ w[5].id = 0 /\ w[8].id = 0
    BY <1>1 DEF Packet, Do
  <2> QED
    BY <2>1, <2>2, Ranks
<1>7. \A i \in 1 .. 9 : Rank(w[i]) = ranks[i]
  BY <1>2, <1>6
<1>8. \A i, j \in 1 .. 9 : i < j => ranks[i] < ranks[j]
  BY <1>2
<1>9. Ordered(w)
  BY <1>1, <1>7, <1>8 DEF Ordered, Before
<1>10. \A s \in Elements(w) : Rank(s) <= 16
  BY <1>3, <1>6
<1> QED
  BY <1>0, <1>1, <1>5, <1>9, <1>10

LEMMA SessionDataOrder ==
    ASSUME NEW d, d = Append(WriteInitialData, EnableTracing(1))
    PROVE  /\ d \in Seq(Step) /\ Elements(d) = InitialSteps /\ Ordered(d)
           /\ d # <<>> /\ d[1] = Do("reset", 0, 0)
<1>0. PICK w, e : w = WriteInitialData /\ e = <<EnableTracing(1)>>
  OBVIOUS
<1>1. /\ EnableTracing(1) \in Step /\ EnableTracing(1) \in InitialSteps
      /\ Rank(EnableTracing(1)) = 17
  <2>1. EnableTracing(1) \in Step /\ EnableTracing(1).op = "enable" /\ EnableTracing(1).id = 1
    BY StepTypes DEF EnableTracing, Do
  <2> QED
    BY <2>1, Ranks DEF InitialSteps
<1>2. e \in Seq(Step) /\ Elements(e) = {EnableTracing(1)} /\ Ordered(e)
  BY <1>0, <1>1 DEF Elements, Ordered
<1>3. /\ w \in Seq(Step) /\ Len(w) = 9 /\ w[1] = Do("reset", 0, 0)
      /\ Elements(w) = InitialSteps \ {EnableTracing(1)} /\ Ordered(w)
      /\ \A s \in Elements(w) : Rank(s) <= 16
  BY <1>0, InitialDataOrder
<1>4. d = w \o e
  BY <1>0, <1>1, <1>3
<1>5. d \in Seq(Step) /\ Elements(d) = Elements(w) \cup Elements(e)
  BY <1>2, <1>3, <1>4, JoinedSteps
<1>6. Elements(d) = InitialSteps
  BY <1>1, <1>2, <1>3, <1>5
<1>7. \A r \in Elements(w), s \in Elements(e) : Before(r, s)
  <2>1. ASSUME NEW r \in Elements(w) PROVE r \in Step /\ Rank(r) \in Int /\ Rank(r) <= 16
    <3>1. r \in Step
      BY <1>3, <2>1, InitialStepFacts
    <3> QED
      BY <1>3, <2>1, <3>1, Ranks
  <2> QED
    BY <1>1, <1>2, <2>1 DEF Before
<1>8. Ordered(d)
  BY <1>2, <1>3, <1>4, <1>7, OrderedJoin
<1>9. d # <<>> /\ d[1] = w[1]
  <2>1. w \in Seq(Step) /\ Len(w) = 9
    BY <1>3
  <2>2. w # <<>>
    BY <2>1, NotEmpty
  <2> QED
    BY <1>2, <1>4, <2>1, <2>2, JoinedSteps
<1> QED
  BY <1>3, <1>5, <1>6, <1>8, <1>9

LEMMA OpenPipeEffect ==
    ASSUME Calm, NEW t \in Threads, OpenPipe(t)
    PROVE  /\ OnBottom(t) /\ First(t).op \in {"open", "openinit"}
           /\ LET nopipe == Do("nopipe", 0, 0)
                  data == IF First(t).op = "open" THEN {} ELSE InitialSteps
              IN  \/ /\ out' = Append(out, <<>>)
                     /\ fd_proc' = Len(out) + 1
                     /\ UNCHANGED enable
                     /\ \E more \in Seq(Step) :
                           MovedOn(t, more) /\ Elements(more) = InitialSteps
                     /\ First(t)' = Do("reset", 0, 0)
                  \/ /\ enable' = FALSE
                     /\ UNCHANGED <<out, fd_proc>>
                     /\ \E more \in Seq(Step) :
                           /\ MovedOn(t, more)
                           /\ Elements(more) = {EnableTracing(0), nopipe} \cup data
                     /\ First(t)' = EnableTracing(0)
                  \/ /\ UNCHANGED <<enable, out, fd_proc>>
                     /\ \E more \in Seq(Step) :
                           /\ MovedOn(t, more)
                           /\ Elements(more) = {nopipe} \cup data
                     /\ First(t)' = nopipe
<1>1. StackOK
  BY InvStack DEF Calm
<1>2. OnBottom(t) /\ First(t).op \in {"open", "openinit"}
  BY RunsOnBottom DEF OpenPipe
<1>3. Current(t) = First(t) /\ First(t) \in Step
  BY <1>1, <1>2, Views DEF OnBottom
<1>4. Rank(First(t)) = 17
  BY <1>2, <1>3, Ranks
<1>0. PICK n, z, ns, zs :
         n = Do("nopipe", 0, 0) /\ z = EnableTracing(0) /\ ns = <<n>> /\ zs = <<z>>
  OBVIOUS
<1>5. /\ n \in Step /\ Rank(n) = 5
      /\ z \in Step /\ Rank(z) = 4
  <2>1. n \in Step /\ n.op = "nopipe" /\ z \in Step /\ z.op = "enable" /\ z.id = 0
    BY <1>0, StepTypes DEF Do, EnableTracing, Ops
  <2> QED
    BY <2>1, Ranks
<1>6. PICK d : d = Append(WriteInitialData, EnableTracing(1))
  OBVIOUS
<1>7. /\ d \in Seq(Step) /\ Elements(d) = InitialSteps /\ Ordered(d)
      /\ d # <<>> /\ d[1] = Do("reset", 0, 0)
  BY <1>6, SessionDataOrder
<1>8. \A r \in Step : Rank(r) <= 17 /\ Rank(r) # 3 => \A s \in Later(t) : Before(r, s)
  <2> SUFFICES ASSUME NEW r \in Step, Rank(r) <= 17, Rank(r) # 3
               PROVE  \A s \in Later(t) : Before(r, s)
    OBVIOUS
  <2>1. Rank(r) \in Int
    BY Ranks
  <2>2. \/ Rank(r) < Rank(First(t))
        \/ Rank(r) = Rank(First(t)) /\ Rank(r) \notin {3, 20}
    BY <1>4, <2>1
  <2> QED
    BY <1>1, <1>2, <2>2, BeforeLater
<1>9. PICK g : g = IF First(t).op = "open" THEN <<>> ELSE d
  OBVIOUS
<1>10. /\ g \in Seq(Step) /\ Ordered(g)
       /\ Elements(g) = IF First(t).op = "open" THEN {} ELSE InitialSteps
  BY <1>7, <1>9 DEF Ordered, Elements
<1>11. PICK f : f = ns \o g
  OBVIOUS
<1>12. \/ /\ out' = Append(out, <<>>)
          /\ fd_proc' = Len(out) + 1
          /\ UNCHANGED enable
          /\ Continue(t, d)
       \/ /\ enable' = FALSE
          /\ Continue(t, zs \o f)
          /\ UNCHANGED <<out, fd_proc>>
       \/ /\ Continue(t, f)
          /\ UNCHANGED <<enable, out, fd_proc>>
  BY <1>0, <1>3, <1>6, <1>9, <1>11 DEF OpenPipe
<1>13. \A r \in InitialSteps : r \in Step /\ Rank(r) \in 6 .. 17
  BY InitialStepFacts
<1>14. /\ f \in Seq(Step) /\ Ordered(f) /\ Elements(f) = {n} \cup Elements(g)
       /\ f # <<>> /\ f[1] = n
  <2>1. ns \in Seq(Step) /\ Elements(ns) = {n} /\ Ordered(ns) /\ ns # <<>> /\ ns[1] = n
    BY <1>0, <1>5 DEF Elements, Ordered
  <2>2. \A r \in Elements(ns), s \in Elements(g) : Before(r, s)
    BY <1>5, <1>10, <1>13, <2>1 DEF Before
  <2>3. Ordered(f)
    BY <1>10, <1>11, <2>1, <2>2, OrderedJoin
  <2>4. f \in Seq(Step) /\ Elements(f) = {n} \cup Elements(g)
    <3>1. g \in Seq(Step) /\ ns \in Seq(Step) /\ Elements(ns) = {n}
      BY <1>10, <2>1
    <3>2. f \in Seq(Step) /\ Elements(f) = Elements(ns) \cup Elements(g)
      BY <1>11, <3>1, JoinedSteps
    <3> QED
      BY <3>1, <3>2
  <2>5. f # <<>> /\ f[1] = n
    BY <1>10, <1>11, <2>1, JoinedSteps
  <2> QED
    BY <2>3, <2>4, <2>5
<1>15. ASSUME Continue(t, d)
       PROVE  MovedOn(t, d) /\ First(t)' = Do("reset", 0, 0)
  <2>1. \A r \in Elements(d), s \in Later(t) : Before(r, s)
    BY <1>7, <1>8, <1>13
  <2>2. MovedOn(t, d)
    BY <1>1, <1>2, <1>7, <1>15, <2>1, ContinueView DEF OnBottom
  <2> QED
    BY <1>7, <2>2 DEF MovedOn
<1>16. ASSUME Continue(t, f)
       PROVE  MovedOn(t, f) /\ First(t)' = n
  <2>1. \A r \in Elements(f), s \in Later(t) : Before(r, s)
    BY <1>5, <1>8, <1>10, <1>13, <1>14
  <2>2. MovedOn(t, f)
    BY <1>1, <1>2, <1>14, <1>16, <2>1, ContinueView DEF OnBottom
  <2> QED
    BY <1>14, <2>2 DEF MovedOn
<1>17. ASSUME NEW x, x = zs \o f, Continue(t, x)
       PROVE  /\ x \in Seq(Step) /\ Elements(x) = {z, n} \cup Elements(g)
              /\ MovedOn(t, x) /\ First(t)' = z
  <2>1. zs \in Seq(Step) /\ Elements(zs) = {z} /\ Ordered(zs) /\ zs # <<>> /\ zs[1] = z
    BY <1>0, <1>5 DEF Elements, Ordered
  <2>2. \A r \in Elements(zs), s \in Elements(f) : Before(r, s)
    <3>1. \A s \in Elements(f) : s = n \/ s \in InitialSteps
      BY <1>10, <1>14
    <3>2. \A s \in Elements(f) : Rank(s) \in Int /\ Rank(s) >= 5
      BY <1>5, <1>13, <3>1
    <3> QED
      BY <1>5, <2>1, <3>2 DEF Before
  <2>4. Ordered(x)
    BY <1>14, <1>17, <2>1, <2>2, OrderedJoin
  <2>5. x \in Seq(Step) /\ Elements(x) = {z} \cup Elements(f)
    <3>1. f \in Seq(Step) /\ zs \in Seq(Step) /\ Elements(zs) = {z}
      BY <1>14, <2>1
    <3>2. x \in Seq(Step) /\ Elements(x) = Elements(zs) \cup Elements(f)
      BY <1>17, <3>1, JoinedSteps
    <3> QED
      BY <3>1, <3>2
  <2>6. x # <<>> /\ x[1] = z
    BY <1>14, <1>17, <2>1, JoinedSteps
  <2>7. \A r \in Elements(x), s \in Later(t) : Before(r, s)
    <3>1. \A r \in Elements(x) : r \in Step /\ Rank(r) \in Int /\ Rank(r) <= 17 /\ Rank(r) # 3
      <4>1. \A s \in Elements(x) : s = z \/ s = n \/ s \in InitialSteps
        BY <1>10, <1>14, <2>5
      <4> QED
        BY <1>5, <1>13, <4>1
    <3> QED
      BY <1>8, <3>1
  <2>8. MovedOn(t, x)
    BY <1>1, <1>2, <1>17, <2>4, <2>5, <2>7, ContinueView DEF OnBottom
  <2>9. Elements(x) = {z, n} \cup Elements(g)
    BY <1>14, <2>5
  <2> QED
    BY <2>5, <2>6, <2>8, <2>9 DEF MovedOn
<1>18. CASE /\ out' = Append(out, <<>>)
            /\ fd_proc' = Len(out) + 1
            /\ UNCHANGED enable
            /\ Continue(t, d)
  BY <1>2, <1>7, <1>15, <1>18
<1>19. CASE /\ enable' = FALSE
            /\ Continue(t, zs \o f)
            /\ UNCHANGED <<out, fd_proc>>
  <2>1. PICK x : x = zs \o f
    OBVIOUS
  <2>2. /\ x \in Seq(Step) /\ Elements(x) = {z, n} \cup Elements(g)
        /\ MovedOn(t, x) /\ First(t)' = z
    BY <1>17, <1>19, <2>1
  <2> QED
    BY <1>2, <1>10, <1>19, <2>2, <1>0
<1>20. CASE /\ Continue(t, f)
            /\ UNCHANGED <<enable, out, fd_proc>>
  BY <1>2, <1>10, <1>14, <1>16, <1>20, <1>0
<1> QED
  BY <1>12, <1>18, <1>19, <1>20

(* What the activation above thread t's call has to do after this step.    *)
InnerLater(t) == Elements(Tail(stack[t][2].todo))

LEMMA InnerContinue ==
    ASSUME StackOK, NEW t \in Threads, OnInner(t), NEW more \in Seq(Step),
           Continue(t, more), stack[t][2].why = "call"
    PROVE  /\ Others(t) /\ ~Idle(t)' /\ stack'[t][1] = stack[t][1]
           /\ Inner(t)' = Elements(more) \cup InnerLater(t)
           /\ Inner(t) = {Current(t)} \cup InnerLater(t)
           /\ Len(stack'[t]) \in {1, 2}
           /\ Len(stack'[t]) = 2 => /\ stack'[t][2].at = "start"
                                    /\ stack'[t][2].why = "call"
<1>1. /\ Len(stack[t]) = 2 /\ Top(t) = stack[t][2] /\ stack[t] # <<>>
      /\ stack[t] \in Seq(Activation)
  BY DEF OnInner, StackOK, Idle
<1>2. PICK old : old = Tail(stack[t][2].todo)
  OBVIOUS
<1>3. /\ old \in Seq(Step) /\ Elements(old) = InnerLater(t)
      /\ Inner(t) = {Current(t)} \cup InnerLater(t)
  <2>1. stack[t][2].todo \in Seq(Step) /\ stack[t][2].todo # <<>>
    BY <1>1, TopType
  <2>2. Inner(t) = Elements(stack[t][2].todo)
    BY <1>1 DEF Inner
  <2> QED
    BY <1>2, <2>1, <2>2, HeadAndTail DEF InnerLater, OnInner
<1>4. PICK todo : todo = more \o old
  OBVIOUS
<1>5. todo \in Seq(Step) /\ Elements(todo) = Elements(more) \cup InnerLater(t)
  <2>1. todo \in Seq(Step) /\ Elements(todo) = Elements(more) \cup Elements(old)
    BY <1>3, <1>4, JoinedSteps
  <2> QED
    BY <1>3, <2>1
<1>6. todo = <<>> <=> Elements(todo) = {}
  BY <1>5, JoinedElements
<1>7. PICK a : a = [todo |-> todo, at |-> "start", ptr |-> stack[t][2].ptr,
                    why |-> stack[t][2].why]
  OBVIOUS
<1>8. a.todo = todo /\ a.at = "start" /\ a.why = "call"
  BY <1>7
<1>9. stack' = [stack EXCEPT ![t] = WithTop(stack[t], a)]
  BY <1>1, <1>2, <1>4, <1>7 DEF Continue
<1>10. Others(t) /\ stack'[t] = WithTop(stack[t], a)
  BY <1>9 DEF Others, StackOK
<1>11. CASE todo = <<>>
  <2>1. stack'[t] = SubSeq(stack[t], 1, 1)
    BY <1>1, <1>8, <1>10, <1>11 DEF WithTop
  <2>2. Len(stack'[t]) = 1 /\ stack'[t][1] = stack[t][1] /\ stack'[t] # <<>>
    BY <1>1, <2>1
  <2>3. Inner(t)' = {} /\ ~Idle(t)'
    BY <2>2 DEF Inner, Idle
  <2> QED
    BY <1>3, <1>5, <1>6, <1>10, <1>11, <2>2, <2>3
<1>12. CASE todo # <<>>
  <2>1. stack'[t] = [stack[t] EXCEPT ![2] = a]
    BY <1>1, <1>8, <1>10, <1>12 DEF WithTop
  <2>2. /\ Len(stack'[t]) = 2 /\ stack'[t][1] = stack[t][1] /\ stack'[t] # <<>>
        /\ stack'[t][2] = a
    BY <1>1, <2>1
  <2>3. Inner(t)' = Elements(todo) /\ ~Idle(t)'
    BY <1>8, <2>2 DEF Inner, Idle
  <2> QED
    BY <1>3, <1>5, <1>8, <1>10, <2>2, <2>3
<1> QED
  BY <1>11, <1>12

(* The two attachments of module m and the step of enable_tracing that     *)
(* comes back to it.                                                       *)
Attach(m, s) == {Packet("AT", 2 * m, 0), Packet("AT", 2 * m + 1, 0), [s EXCEPT !.kind = "AT"]}
Onward(s) == [s EXCEPT !.n = s.n + 1, !.kind = "HS"]

LEMMA AttachFacts ==
    ASSUME NEW m \in Nat, NEW s \in Step, s.op = "enable"
    PROVE  LET more == <<Packet("AT", 2 * m, 0), Packet("AT", 2 * m + 1, 0),
                         [s EXCEPT !.kind = "AT"]>>
           IN  /\ more \in Seq(Step) /\ Elements(more) = Attach(m, s)
               /\ s.id = 0 => Ordered(more)
               /\ more # <<>> /\ more[1] = Packet("AT", 2 * m, 0)
               /\ \A r \in Attach(m, s) :
                     /\ r \in Step
                     /\ s.id = 0 => Rank(r) \in {3, 4} 
                     /\ \/ /\ r.op = "packet" /\ r.kind = "AT" /\ r.n = 0
                           /\ s.id = 0 => Rank(r) = 3
                        \/ /\ r = [s EXCEPT !.kind = "AT"]
                           /\ r.op = "enable" /\ r.id = s.id /\ r.n = s.n
                           /\ s.id = 0 => Rank(r) = 4
               /\ [s EXCEPT !.kind = "AT"] \in Attach(m, s)
<1>1. PICK p, q, r : /\ p = Packet("AT", 2 * m, 0) /\ q = Packet("AT", 2 * m + 1, 0)
                     /\ r = [s EXCEPT !.kind = "AT"]
  OBVIOUS
<1>2. PICK more : more = <<p, q, r>>
  OBVIOUS
<1>3. 2 * m \in Nat /\ 2 * m + 1 \in Nat /\ 2 * m # 2 * m + 1
  OBVIOUS
<1>4. /\ p \in Step /\ q \in Step /\ p.op = "packet" /\ q.op = "packet"
      /\ p.kind = "AT" /\ q.kind = "AT" /\ p.n = 0 /\ q.n = 0 /\ p # q
  <2>1. p \in Step /\ q \in Step
    BY <1>1, <1>3, StepTypes DEF Kinds
  <2>2. p.id = 2 * m /\ q.id = 2 * m + 1
    BY <1>1 DEF Packet
  <2> QED
    BY <1>1, <1>3, <2>1, <2>2 DEF Packet
<1>5. r \in Step /\ r.op = "enable" /\ r.id = s.id /\ r.n = s.n
  BY <1>1 DEF Step, Kinds
<1>6. Rank(p) = 3 /\ Rank(q) = 3 /\ (s.id = 0 => Rank(r) = 4)
  BY <1>4, <1>5, Ranks
<1>7. /\ more \in Seq(Step) /\ Len(more) = 3 /\ DOMAIN more = {1, 2, 3}
      /\ more[1] = p /\ more[2] = q /\ more[3] = r
  BY <1>2, <1>4, <1>5
<1>8. Elements(more) = {p, q, r}
  BY <1>7 DEF Elements
<1>9. s.id = 0 => Ordered(more)
  BY <1>4, <1>6, <1>7 DEF Ordered, Before
<1>10. more # <<>>
  BY <1>2
<1>11. Attach(m, s) = {p, q, r}
  BY <1>1 DEF Attach
<1>12. \A x \in {p, q, r} :
          /\ x \in Step
          /\ s.id = 0 => Rank(x) \in {3, 4} 
          /\ \/ /\ x.op = "packet" /\ x.kind = "AT" /\ x.n = 0
                /\ s.id = 0 => Rank(x) = 3
             \/ /\ x = r
                /\ x.op = "enable" /\ x.id = s.id /\ x.n = s.n
                /\ s.id = 0 => Rank(x) = 4
  BY <1>4, <1>5, <1>6
<1> QED
  BY <1>1, <1>2, <1>7, <1>8, <1>9, <1>10, <1>11, <1>12

LEMMA EnableModuleEffect ==
    ASSUME Calm, NEW t \in Threads, EnableModule(t)
    PROVE  \E s \in Step : \E more \in Seq(Step) :
              /\ s = Current(t) /\ s.op = "enable" /\ s.n >= 1 /\ s.id \in {0, 1}
              /\ \/ /\ OnBottom(t) /\ First(t) = s /\ MovedOn(t, more)
                 \/ /\ OnInner(t) /\ s.id = 0 /\ Others(t) /\ ~Idle(t)'
                    /\ stack'[t][1] = stack[t][1]
                    /\ Inner(t)' = Elements(more) \cup InnerLater(t)
                    /\ Inner(t) = {s} \cup InnerLater(t)
                    /\ Len(stack'[t]) \in {1, 2}
                    /\ Len(stack'[t]) = 2 => /\ stack'[t][2].at = "start"
                                             /\ stack'[t][2].why = "call"
              /\ \/ /\ s.n > modules /\ Elements(more) = {} /\ UNCHANGED moduleOn
                 \/ /\ s.n <= modules /\ s.id = 0 /\ moduleAt[s.n] \in Nat
                    /\ moduleOn[moduleAt[s.n]] /\ s.kind # "AT"
                    /\ Elements(more) = Attach(moduleAt[s.n], s) /\ UNCHANGED moduleOn
                    /\ more[1].op = "packet" /\ more # <<>>
                 \/ /\ s.n <= modules /\ Onward(s) \in Step
                    /\ Elements(more) = {Onward(s)}
                    /\ moduleOn' = [moduleOn EXCEPT ![moduleAt[s.n]] = (s.id = 1)]
                    /\ more # <<>> /\ more[1] = Onward(s)
<1>1. /\ StackOK /\ stack[t] # <<>> /\ Top(t).at = "start" /\ Current(t).op = "enable"
      /\ RegistryTypes /\ Fits(t)
  BY InvStack DEF Calm, EnableModule, Running, Inv, TypeOK, Shape
<1>2. PICK s : s = Current(t)
  OBVIOUS
<1>3. s \in Step /\ s.op = "enable"
  BY <1>1, <1>2, TopType
<1>4. s.n >= 1 /\ s.id \in {0, 1} /\ (OnInner(t) => s.id = 0)
  <2>1. CASE OnBottom(t)
    <3>1. /\ s = First(t) /\ s \in Steps(t) /\ ~Idle(t) /\ Why(t) \in Reasons
          /\ Len(stack[t]) # 2
      BY <1>1, <1>2, <2>1, Views DEF OnBottom
    <3>2. Why(t) # "call"
      BY <1>1, <1>3, <3>1 DEF Fits, OuterFits, CallStep
    <3>3. SoloStep(s)
      BY <1>1, <3>1, <3>2 DEF Fits, OuterFits
    <3> QED
      BY <1>3, <3>1, <3>3 DEF SoloStep, OnInner
  <2>2. CASE OnInner(t)
    BY <1>2, <1>3, <2>2 DEF OnInner, InnerStep, Disables
  <2> QED
    BY <1>1, <2>1, <2>2, WhichActivation
<1>5. PICK m : m = moduleAt[s.n]
  OBVIOUS
<1>6. s.n <= modules => m \in Nat
  BY <1>1, <1>3, <1>4, <1>5, RegistryAssumption DEF RegistryTypes, Step
<1>7. PICK p3 : p3 = <<Packet("AT", 2 * m, 0), Packet("AT", 2 * m + 1, 0),
                       [s EXCEPT !.kind = "AT"]>>
  OBVIOUS
<1>8. PICK p1 : p1 = <<Onward(s)>>
  OBVIOUS
<1>9. \/ s.n > modules /\ Return(t) /\ UNCHANGED moduleOn
      \/ /\ s.n <= modules /\ s.id = 0 /\ Continue(t, p3) /\ UNCHANGED moduleOn
         /\ moduleOn[m] /\ s.kind # "AT"
      \/ /\ s.n <= modules
         /\ moduleOn' = [moduleOn EXCEPT ![m] = (s.id = 1)]
         /\ Continue(t, p1)
  BY <1>1, <1>2, <1>3, <1>4, <1>5, <1>7, <1>8 DEF EnableModule, Onward, RegistryTypes, Step
<1>10. /\ Onward(s) \in Step /\ Onward(s).op = "enable" /\ Onward(s).id = s.id
       /\ p1 \in Seq(Step) /\ Elements(p1) = {Onward(s)} /\ Ordered(p1)
       /\ p1 # <<>> /\ p1[1] = Onward(s)
  <2>1. /\ Onward(s) \in Step /\ Onward(s).op = "enable" /\ Onward(s).id = s.id
    <3>1. s.n \in Nat /\ s.n + 1 \in Nat /\ "HS" \in Kinds
      BY <1>3 DEF Step, Kinds
    <3> QED
      BY <1>3, <3>1 DEF Onward, Step
  <2>2. PICK x : x = Onward(s)
    OBVIOUS
  <2>3. p1 \in Seq(Step) /\ Elements(p1) = {x} /\ Ordered(p1) /\ p1 # <<>> /\ p1[1] = x
    BY <1>8, <2>1, <2>2 DEF Elements, Ordered
  <2> QED
    BY <2>1, <2>2, <2>3
<1>11. ASSUME s.n <= modules
       PROVE  /\ p3 \in Seq(Step) /\ Elements(p3) = Attach(m, s)
              /\ s.id = 0 => Ordered(p3)
              /\ p3 # <<>> /\ p3[1].op = "packet"
              /\ \A r \in Attach(m, s) :
                    /\ r \in Step
                    /\ s.id = 0 => Rank(r) \in {3, 4}
  <2>1. /\ p3 \in Seq(Step) /\ Elements(p3) = Attach(m, s)
        /\ s.id = 0 => Ordered(p3)
        /\ p3 # <<>> /\ p3[1] = Packet("AT", 2 * m, 0)
        /\ \A r \in Attach(m, s) :
              /\ r \in Step
              /\ s.id = 0 => Rank(r) \in {3, 4}
    BY <1>3, <1>6, <1>7, <1>11, AttachFacts
  <2>2. p3[1].op = "packet"
    BY <2>1 DEF Packet
  <2> QED
    BY <2>1, <2>2
<1>12. <<>> \in Seq(Step) /\ Elements(<<>>) = {} /\ Ordered(<<>>)
  BY DEF Elements, Ordered
<1>13. ASSUME NEW more \in Seq(Step), Continue(t, more), Ordered(more),
              \A r \in Elements(more) : r \in Step /\ (Rank(r) = Rank(s) \/ (s.id = 0 /\ Rank(r) = 3))
       PROVE  \/ OnBottom(t) /\ First(t) = s /\ MovedOn(t, more)
              \/ /\ OnInner(t) /\ s.id = 0 /\ Others(t) /\ ~Idle(t)'
                 /\ stack'[t][1] = stack[t][1]
                 /\ Inner(t)' = Elements(more) \cup InnerLater(t)
                 /\ Inner(t) = {s} \cup InnerLater(t)
                 /\ Len(stack'[t]) \in {1, 2}
                 /\ Len(stack'[t]) = 2 => /\ stack'[t][2].at = "start"
                                          /\ stack'[t][2].why = "call"
  <2>1. CASE OnBottom(t)
    <3>1. First(t) = s /\ ~Idle(t) /\ Len(stack[t]) = 1 /\ Ordered(Bottom(t).todo)
      BY <1>2, <2>1 DEF OnBottom
    <3>2. Rank(s) \in {4, 17} /\ (s.id = 0 => Rank(s) = 4)
      BY <1>3, <1>4, Ranks
    <3>3. \A r \in Elements(more), x \in Later(t) : Before(r, x)
      <4> SUFFICES ASSUME NEW r \in Elements(more) PROVE \A x \in Later(t) : Before(r, x)
        OBVIOUS
      <4>1. r \in Step
        BY <1>13
      <4>2. \/ Rank(r) < Rank(First(t))
            \/ Rank(r) = Rank(First(t)) /\ Rank(r) \notin {3, 20}
        BY <1>13, <3>1, <3>2
      <4> QED
        BY <1>1, <2>1, <4>1, <4>2, BeforeLater
    <3>4. MovedOn(t, more)
      BY <1>1, <1>13, <3>1, <3>3, ContinueView
    <3> QED
      BY <2>1, <3>1, <3>4
  <2>2. CASE OnInner(t)
    <3>1. stack[t][2].why = "call"
      BY <1>1, <2>2 DEF OnInner, Fits, InnerFits
    <3> QED
      BY <1>1, <1>2, <1>4, <1>13, <2>2, <3>1, InnerContinue
  <2> QED
    BY <1>1, <2>1, <2>2, WhichActivation
<1> DEFINE Done(more) == 
                 \/ OnBottom(t) /\ First(t) = s /\ MovedOn(t, more)
                 \/ /\ OnInner(t) /\ s.id = 0 /\ Others(t) /\ ~Idle(t)'
                    /\ stack'[t][1] = stack[t][1]
                    /\ Inner(t)' = Elements(more) \cup InnerLater(t)
                    /\ Inner(t) = {s} \cup InnerLater(t)
                    /\ Len(stack'[t]) \in {1, 2}
                    /\ Len(stack'[t]) = 2 => /\ stack'[t][2].at = "start"
                                             /\ stack'[t][2].why = "call"
<1>14. CASE s.n > modules /\ Return(t) /\ UNCHANGED moduleOn
  <2>1. PICK e : e = <<>>
    OBVIOUS
  <2>2. e \in Seq(Step) /\ Elements(e) = {} /\ Ordered(e) /\ Continue(t, e)
    BY <1>12, <1>14, <2>1 DEF Return
  <2>3. Done(e)
    BY <1>13, <2>2
  <2> HIDE DEF Done
  <2>4. s \in Step /\ s = Current(t) /\ s.op = "enable" /\ s.n >= 1 /\ s.id \in {0, 1}
    BY <1>2, <1>3, <1>4
  <2> QED
    BY <1>14, <2>2, <2>3, <2>4 DEF Done
<1>15. CASE /\ s.n <= modules /\ s.id = 0 /\ Continue(t, p3) /\ UNCHANGED moduleOn
            /\ moduleOn[m] /\ s.kind # "AT"
  <2>1. /\ p3 \in Seq(Step) /\ Elements(p3) = Attach(m, s) /\ Ordered(p3)
        /\ p3 # <<>> /\ p3[1].op = "packet"
        /\ \A r \in Attach(m, s) : r \in Step /\ Rank(r) \in {3, 4}
    BY <1>11, <1>15
  <2>2. Rank(s) = 4
    BY <1>3, <1>15, Ranks
  <2>3. \A r \in Elements(p3) : r \in Step /\ (Rank(r) = Rank(s) \/ (s.id = 0 /\ Rank(r) = 3))
    BY <1>15, <2>1, <2>2
  <2>4. Done(p3)
    BY <1>13, <1>15, <2>1, <2>3
  <2> HIDE DEF Done
  <2>5. /\ s \in Step /\ s = Current(t) /\ s.op = "enable" /\ s.n >= 1 /\ s.id \in {0, 1}
        /\ moduleAt[s.n] \in Nat /\ Elements(p3) = Attach(moduleAt[s.n], s)
        /\ moduleOn[moduleAt[s.n]]
    BY <1>2, <1>3, <1>4, <1>5, <1>6, <1>15, <2>1
  <2> QED
    BY <1>15, <2>1, <2>4, <2>5 DEF Done
<1>16. CASE /\ s.n <= modules
            /\ moduleOn' = [moduleOn EXCEPT ![m] = (s.id = 1)]
            /\ Continue(t, p1)
  <2>1. Rank(Onward(s)) = Rank(s)
    BY <1>3, <1>10, Ranks
  <2>2. \A r \in Elements(p1) : r \in Step /\ (Rank(r) = Rank(s) \/ (s.id = 0 /\ Rank(r) = 3))
    BY <1>10, <2>1
  <2>3. Done(p1)
    BY <1>10, <1>13, <1>16, <2>2
  <2> HIDE DEF Done
  <2>4. s \in Step /\ s = Current(t) /\ s.op = "enable" /\ s.n >= 1 /\ s.id \in {0, 1}
    BY <1>2, <1>3, <1>4
  <2>5. moduleOn' = [moduleOn EXCEPT ![moduleAt[s.n]] = (s.id = 1)]
    BY <1>5, <1>16
  <2> QED
    BY <1>10, <1>16, <2>3, <2>4, <2>5 DEF Done
<1> QED
  BY <1>9, <1>14, <1>15, <1>16

(***************************************************************************)
(* The steps that concern the buffer only keep Shape and Control.          *)
(***************************************************************************)

Unswitched == UNCHANGED <<enable, fd_proc, closed, modules, moduleOn, moduleAt,
                          initLock, exited>>

LEMMA SamePlain ==
    ASSUME Calm, NEW t \in Threads, OnBottom(t), SameSteps(t), At(t)' # "fail",
           First(t).op \notin {"clear", "open", "openinit"}, Unswitched, UNCHANGED resources
    PROVE  PlainStep(t)
<1>1. ~Idle(t) /\ Inner(t) = {}
  BY DEF OnBottom
<1>2. initLock # 0
  BY <1>1 DEF Calm, Control, Standing
<1>3. Steps(t)' = Steps(t)
  BY DEF SameSteps
<1>4. Op(t, "flush")' => Op(t, "flush")
  BY <1>3 DEF Op
<1> QED
  BY <1>1, <1>2, <1>3, <1>4 DEF SameSteps, PlainStep, Unswitched

LEMMA MovedPlain ==
    ASSUME Calm, NEW t \in Threads, OnBottom(t), NEW more, MovedOn(t, more),
           First(t).op \in PlainOps, Unswitched,
           \A s \in Elements(more) : s.op \in PlainOps /\ s.op # "flush",
           resources' = resources \/ ~Op(t, "ready")
    PROVE  PlainStep(t)
<1>1. ~Idle(t) /\ Inner(t) = {} /\ StackOK
  BY InvStack DEF OnBottom, Calm
<1>2. initLock # 0
  BY <1>1 DEF Calm, Control, Standing
<1>3. Steps(t) = {First(t)} \cup Later(t)
  BY <1>1, Views
<1>4. Steps(t)' = Elements(more) \cup Later(t)
  BY DEF MovedOn
<1>5. \A s \in Step : s.op \notin PlainOps => (s \in Steps(t)' <=> s \in Steps(t))
  BY <1>3, <1>4
<1>6. Op(t, "flush")' => Op(t, "flush")
  BY <1>3, <1>4 DEF Op
<1>7. First(t).op \notin {"clear", "open", "openinit"}
  BY DEF PlainOps
<1> QED
  BY <1>1, <1>2, <1>5, <1>6, <1>7 DEF MovedOn, PlainStep, Unswitched

LEMMA SameKeeps ==
    ASSUME Calm, StackOK', NEW t \in Threads, OnBottom(t), SameSteps(t), At(t)' # "fail",
           \/ First(t).op = "packet"
           \/ First(t).op = "flush" /\ At(t)' = "rewind",
           Unswitched, UNCHANGED <<resources, calls>>
    PROVE  Shape' /\ Control'
<1>1. PlainStep(t)
  BY SamePlain
<1>2. Shape'
  BY SameShape DEF OnBottom
<1> QED
  BY <1>1, <1>2, ControlKept

LEMMA MovedKeeps ==
    ASSUME Calm, StackOK', NEW t \in Threads, OnBottom(t), NEW more, MovedOn(t, more),
           First(t).op \in PlainOps,
           \A s \in Elements(more) :
              /\ s.op \in PlainOps /\ s.op # "flush"
              /\ IF Why(t) = "call" THEN CallStep(s) ELSE SoloStep(s),
           resources' = resources \/ ~Op(t, "ready"),
           Unswitched, UNCHANGED calls
    PROVE  Shape' /\ Control'
<1>1. PlainStep(t)
  BY MovedPlain
<1>2. Shape'
  BY MovedShape DEF OnBottom
<1> QED
  BY <1>1, <1>2, ControlKept

LEMMA SkippedKeeps ==
    ASSUME Calm, StackOK', NEW t \in Threads, OnBottom(t), Skipped(t),
           First(t).op \in PlainOps, Unswitched, UNCHANGED <<resources, calls>>
    PROVE  Shape' /\ Control'
<1>1. MovedOn(t, <<>>) /\ Elements(<<>>) = {}
  BY DEF Skipped, Elements
<1> QED
  BY <1>1, MovedKeeps

(* The call below stays as it is.                                          *)
LEMMA BelowKept ==
    ASSUME NEW t \in Threads, ~Idle(t), ~Idle(t)', stack'[t][1] = stack[t][1]
    PROVE  /\ Bottom(t)' = Bottom(t) /\ First(t)' = First(t) /\ Later(t)' = Later(t)
           /\ Steps(t)' = Steps(t) /\ At(t)' = At(t) /\ Why(t)' = Why(t)
           /\ Solo(t)' <=> Solo(t)
           /\ \A op : Op(t, op)' <=> Op(t, op)
           /\ OuterFits(t) /\ calls' = calls => OuterFits(t)'
<1>1. /\ Bottom(t)' = Bottom(t) /\ First(t)' = First(t) /\ Later(t)' = Later(t)
      /\ Steps(t)' = Steps(t) /\ At(t)' = At(t) /\ Why(t)' = Why(t)
  BY DEF Bottom, First, Later, Steps, At, Why
<1>2. Solo(t)' <=> Solo(t)
  BY <1>1 DEF Solo
<1>3. \A op : Op(t, op)' <=> Op(t, op)
  BY <1>1 DEF Op
<1>4. OuterFits(t) /\ calls' = calls => OuterFits(t)'
  BY <1>1 DEF OuterFits, CallStep
<1> QED
  BY <1>1, <1>2, <1>3, <1>4

(* A step of the enable_tracing above a call keeps Shape.                  *)
LEMMA InnerShape ==
    ASSUME Calm, NEW t \in Threads, OnInner(t), Others(t), ~Idle(t)', UNCHANGED calls,
           stack'[t][1] = stack[t][1], Len(stack'[t]) \in {1, 2},
           Len(stack'[t]) = 2 =>
              /\ stack'[t][2].why = "call"
              /\ \/ stack'[t][2].at = "start"
                 \/ stack'[t][2].at = "lock" /\ Head(stack'[t][2].todo).op = "packet"
              /\ \A s \in Inner(t)' :
                    InnerStep(s) /\ (s.op = "packet" => First(t).op = "packet")
    PROVE  Shape'
<1>1. ~Idle(t) /\ Shape /\ calls \in Nat /\ Fits(t) /\ At(t) = "fail"
  BY DEF OnInner, Calm, Inv, TypeOK, LifeTypes, Shape
<1>2. /\ At(t)' = "fail" /\ First(t)' = First(t) /\ Why(t)' = Why(t)
      /\ OuterFits(t)'
  BY <1>1, BelowKept DEF Fits
<1>3. InnerFits(t)'
  BY <1>2 DEF InnerFits, InnerStep, Disables
<1>4. Fits(t)'
  <2>1. ASSUME NEW n, n \in {1, 2} PROVE n <= 2
    BY <2>1
  <2>2. Len(stack'[t]) <= 2
    BY <2>1
  <2> QED
    BY <1>2, <1>3, <2>2 DEF Fits
<1>5. \A u \in Threads : u # t => Fits(u)'
  BY <1>1, OthersFit
<1>6. Apart'
  BY <1>1, <1>2, ApartKept DEF Shape
<1> QED
  BY <1>4, <1>5, <1>6 DEF Shape

LEMMA CheckEnableCalm ==
    ASSUME Calm, StackOK', NEW t \in Threads, CheckEnable(t)
    PROVE  Shape' /\ Control'
<1>1. Unswitched /\ UNCHANGED <<resources, calls>>
  BY DEF CheckEnable, Unswitched, pipeVars, registryVars, lifeVars
<1>2. CASE OnBottom(t) /\ First(t).op = "packet" /\ Skipped(t)
  BY <1>1, <1>2, SkippedKeeps DEF PlainOps
<1>3. CASE OnBottom(t) /\ First(t).op = "packet" /\ SameSteps(t) /\ At(t)' = "lock"
  BY <1>1, <1>3, SameKeeps
<1>4. CASE /\ OnInner(t) /\ Others(t) /\ Len(stack'[t]) = 2
           /\ stack'[t][1] = stack[t][1]
           /\ stack'[t][2] = [stack[t][2] EXCEPT !.at = "lock"]
           /\ Current(t).op = "packet"
  <2>1. /\ ~Idle(t) /\ Len(stack[t]) = 2 /\ At(t) = "fail" /\ Shape /\ StackOK
        /\ Current(t) = Head(stack[t][2].todo) /\ Top(t) = stack[t][2]
        /\ Top(t) \in Activation /\ Fits(t)
    BY <1>4, InvStack, TopType DEF OnInner, Calm, Idle, Shape
  <2>2. /\ stack'[t][2].todo = stack[t][2].todo
        /\ stack'[t][2].at = "lock" /\ stack'[t][2].why = stack[t][2].why
    BY <1>4, <2>1 DEF Activation
  <2>3. ~Idle(t)'
    BY <1>4 DEF Idle
  <2>4. Inner(t)' = Inner(t)
    BY <1>4, <2>1, <2>2 DEF Inner
  <2>5. Shape'
    BY <1>1, <1>4, <2>1, <2>2, <2>3, <2>4, InnerShape DEF Fits, InnerFits
  <2>6. /\ Steps(t)' = Steps(t) /\ At(t)' = At(t) /\ Why(t)' = Why(t)
        /\ \A op : Op(t, op)' <=> Op(t, op)
    BY <1>4, <2>1, <2>3, BelowKept
  <2>7. OuterFits(t)
    BY <2>1 DEF Fits
  <2>8. First(t).op \in {"packet", "flush"}
    BY <2>1, <2>7 DEF OuterFits
  <2>9. initLock # 0
    BY <2>1 DEF Calm, Control, Standing
  <2>10. PlainStep(t)
    BY <1>1, <1>4, <2>1, <2>3, <2>4, <2>6, <2>8, <2>9 DEF PlainStep, Unswitched
  <2> QED
    BY <2>5, <2>10, ControlKept
<1> QED
  BY <1>2, <1>3, <1>4, CheckEnableEffect

LEMMA LockCalm ==
    ASSUME Calm, StackOK', NEW t \in Threads, Lock(t)
    PROVE  Shape' /\ Control'
<1>1. Unswitched /\ UNCHANGED <<resources, calls>>
  BY DEF Lock, LockAndFill, Unswitched, pipeVars, registryVars, lifeVars
<1> QED
  BY <1>1, LockEffect, SameKeeps

LEMMA UnlockCalm ==
    ASSUME Calm, StackOK', NEW t \in Threads, Unlock(t)
    PROVE  Shape' /\ Control'
<1>1. Unswitched /\ UNCHANGED <<resources, calls>>
  BY DEF Unlock, Unswitched, pipeVars, registryVars, lifeVars
<1>2. /\ OnBottom(t) /\ First(t).op = "packet"
      /\ Skipped(t) \/ (SameSteps(t) /\ At(t)' # "fail")
  BY UnlockEffect
<1> QED
  BY <1>1, <1>2, SameKeeps, SkippedKeeps DEF PlainOps

LEMMA CopyCellCalm ==
    ASSUME Calm, StackOK', NEW t \in Threads, CopyCell(t)
    PROVE  Shape' /\ Control'
<1>1. Unswitched /\ UNCHANGED <<resources, calls>>
  BY DEF CopyCell, Unswitched, pipeVars, registryVars, lifeVars
<1> QED
  BY <1>1, CopyCellEffect, SameKeeps

LEMMA ReleaseCalm ==
    ASSUME Calm, StackOK', NEW t \in Threads, Release(t)
    PROVE  Shape' /\ Control'
<1>1. Unswitched /\ UNCHANGED <<resources, calls>>
  BY DEF Release, Unswitched, pipeVars, registryVars, lifeVars
<1> QED
  BY <1>1, ReleaseEffect, SkippedKeeps DEF PlainOps

LEMMA WriteSentCalm ==
    ASSUME Calm, StackOK', NEW t \in Threads, WriteSent(t)
    PROVE  Shape' /\ Control'
<1>1. Unswitched /\ UNCHANGED <<resources, calls>>
  BY DEF WriteSent, Unswitched, registryVars, lifeVars
<1> QED
  BY <1>1, WriteSentEffect, SameKeeps

LEMMA RewindCalm ==
    ASSUME Calm, StackOK', NEW t \in Threads, Rewind(t)
    PROVE  Shape' /\ Control'
<1>1. Unswitched /\ UNCHANGED <<resources, calls>>
  BY DEF Rewind, Unswitched, pipeVars, registryVars, lifeVars
<1>2. /\ OnBottom(t)
      /\ \/ First(t).op = "flush" /\ Skipped(t)
         \/ First(t).op = "packet" /\ SameSteps(t) /\ At(t)' # "fail"
  BY RewindEffect
<1> QED
  BY <1>1, <1>2, SameKeeps, SkippedKeeps DEF PlainOps

LEMMA ResetCalm ==
    ASSUME Calm, StackOK', NEW t \in Threads, Reset(t)
    PROVE  Shape' /\ Control'
<1>1. Unswitched /\ UNCHANGED <<resources, calls>>
  BY DEF Reset, Unswitched, pipeVars, registryVars, lifeVars
<1> QED
  BY <1>1, ReturnEffects, SkippedKeeps DEF PlainOps

LEMMA StoreHeapInfoCalm ==
    ASSUME Calm, StackOK', NEW t \in Threads, StoreHeapInfo(t)
    PROVE  Shape' /\ Control'
<1>1. Unswitched /\ UNCHANGED <<resources, calls>>
  BY DEF StoreHeapInfo, Unswitched, pipeVars, registryVars, lifeVars
<1> QED
  BY <1>1, ReturnEffects, SkippedKeeps DEF PlainOps

(* A thread whose next step is none of a call is not in one.               *)
LEMMA SoloFirst ==
    ASSUME Calm, NEW t \in Threads, ~Idle(t), First(t).op \notin {"packet", "store"}
    PROVE  Solo(t) /\ Why(t) # "call" /\ \A s \in Steps(t) : SoloStep(s)
<1>1. Fits(t) /\ First(t) \in Steps(t)
  BY InvStack, Views DEF Calm, Shape
<1> QED
  BY <1>1 DEF Fits, OuterFits, CallStep, Solo

LEMMA WriteRegistriesCalm ==
    ASSUME Calm, StackOK', NEW t \in Threads, WriteRegistries(t)
    PROVE  Shape' /\ Control'
<1>1. Unswitched /\ UNCHANGED <<resources, calls>>
  BY DEF WriteRegistries, Unswitched, pipeVars, registryVars, lifeVars
<1>2. OnBottom(t) /\ First(t).op \in {"modules", "resources"} /\ ~Idle(t)
  BY WriteRegistriesEffect DEF OnBottom
<1>3. Why(t) # "call" /\ First(t) \in Step /\ SoloStep(First(t))
  BY <1>2, InvStack, Views, SoloFirst DEF Calm
<1>4. CASE Skipped(t)
  BY <1>1, <1>2, <1>4, SkippedKeeps DEF PlainOps
<1>5. CASE ~Skipped(t)
  <2>1. PICK kind, p, q :
           /\ kind \in {"MI", "RR"} /\ p = Packet(kind, First(t).n, 0)
           /\ q = [First(t) EXCEPT !.n = First(t).n + 1]
           /\ q \in Step /\ MovedOn(t, <<p, q>>)
    BY <1>5, WriteRegistriesEffect
  <2>2. p.op = "packet" /\ p.kind \in {"MI", "RR"} /\ p.n = 0
    BY <2>1 DEF Packet
  <2>3. q.op = First(t).op /\ q.n = First(t).n + 1 /\ First(t).n \in Nat
    BY <1>3, <2>1 DEF Step
  <2>4. SoloStep(p) /\ SoloStep(q)
    BY <1>2, <2>2, <2>3 DEF SoloStep
  <2>5. Elements(<<p, q>>) = {p, q}
    BY DEF Elements
  <2>6. PICK more : more = <<p, q>>
    OBVIOUS
  <2>7. /\ MovedOn(t, more)
        /\ \A s \in Elements(more) : s.op \in PlainOps /\ s.op # "flush" /\ SoloStep(s)
    BY <1>2, <2>1, <2>2, <2>3, <2>4, <2>5, <2>6 DEF PlainOps
  <2> QED
    BY <1>1, <1>2, <1>3, <2>7, MovedKeeps DEF PlainOps
<1> QED
  BY <1>4, <1>5

LEMMA RankLater ==
    ASSUME Calm, NEW t \in Threads, ~Idle(t)
    PROVE  /\ Rank(First(t)) \in Int
           /\ \A s \in Later(t) :
                 /\ Rank(s) \in Int
                 /\ \/ Rank(First(t)) < Rank(s)
                    \/ First(t).op = "resource" /\ s.op = "resource"
                    \/ Rank(First(t)) = 3 /\ Rank(s) = 3
<1>1. StackOK /\ Fits(t)
  BY InvStack DEF Calm, Shape
<1>2. \A s \in Later(t) : Before(First(t), s)
  BY <1>1, FirstIsBefore DEF Fits, OuterFits
<1>3. First(t) \in Step /\ Later(t) \subseteq Step
  BY <1>1, Views
<1>4. \A s \in Step : Rank(s) \in Int
  BY Ranks
<1> QED
  BY <1>2, <1>3, <1>4 DEF Before

(* The first step is the only one of its kind and those of a lower rank    *)
(* are over.                                                               *)
LEMMA StepsLeft ==
    ASSUME Calm, NEW t \in Threads, ~Idle(t), NEW s \in Steps(t),
           First(t).op # "resource", Rank(First(t)) # 3
    PROVE  s \in Step /\ Rank(s) \in Int /\ (s = First(t) \/ Rank(s) > Rank(First(t)))
<1>1. Steps(t) = {First(t)} \cup Later(t) /\ s \in Step
  BY InvStack, Views DEF Calm
<1>2. Rank(s) \in Int
  BY <1>1, Ranks
<1> QED
  BY <1>1, <1>2, RankLater

LEMMA HeapInfoCalm ==
    ASSUME Calm, StackOK', NEW t \in Threads, HeapInfo(t)
    PROVE  Shape' /\ Control'
<1>1. Unswitched /\ UNCHANGED <<resources, calls>>
  BY DEF HeapInfo, Unswitched, pipeVars, registryVars, lifeVars
<1>2. OnBottom(t) /\ First(t).op = "heapinfo" /\ ~Idle(t)
  BY HeapInfoEffect DEF OnBottom
<1>3. Why(t) # "call"
  BY <1>2, SoloFirst
<1>4. CASE Skipped(t)
  BY <1>1, <1>2, <1>4, SkippedKeeps DEF PlainOps
<1>5. CASE ~Skipped(t)
  <2>1. PICK p, more : p = Packet("HI", 0, 0) /\ more = <<p>>
    OBVIOUS
  <2>2. MovedOn(t, more) /\ p.op = "packet" /\ p.kind = "HI" /\ p.n = 0
    BY <1>5, <2>1, HeapInfoEffect DEF Packet
  <2>3. Elements(more) = {p}
    BY <2>1 DEF Elements
  <2>4. \A s \in Elements(more) : s.op \in PlainOps /\ s.op # "flush" /\ SoloStep(s)
    BY <2>2, <2>3 DEF PlainOps, SoloStep
  <2> QED
    BY <1>1, <1>2, <1>3, <2>2, <2>4, MovedKeeps DEF PlainOps
<1> QED
  BY <1>4, <1>5

LEMMA RegisterResourceCalm ==
    ASSUME Calm, StackOK', NEW t \in Threads, RegisterResource(t)
    PROVE  Shape' /\ Control'
<1>1. Unswitched /\ UNCHANGED calls
  BY DEF RegisterResource, Unswitched, pipeVars, lifeVars
<1>2. OnBottom(t) /\ First(t).op = "resource" /\ ~Idle(t)
  BY RegisterResourceEffect DEF OnBottom
<1>3. Why(t) # "call" /\ First(t) \in Step /\ Steps(t) = {First(t)} \cup Later(t)
      /\ Later(t) \subseteq Step
  BY <1>2, SoloFirst, InvStack, Views DEF Calm
<1>4. ~Op(t, "ready")
  <2> SUFFICES ASSUME NEW s \in Steps(t), s.op = "ready" PROVE FALSE
    BY DEF Op
  <2>1. s \in Later(t) /\ s \in Step
    BY <1>2, <1>3
  <2>2. Rank(s) = 18 /\ Rank(First(t)) = 20
    BY <1>2, <1>3, <2>1, Ranks
  <2> QED
    BY <1>2, <2>1, <2>2, RankLater
<1>5. CASE Skipped(t)
  <2>1. MovedOn(t, <<>>) /\ Elements(<<>>) = {}
    BY <1>5 DEF Skipped, Elements
  <2> QED
    BY <1>1, <1>2, <1>4, <2>1, MovedKeeps DEF PlainOps
<1>6. CASE ~Skipped(t)
  <2>1. PICK p, more : p = Packet("RR", resources + 1, 0) /\ more = <<p>>
    OBVIOUS
  <2>2. MovedOn(t, more) /\ p.op = "packet" /\ p.kind = "RR" /\ p.n = 0
    BY <1>6, <2>1, RegisterResourceEffect DEF Packet
  <2>3. Elements(more) = {p}
    BY <2>1 DEF Elements
  <2>4. \A s \in Elements(more) : s.op \in PlainOps /\ s.op # "flush" /\ SoloStep(s)
    BY <2>2, <2>3 DEF PlainOps, SoloStep
  <2> QED
    BY <1>1, <1>2, <1>3, <1>4, <2>2, <2>4, MovedKeeps DEF PlainOps
<1> QED
  BY <1>5, <1>6

(* A thread enters the library with a call.                                *)
LEMMA CallKeeps ==
    ASSUME Calm, StackOK', Quiescent, NEW t \in Threads, MayEnter(t),
           NEW todo \in Seq(Step), Enter(t, todo, "call"), Ordered(todo),
           \A s \in Elements(todo) : CallStep(s)' /\ s.op \in {"packet", "store"},
           calls' = calls + 1, Unswitched, UNCHANGED resources
    PROVE  Shape' /\ Control'
<1>1. StackOK /\ calls \in Nat /\ Idle(t) /\ initLock # 0 /\ ~exited
  BY InvStack DEF Calm, Inv, TypeOK, LifeTypes, MayEnter
<1>2. \A u \in Threads : ~Solo(u)
  <2> SUFFICES ASSUME NEW u \in Threads, ~Idle(u) PROVE Why(u) = "call"
    BY IdleViews DEF Solo
  <2>1. 1 \in DOMAIN stack[u]
    <3>1. stack[u] \in Seq(Activation) /\ stack[u] # <<>>
      BY <1>1 DEF StackOK, Idle
    <3> QED
      BY <3>1
  <2>2. \A i \in 1 .. 2 : i \in DOMAIN stack[u] => stack[u][i].why = "call"
    BY DEF MayEnter
  <2> QED
    BY <2>1, <2>2 DEF Why
<1>3. "call" \in Reasons
  BY DEF Reasons
<1>4. calls' \in Nat /\ calls <= calls'
  BY <1>1
<1>5. Shape'
  BY <1>1, <1>2, <1>3, <1>4, EnterShape
<1>6. /\ Others(t) /\ Steps(t)' = Elements(todo) /\ At(t)' = "start" /\ Inner(t)' = {}
      /\ Why(t)' = "call"
  BY <1>1, <1>3, EnterView
<1>7. Steps(t) = {} /\ Why(t) = "call" /\ Inner(t) = {}
  BY <1>1, IdleViews
<1>8. \A s \in Step : s.op \notin PlainOps => (s \in Steps(t)' <=> s \in Steps(t))
  BY <1>6, <1>7 DEF PlainOps
<1>9. ~Op(t, "flush")'
  BY <1>6 DEF Op
<1>10. PlainStep(t)
  BY <1>1, <1>6, <1>7, <1>8, <1>9 DEF PlainStep, Unswitched
<1> QED
  BY <1>5, <1>10, ControlKept

LEMMA FunctionCallCalm ==
    ASSUME Calm, StackOK', Quiescent, NEW t \in Threads, NEW m, NEW type,
           FunctionCall(t, m, type)
    PROVE  Shape' /\ Control'
<1>1. MayEnter(t) /\ calls' = calls + 1 /\ Unswitched /\ UNCHANGED resources
  BY DEF FunctionCall, Unswitched, pipeVars, registryVars, lifeVars
<1>2. calls \in Nat /\ resources \in Nat
  BY RegistryAssumption DEF Calm, Inv, TypeOK, LifeTypes, RegistryTypes
<1>3. IdOf(type) \in Nat
  BY <1>2 DEF IdOf
<1>4. PICK p, q : p = Packet("FC", IdOf(type), calls + 1) /\ q = Do("store", 0, 0)
  OBVIOUS
<1>5. p \in Step /\ p.op = "packet" /\ p.kind = "FC" /\ p.n = calls + 1
  <2>1. calls + 1 \in Nat
    BY <1>2
  <2>2. p \in Step
    BY <1>3, <1>4, <2>1, StepTypes DEF Kinds
  <2> QED
    BY <1>4, <2>2 DEF Packet
<1>6. q \in Step /\ q.op = "store"
  BY <1>4, StepTypes DEF Do, Ops
<1>7. PICK a, b, todo : /\ a = <<p>> /\ b = (IF StoreHeap THEN <<q>> ELSE <<>>)
                       /\ todo = a \o b
  OBVIOUS
<1>8. Enter(t, todo, "call")
  BY <1>4, <1>7 DEF FunctionCall
<1>9. a \in Seq(Step) /\ Elements(a) = {p} /\ Ordered(a)
  <2>1. a = <<p>> /\ p \in Step
    BY <1>5, <1>7
  <2> QED
    BY <2>1 DEF Elements, Ordered
<1>10. b \in Seq(Step) /\ Elements(b) \subseteq {q} /\ Ordered(b)
  <2>1. CASE b = <<q>>
    BY <1>6, <2>1 DEF Elements, Ordered
  <2>2. CASE b = <<>>
    BY <2>2 DEF Elements, Ordered
  <2> QED
    BY <1>7, <2>1, <2>2
<1>11. todo \in Seq(Step) /\ Ordered(todo) /\ Elements(todo) \subseteq {p, q}
  <2>1. Rank(p) = 0 /\ Rank(q) = 23
    BY <1>5, <1>6, Ranks
  <2>2. \A r \in Elements(a), s \in Elements(b) : Before(r, s)
    BY <1>9, <1>10, <2>1 DEF Before
  <2>3. Ordered(todo)
    BY <1>7, <1>9, <1>10, <2>2, OrderedJoin
  <2>4. todo \in Seq(Step) /\ Elements(todo) = Elements(a) \cup Elements(b)
    BY <1>7, <1>9, <1>10, JoinedSteps
  <2> QED
    BY <1>9, <1>10, <2>3, <2>4
<1>12. calls + 1 \in 1 .. calls'
  BY <1>1, <1>2
<1>13. CallStep(p)' /\ CallStep(q)'
  BY <1>5, <1>6, <1>12 DEF CallStep
<1>14. \A s \in Elements(todo) : CallStep(s)' /\ s.op \in {"packet", "store"}
  BY <1>5, <1>6, <1>11, <1>13
<1> QED
  BY <1>1, <1>8, <1>11, <1>14, CallKeeps

LEMMA OneCall ==
    ASSUME Calm, StackOK', Quiescent, NEW t \in Threads, MayEnter(t),
           NEW kind \in {"NL", "CR"}, NEW id \in {0, 2}, kind = "NL" => id = 2,
           Enter(t, <<Packet(kind, id, calls + 1)>>, "call"),
           calls' = calls + 1, Unswitched, UNCHANGED resources
    PROVE  Shape' /\ Control'
<1>1. calls \in Nat
  BY DEF Calm, Inv, TypeOK, LifeTypes
<1>2. PICK p, todo : p = Packet(kind, id, calls + 1) /\ todo = <<p>>
  OBVIOUS
<1>3. p \in Step /\ p.op = "packet" /\ p.kind = kind /\ p.n = calls + 1 /\ p.id = id
  <2>1. calls + 1 \in Nat /\ id \in Nat /\ kind \in Kinds
    BY <1>1 DEF Kinds
  <2>2. p \in Step
    BY <1>2, <2>1, StepTypes
  <2> QED
    BY <1>2, <2>2 DEF Packet
<1>4. todo \in Seq(Step) /\ Ordered(todo) /\ Elements(todo) = {p}
  BY <1>2, <1>3 DEF Ordered, Elements
<1>5. calls + 1 \in 1 .. calls'
  BY <1>1
<1>6. \A s \in Elements(todo) : CallStep(s)' /\ s.op \in {"packet", "store"}
  BY <1>3, <1>4, <1>5 DEF CallStep
<1>7. Enter(t, todo, "call")
  BY <1>2
<1> QED
  BY <1>4, <1>6, <1>7, CallKeeps

LEMMA DlopenCalm ==
    ASSUME Calm, StackOK', Quiescent, NEW t \in Threads, Dlopen(t)
    PROVE  Shape' /\ Control'
<1>1. MayEnter(t) /\ calls' = calls + 1 /\ Unswitched /\ UNCHANGED resources
  BY DEF Dlopen, Unswitched, pipeVars, registryVars, lifeVars
<1>2. Enter(t, <<Packet("NL", 2, calls + 1)>>, "call")
  BY DEF Dlopen
<1> QED
  BY <1>1, <1>2, OneCall

LEMMA CreateContextCalm ==
    ASSUME Calm, StackOK', Quiescent, NEW t \in Threads, CreateContext(t)
    PROVE  Shape' /\ Control'
<1>1. MayEnter(t) /\ calls' = calls + 1 /\ Unswitched /\ UNCHANGED resources
  BY DEF CreateContext, Unswitched, pipeVars, registryVars, lifeVars
<1>2. Enter(t, <<Packet("CR", 0, calls + 1)>>, "call")
  BY DEF CreateContext
<1> QED
  BY <1>1, <1>2, OneCall

(***************************************************************************)
(* The steps of initialization, of the signal handler and of the exit      *)
(* handler, which a thread takes while the others are outside.             *)
(***************************************************************************)

LEMMA IdleDoing ==
    ASSUME NEW u \in Threads, Idle(u)'
    PROVE  Doing(u)'
<1>1. Steps(u)' = {} /\ At(u)' = "start" /\ Why(u)' = "call" /\ Inner(u)' = {}
  BY DEF Steps, At, Why, Inner, Idle
<1>2. \A op : ~Op(u, op)'
  BY <1>1 DEF Op
<1>3. ~Solo(u)'
  BY <1>1 DEF Solo
<1> QED
  BY <1>1, <1>2, <1>3 DEF Doing

LEMMA SoloView ==
    ASSUME Calm, NEW t \in Threads, ~Idle(t), Solo(t)
    PROVE  /\ \A u \in Threads : u # t => Idle(u) /\ Steps(u) = {} /\ Inner(u) = {}
           /\ \A u \in Threads : \A op : Op(u, op) => u = t
           /\ \A u \in Threads : \A s \in Steps(u) : u = t
           /\ Standing /\ Doing(t) /\ StackOK
           /\ initLock \in {1, 2}
<1>1. \A u \in Threads : u # t => Idle(u) /\ Steps(u) = {} /\ Inner(u) = {}
  BY IdleViews DEF Calm, Shape, Apart
<1>2. Standing /\ Doing(t) /\ StackOK /\ initLock \in 0 .. 2
  BY InvStack DEF Calm, Control, Inv, TypeOK, LifeTypes
<1>3. initLock # 0
  BY <1>2 DEF Standing
<1> QED
  BY <1>1, <1>2, <1>3 DEF Op

LEMMA SoloControl ==
    ASSUME Calm, NEW t \in Threads, ~Idle(t), Solo(t), Others(t), Standing', Doing(t)'
    PROVE  Control'
<1>1. \A u \in Threads : u # t => Doing(u)'
  <2> SUFFICES ASSUME NEW u \in Threads, u # t PROVE Doing(u)'
    OBVIOUS
  <2>1. Idle(u)'
    BY SoloView DEF Others, Idle
  <2> QED
    BY <2>1, IdleDoing
<1> QED
  BY <1>1 DEF Control

(* What is left to do after "ready": registration.                         *)
LEMMA ReadyCalm ==
    ASSUME Calm, StackOK', NEW t \in Threads, Ready(t)
    PROVE  Shape' /\ Control'
<1>1. /\ OnBottom(t) /\ First(t).op = "ready" /\ Skipped(t) /\ ~Idle(t)
      /\ initLock' = 2 /\ UNCHANGED <<enable, pipeVars, registryVars, exited, calls>>
  BY ReturnEffects DEF Ready, OnBottom
<1>2. Solo(t) /\ Why(t) # "call"
  BY <1>1, SoloFirst
<1>3. StackOK /\ Standing /\ Doing(t) /\ First(t) \in Step /\ First(t) \in Steps(t)
      /\ Steps(t) = {First(t)} \cup Later(t)
  BY <1>1, <1>2, SoloView, Views
<1>4. Op(t, "ready")
  BY <1>1, <1>3 DEF Op
<1>5. initLock = 1 /\ modules = 0 /\ Why(t) = "init" /\ ~exited
  BY <1>3, <1>4 DEF Doing, Standing
<1>6. \A s \in Later(t) : s.op \in {"register", "resource"}
  <2> SUFFICES ASSUME NEW s \in Later(t) PROVE s.op \in {"register", "resource"}
    OBVIOUS
  <2>1. Rank(First(t)) = 18 /\ s \in Step /\ s \in Steps(t)
    BY <1>1, <1>3, Ranks, InvStack, Views
  <2>2. Rank(s) > 18
    BY <1>1, <2>1, RankLater
  <2>3. s.op \in {"register", "resource", "close", "clear", "store"}
    BY <2>1, <2>2, Ranks DEF Step, Ops
  <2>4. s.op # "store"
    BY <1>1, <2>1, SoloFirst DEF SoloStep
  <2>5. s.op # "clear" /\ s.op # "close"
    BY <1>3, <1>5, <2>1 DEF Doing, Op
  <2> QED
    BY <2>3, <2>4, <2>5
<1>7. /\ Others(t) /\ Steps(t)' = Later(t) /\ At(t)' = "start" /\ Inner(t)' = {}
      /\ ~Idle(t)' => Why(t)' = "init"
      /\ Idle(t)' => Why(t)' = "call"
  BY <1>1, <1>5 DEF Skipped, MovedOn
<1>8. \A s \in Steps(t)' : ~Opens(s) /\ ~Enables(s) /\ ~Disables(s)
  BY <1>6, <1>7 DEF Opens, Enables, Disables
<1>9. \A op : op \notin {"register", "resource"} => ~Op(t, op)'
  BY <1>6, <1>7 DEF Op
<1>10. Doing(t)'
  BY <1>1, <1>5, <1>7, <1>8, <1>9 DEF Doing, Solo
<1>11. Standing'
  <2>1. \A s \in Steps(t) : ~Opens(s)
    BY <1>1, <1>3, <1>6 DEF Opens
  <2>2. ~(fd_proc = 0 /\ enable)
    BY <1>1, <1>2, <1>3, <2>1, SoloView DEF Standing
  <2>3. \A u \in Threads : ~Op(u, "clear")
    <3>1. ~Op(t, "clear")
      BY <1>3, <1>5 DEF Doing
    <3> QED
      BY <1>1, <1>2, <3>1, SoloView
  <2>4. AllOn'
    BY <1>1, <1>5 DEF AllOn, registryVars
  <2>5. AllOff'
    BY <1>1, <1>5 DEF AllOff, registryVars
  <2>6. UNCHANGED <<enable, fd_proc, closed, modules, moduleAt, exited>>
    BY <1>1 DEF pipeVars, registryVars
  <2> QED
    BY <1>1, <1>3, <1>5, <2>2, <2>3, <2>4, <2>5, <2>6 DEF Standing
<1>12. Shape'
  <2>1. MovedOn(t, <<>>) /\ Elements(<<>>) = {}
    BY <1>1 DEF Skipped, Elements
  <2> QED
    BY <1>1, <2>1, MovedShape
<1> QED
  BY <1>1, <1>2, <1>7, <1>10, <1>11, <1>12, SoloControl

LEMMA FirstStays ==
    ASSUME StackOK', NEW t \in Threads, ~Idle(t)'
    PROVE  First(t)' \in Steps(t)' /\ First(t)' \in Step
<1>1. stack'[t] \in Seq(Activation) /\ stack'[t] # <<>>
  BY DEF StackOK, Idle
<1>2. stack'[t][1] \in Activation /\ 1 \in DOMAIN stack'[t]
  BY <1>1
<1>3. stack'[t][1].todo \in Seq(Step)
  BY <1>2 DEF Activation
<1>4. stack'[t][1].todo # <<>>
  BY <1>2 DEF StackOK, Busy
<1>5. Steps(t)' = Elements(stack'[t][1].todo) /\ First(t)' = Head(stack'[t][1].todo)
  BY DEF Steps, First
<1> QED
  BY <1>3, <1>4, <1>5, HeadAndTail

LEMMA ClosePipeCalm ==
    ASSUME Calm, StackOK', NEW t \in Threads, ClosePipe(t)
    PROVE  Shape' /\ Control'
<1>1. /\ OnBottom(t) /\ First(t).op = "close" /\ Skipped(t) /\ ~Idle(t)
      /\ closed' = closed \cup ({fd_proc} \ {-1})
      /\ UNCHANGED <<enable, fd_proc, registryVars, lifeVars, calls>>
  BY ReturnEffects DEF ClosePipe, OnBottom
<1>2. Solo(t) /\ Why(t) # "call"
  BY <1>1, SoloFirst
<1>3. StackOK /\ Standing /\ Doing(t) /\ First(t) \in Step /\ First(t) \in Steps(t)
      /\ Steps(t) = {First(t)} \cup Later(t) /\ initLock \in {1, 2}
  BY <1>1, <1>2, SoloView, Views
<1>4. Op(t, "close")
  BY <1>1, <1>3 DEF Op
<1>5. fd_proc > 0 /\ (Why(t) = "exit" \/ Op(t, "clear")) /\ (Op(t, "clear") => Why(t) = "signal")
  BY <1>3, <1>4 DEF Doing
<1>6. \A s \in Later(t) : s.op = "clear"
  <2> SUFFICES ASSUME NEW s \in Later(t) PROVE s.op = "clear"
    OBVIOUS
  <2>1. Rank(First(t)) = 21 /\ s \in Step /\ s \in Steps(t)
    BY <1>1, <1>3, Ranks, Views
  <2>2. Rank(s) > 21
    BY <1>1, <2>1, RankLater
  <2>3. s.op \in {"clear", "store"}
    BY <2>1, <2>2, Ranks DEF Step, Ops
  <2>4. s.op # "store"
    BY <1>1, <2>1, SoloFirst DEF SoloStep
  <2> QED
    BY <2>3, <2>4
<1>7. /\ Others(t) /\ Steps(t)' = Later(t) /\ At(t)' = "start" /\ Inner(t)' = {}
      /\ ~Idle(t)' => Why(t)' = Why(t)
      /\ Idle(t)' => Why(t)' = "call"
      /\ Idle(t)' <=> Steps(t)' = {}
  BY <1>1 DEF Skipped, MovedOn
<1>8. /\ UNCHANGED <<enable, fd_proc, modules, moduleOn, moduleAt, initLock, exited, resources>>
      /\ AllOff' <=> AllOff
  BY <1>1 DEF registryVars, lifeVars, AllOff
<1>9. Op(t, "clear") => Op(t, "clear")'
  BY <1>1, <1>3, <1>7 DEF Op
<1>10. Op(t, "clear")' => Op(t, "clear")
  BY <1>3, <1>7 DEF Op
<1>11. ~(fd_proc = 0) /\ 0 \notin closed'
  BY <1>1, <1>3, <1>5 DEF Standing
<1>12. Standing'
  <2>1. initLock = 2
    BY <1>3, <1>5 DEF Doing, Standing, Solo
  <2>2. exited \/ Op(t, "clear")
    BY <1>3, <1>5 DEF Doing
  <2> QED
    BY <1>3, <1>8, <1>9, <1>11, <2>1, <2>2 DEF Standing
<1>13. Doing(t)'
  <2>1. CASE Idle(t)'
    BY <2>1, IdleDoing
  <2>2. CASE ~Idle(t)'
    <3>1. First(t)' \in Steps(t)'
      BY <2>2, FirstStays
    <3>2. First(t)'.op = "clear" /\ Op(t, "clear")' /\ Op(t, "clear")
      BY <1>6, <1>7, <1>10, <3>1 DEF Op
    <3>3. Why(t)' = "signal" /\ Why(t) = "signal" /\ ~exited
      BY <1>1, <1>3, <1>5, <1>7, <2>2, <3>2 DEF Doing
    <3>4. \A op : op # "clear" => ~Op(t, op)'
      BY <1>6, <1>7 DEF Op
    <3>5. \A s \in Steps(t)' : ~Opens(s) /\ ~Enables(s) /\ ~Disables(s)
      BY <1>6, <1>7 DEF Opens, Enables, Disables
    <3>6. \A s \in Steps(t) : ~Disables(s)
      BY <1>1, <1>3, <1>6 DEF Disables
    <3>7. fd_proc > 0 /\ ~enable /\ AllOff
      BY <1>3, <3>2, <3>6 DEF Doing
    <3>8. initLock = 2
      BY <1>2, <1>3, <3>3 DEF Doing
    <3> QED
      BY <1>7, <1>8, <3>2, <3>3, <3>4, <3>5, <3>7, <3>8 DEF Doing
  <2> QED
    BY <2>1, <2>2
<1>14. Shape'
  <2>1. MovedOn(t, <<>>) /\ Elements(<<>>) = {}
    BY <1>1 DEF Skipped, Elements
  <2> QED
    BY <1>1, <2>1, MovedShape
<1> QED
  BY <1>1, <1>2, <1>7, <1>12, <1>13, <1>14, SoloControl

LEMMA ClearPipeCalm ==
    ASSUME Calm, StackOK', NEW t \in Threads, ClearPipe(t)
    PROVE  Shape' /\ Control'
<1>1. /\ OnBottom(t) /\ Skipped(t) /\ ~Idle(t)
      /\ \/ First(t).op = "clear" /\ fd_proc' = 0
         \/ First(t).op = "nopipe" /\ fd_proc' = -1
      /\ UNCHANGED <<enable, closed, registryVars, lifeVars, calls>>
  BY ReturnEffects DEF ClearPipe, OnBottom
<1>2. Solo(t) /\ Why(t) # "call"
  BY <1>1, SoloFirst
<1>3. StackOK /\ Standing /\ Doing(t) /\ First(t) \in Step /\ First(t) \in Steps(t)
      /\ Steps(t) = {First(t)} \cup Later(t) /\ initLock \in {1, 2}
  BY <1>1, <1>2, SoloView, Views
<1>4. /\ Others(t) /\ Steps(t)' = Later(t) /\ At(t)' = "start" /\ Inner(t)' = {}
      /\ ~Idle(t)' => Why(t)' = Why(t)
      /\ Idle(t)' => Why(t)' = "call"
      /\ Idle(t)' <=> Steps(t)' = {}
  BY <1>1 DEF Skipped, MovedOn
<1>5. /\ UNCHANGED <<enable, closed, modules, moduleOn, moduleAt, initLock, exited, resources>>
      /\ AllOff' <=> AllOff
      /\ \A s : Switched(s)' <=> Switched(s)
  BY <1>1 DEF registryVars, lifeVars, AllOff, Switched
<1>6. Shape'
  <2>1. MovedOn(t, <<>>) /\ Elements(<<>>) = {}
    BY <1>1 DEF Skipped, Elements
  <2> QED
    BY <1>1, <2>1, MovedShape
<1>7. \A s \in Later(t) : s \in Step /\ s \in Steps(t) /\ s.op # "store"
      /\ Rank(s) > Rank(First(t))
  <2> SUFFICES ASSUME NEW s \in Later(t)
               PROVE  s \in Step /\ s \in Steps(t) /\ s.op # "store" /\ Rank(s) > Rank(First(t))
    OBVIOUS
  <2>1. s \in Step /\ s \in Steps(t)
    BY <1>1, <1>3, Views
  <2>2. s.op # "store"
    BY <1>1, <2>1, SoloFirst DEF SoloStep
  <2>3. Rank(First(t)) \in {5, 22}
    BY <1>1, <1>3, Ranks
  <2> QED
    BY <1>1, <2>1, <2>2, <2>3, RankLater
<1>8. CASE First(t).op = "clear" /\ fd_proc' = 0
  <2>1. Rank(First(t)) = 22
    BY <1>3, <1>8, Ranks
  <2>2. Later(t) = {}
    <3>1. \A s \in Step : Rank(s) > 22 => s.op = "store"
      BY Ranks DEF Step, Ops
    <3> QED
      BY <1>7, <2>1, <3>1
  <2>3. Op(t, "clear") /\ \A s \in Steps(t) : ~Disables(s)
    BY <1>3, <1>8, <2>2 DEF Op, Disables
  <2>4. ~enable /\ AllOff /\ Why(t) = "signal"
    BY <1>3, <2>3 DEF Doing
  <2>5. initLock = 2
    BY <1>2, <1>3, <2>4 DEF Doing
  <2>6. Standing'
    BY <1>3, <1>5, <1>8, <2>4, <2>5 DEF Standing
  <2>7. Doing(t)'
    BY <1>4, <2>2, IdleDoing
  <2> QED
    BY <1>1, <1>2, <1>4, <1>6, <2>6, <2>7, SoloControl
<1>9. CASE First(t).op = "nopipe" /\ fd_proc' = -1
  <2>1. fd_proc <= 0
    BY <1>3, <1>9 DEF Doing, Opens
  <2>2. fd_proc \in Int
    BY DEF Calm, Inv, TypeOK, PipeTypes
  <2>3. \A op : op # "nopipe" => (Op(t, op)' <=> Op(t, op))
    BY <1>3, <1>4, <1>9 DEF Op
  <2>4. \A s \in Steps(t)' : s \in Steps(t) /\ ~Disables(s)
    <3>1. Rank(First(t)) = 5
      BY <1>3, <1>9, Ranks
    <3>2. \A s \in Step : Disables(s) => Rank(s) = 4
      BY Ranks DEF Disables
    <3> QED
      BY <1>3, <1>4, <1>7, <3>1, <3>2
  <2>5. ~Op(t, "clear") /\ ~Op(t, "close")
    BY <1>3, <2>1, <2>2 DEF Doing
  <2>6. Doing(t)'
    <3>1. CASE Idle(t)'
      BY <3>1, IdleDoing
    <3>2. CASE ~Idle(t)'
      <4>1. Why(t)' = Why(t) /\ Solo(t)' /\ Solo(t)
        BY <1>2, <1>4, <3>2 DEF Solo
      <4>2. \A s \in Steps(t)' : Enables(s) =>
               /\ Switched(s)' /\ Op(t, "ready")'
               /\ ~Op(t, "clear")' /\ ~Op(t, "close")' /\ ~exited
        BY <1>3, <1>5, <2>1, <2>2, <2>3, <2>4 DEF Doing
      <4>3. Op(t, "flush")' => \E s \in Steps(t)' : Enables(s)
        <5>1. Op(t, "flush")' => \E s \in Steps(t) : Enables(s)
          BY <1>3, <2>3, <2>5 DEF Doing
        <5> QED
          BY <1>3, <1>4, <1>9, <5>1 DEF Enables
      <4>4. /\ exited /\ ~Idle(t) => Why(t) = "exit"
            /\ Why(t) = "exit" => exited
            /\ Solo(t) /\ initLock # 2 => Why(t) = "init"
            /\ Op(t, "ready") =>
                  initLock = 1 /\ modules = 0 /\ resources = 0 /\ Why(t) = "init"
            /\ Op(t, "openinit") => Op(t, "ready")
            /\ Op(t, "open") \/ Op(t, "clear") => Why(t) = "signal"
            /\ ~Op(t, "open") /\ ~Op(t, "openinit")
            /\ Why(t) # "exit"
        BY <1>3, <1>9, <2>5 DEF Doing
      <4>5. -1 <= 0
        OBVIOUS
      <4> QED
        BY <1>1, <1>4, <1>5, <1>9, <2>3, <2>4, <2>5, <4>1, <4>2, <4>3, <4>4, <4>5 DEF Doing
    <3> QED
      BY <3>1, <3>2
  <2>7. Standing'
    <3>1. initLock = 1 => Op(t, "ready")'
      BY <1>1, <1>2, <1>3, <2>3, SoloView DEF Standing
    <3>2. ~(fd_proc' = 0) /\ ~(fd_proc' > 0)
      BY <1>9
    <3> QED
      BY <1>3, <1>5, <3>1, <3>2 DEF Standing
  <2> QED
    BY <1>1, <1>2, <1>4, <1>6, <2>6, <2>7, SoloControl
<1> QED
  BY <1>1, <1>8, <1>9

LEMMA RegisterModuleCalm ==
    ASSUME Calm, StackOK', NEW t \in Threads, RegisterModule(t)
    PROVE  Shape' /\ Control'
<1>1. /\ OnBottom(t) /\ First(t).op = "register" /\ ~Idle(t)
      /\ UNCHANGED <<enable, pipeVars, resources, lifeVars, calls>>
  BY RegisterModuleEffect DEF RegisterModule, OnBottom
<1>2. Solo(t) /\ Why(t) # "call" /\ \A s \in Steps(t) : SoloStep(s)
  BY <1>1, SoloFirst
<1>3. StackOK /\ Standing /\ Doing(t) /\ First(t) \in Step /\ First(t) \in Steps(t)
      /\ Steps(t) = {First(t)} \cup Later(t) /\ initLock \in {1, 2}
  BY <1>1, <1>2, SoloView, Views
<1>4. First(t).id \in TracingModules
  BY <1>1, <1>2, <1>3 DEF SoloStep
<1>5. \A s \in Later(t) : s.op \in {"resource", "close", "clear"}
  <2> SUFFICES ASSUME NEW s \in Later(t) PROVE s.op \in {"resource", "close", "clear"}
    OBVIOUS
  <2>1. Rank(First(t)) = 19 /\ s \in Step /\ s \in Steps(t)
    BY <1>1, <1>3, Ranks, Views
  <2>2. Rank(s) > 19
    BY <1>1, <2>1, RankLater
  <2>3. s.op \in {"resource", "close", "clear", "store"}
    BY <2>1, <2>2, Ranks DEF Step, Ops
  <2>4. s.op # "store"
    BY <1>2, <2>1 DEF SoloStep
  <2> QED
    BY <2>3, <2>4
<1>6. PICK more : /\ MovedOn(t, more)
                  /\ \A s \in Elements(more) : s.op = "packet" /\ SoloStep(s)
  <2>1. CASE Skipped(t)
    <3>1. MovedOn(t, <<>>) /\ Elements(<<>>) = {}
      BY <2>1 DEF Skipped, Elements
    <3> QED
      BY <3>1
  <2>2. CASE ~Skipped(t)
    <3>1. PICK p, a : p = Packet("MI", modules + 1, 0) /\ a = <<p>>
      OBVIOUS
    <3>2. MovedOn(t, a)
      BY <2>2, <3>1, RegisterModuleEffect
    <3>3. p.op = "packet" /\ p.kind = "MI" /\ p.n = 0
      BY <3>1 DEF Packet
    <3>4. Elements(a) = {p}
      BY <3>1 DEF Elements
    <3>5. \A s \in Elements(a) : s.op = "packet" /\ SoloStep(s)
      BY <3>3, <3>4 DEF SoloStep
    <3> QED
      BY <3>2, <3>5
  <2> QED
    BY <2>1, <2>2
<1>7. /\ Others(t) /\ Steps(t)' = Elements(more) \cup Later(t) /\ At(t)' = "start"
      /\ Inner(t)' = {}
      /\ ~Idle(t)' => Why(t)' = Why(t)
      /\ Idle(t)' => Why(t)' = "call"
      /\ Idle(t)' <=> Steps(t)' = {}
  BY <1>6 DEF MovedOn
<1>8. Shape'
  BY <1>1, <1>2, <1>6, MovedShape
<1>9. \A op : op \notin {"packet", "register"} => (Op(t, op)' <=> Op(t, op))
  BY <1>1, <1>3, <1>6, <1>7 DEF Op
<1>10. \A op : op \notin {"packet", "register", "resource", "close", "clear"} =>
          ~Op(t, op) /\ ~Op(t, op)'
  BY <1>1, <1>3, <1>5, <1>6, <1>7 DEF Op
<1>11. \A s \in Steps(t) \cup Steps(t)' : ~Opens(s) /\ ~Enables(s) /\ ~Disables(s)
  BY <1>1, <1>3, <1>5, <1>6, <1>7 DEF Opens, Enables, Disables
<1>12. initLock = 2
  BY <1>1, <1>2, <1>3, <1>10, SoloView DEF Standing
<1>13. fd_proc = 0 => ~enable
  BY <1>1, <1>2, <1>3, <1>11, SoloView DEF Standing
<1>14. /\ UNCHANGED <<enable, fd_proc, closed, resources, initLock, exited>>
       /\ RegistryTypes /\ enable \in BOOLEAN
  BY <1>1 DEF pipeVars, lifeVars, Calm, Inv, TypeOK, OptionTypes
<1>15. /\ \A i \in 1 .. modules' : moduleAt'[i] \in TracingModules
       /\ AllOff /\ ~enable => AllOff'
       /\ AllOn /\ enable => AllOn'
  <2>1. CASE UNCHANGED <<modules, moduleAt, moduleOn>>
    BY <1>3, <2>1 DEF Standing, AllOff, AllOn
  <2>2. CASE /\ modules < MaxModules /\ modules' = modules + 1
             /\ moduleAt' = [moduleAt EXCEPT ![modules + 1] = First(t).id]
             /\ moduleOn' = [moduleOn EXCEPT ![First(t).id] = enable]
    <3>1. /\ modules \in Nat /\ DOMAIN moduleAt = 1 .. MaxModules /\ MaxModules \in Nat
          /\ DOMAIN moduleOn = TracingModules
      BY <1>14, RegistryAssumption DEF RegistryTypes
    <3>2. \A i \in 1 .. modules : moduleAt'[i] = moduleAt[i] /\ moduleAt[i] \in TracingModules
      BY <1>3, <2>2, <3>1 DEF Standing
    <3>3. moduleAt'[modules + 1] = First(t).id
      BY <2>2, <3>1
    <3>4. \A i \in 1 .. modules' : i \in 1 .. modules \/ i = modules + 1
      BY <2>2, <3>1
    <3>5. \A m \in TracingModules : moduleOn'[m] = IF m = First(t).id THEN enable ELSE moduleOn[m]
      BY <2>2, <3>1
    <3>6. \A i \in 1 .. modules' : moduleAt'[i] \in TracingModules
      BY <1>4, <3>2, <3>3, <3>4
    <3>7. ASSUME AllOff, ~enable PROVE AllOff'
      BY <1>4, <3>2, <3>3, <3>4, <3>5, <3>7 DEF AllOff
    <3>8. ASSUME AllOn, enable PROVE AllOn'
      BY <1>4, <3>2, <3>3, <3>4, <3>5, <3>8 DEF AllOn
    <3> QED
      BY <3>6, <3>7, <3>8
  <2> QED
    BY <2>1, <2>2, RegisterModuleEffect
<1>16. Standing'
  <2>1. fd_proc = 0 => AllOff'
    BY <1>3, <1>13, <1>15 DEF Standing
  <2>2. fd_proc > 0 => \/ exited \/ Op(t, "clear")'
                       \/ enable /\ fd_proc \notin closed /\ AllOn'
    BY <1>1, <1>2, <1>3, <1>9, <1>11, <1>15, SoloView DEF Standing
  <2> QED
    BY <1>3, <1>12, <1>13, <1>14, <1>15, <2>1, <2>2 DEF Standing
<1>17. Doing(t)'
  <2>1. CASE Idle(t)'
    BY <2>1, IdleDoing
  <2>2. CASE ~Idle(t)'
    <3>1. Why(t)' = Why(t)
      BY <1>7, <2>2
    <3>2. Op(t, "clear") => /\ Op(t, "close") /\ fd_proc > 0 /\ ~enable /\ AllOff'
                            /\ Why(t) = "signal"
      BY <1>1, <1>3, <1>11, <1>15 DEF Doing
    <3>3. /\ exited => Why(t) = "exit"
          /\ Why(t) = "exit" => exited /\ Op(t, "close")
          /\ Op(t, "close") => /\ fd_proc > 0 /\ fd_proc \notin closed
                               /\ Why(t) = "exit" \/ Op(t, "clear")
      BY <1>1, <1>3 DEF Doing
    <3> QED
      BY <1>7, <1>9, <1>10, <1>11, <1>12, <1>14, <3>1, <3>2, <3>3 DEF Doing
  <2> QED
    BY <2>1, <2>2
<1> QED
  BY <1>1, <1>2, <1>7, <1>8, <1>16, <1>17, SoloControl

LEMMA OpenPipeCalm ==
    ASSUME Calm, StackOK', NEW t \in Threads, OpenPipe(t)
    PROVE  Shape' /\ Control'
<1>1. /\ OnBottom(t) /\ First(t).op \in {"open", "openinit"} /\ ~Idle(t)
      /\ UNCHANGED <<closed, registryVars, lifeVars, calls>>
  BY OpenPipeEffect DEF OpenPipe, OnBottom
<1>2. Solo(t) /\ Why(t) # "call" /\ \A s \in Steps(t) : SoloStep(s)
  BY <1>1, SoloFirst
<1>3. StackOK /\ Standing /\ Doing(t) /\ First(t) \in Step /\ First(t) \in Steps(t)
      /\ Steps(t) = {First(t)} \cup Later(t) /\ initLock \in {1, 2}
  BY <1>1, <1>2, SoloView, Views
<1>4. /\ fd_proc <= 0 /\ enable /\ fd_proc \in Int /\ closed \subseteq 0 .. Len(out)
      /\ Len(out) \in Nat
  <2>1. fd_proc <= 0 /\ enable
    BY <1>1, <1>3 DEF Doing, Opens, Op
  <2>2. fd_proc \in Int /\ closed \subseteq 0 .. Len(out) /\ Len(out) \in Nat
    BY DEF Calm, Inv, TypeOK, PipeTypes
  <2> QED
    BY <2>1, <2>2
<1>5. ~Op(t, "close") /\ ~Op(t, "clear") /\ ~exited /\ Why(t) # "exit"
  BY <1>1, <1>3, <1>4 DEF Doing
<1>6. \A s \in Later(t) : s.op \in {"ready", "register", "resource"}
  <2> SUFFICES ASSUME NEW s \in Later(t) PROVE s.op \in {"ready", "register", "resource"}
    OBVIOUS
  <2>1. Rank(First(t)) = 17 /\ s \in Step /\ s \in Steps(t)
    BY <1>1, <1>3, Ranks, Views
  <2>2. Rank(s) > 17
    BY <1>1, <2>1, RankLater
  <2>3. s.op \in {"ready", "register", "resource", "close", "clear", "store"}
    BY <2>1, <2>2, Ranks DEF Step, Ops
  <2>4. s.op # "store"
    BY <1>2, <2>1 DEF SoloStep
  <2>5. s.op # "close" /\ s.op # "clear"
    BY <1>5, <2>1 DEF Op
  <2> QED
    BY <2>3, <2>4, <2>5
<1>7. /\ First(t).op = "openinit" => Op(t, "ready")
      /\ Op(t, "ready") => initLock = 1 /\ modules = 0 /\ resources = 0 /\ Why(t) = "init"
      /\ initLock = 1 => Op(t, "ready") /\ Why(t) = "init"
  <2>1. initLock = 1 => Op(t, "ready")
    BY <1>1, <1>2, <1>3, SoloView DEF Standing
  <2>2. /\ First(t).op = "openinit" => Op(t, "ready")
        /\ Op(t, "ready") => initLock = 1 /\ modules = 0 /\ resources = 0 /\ Why(t) = "init"
    BY <1>3 DEF Doing, Op
  <2> QED
    BY <2>1, <2>2
<1>8. PICK n, z : n = Do("nopipe", 0, 0) /\ z = EnableTracing(0)
  OBVIOUS
<1>9. /\ n.op = "nopipe" /\ SoloStep(n)
      /\ z.op = "enable" /\ z.id = 0 /\ z.n = 1 /\ SoloStep(z)
  BY <1>8 DEF Do, EnableTracing, SoloStep
<1>10. PICK data : data = IF First(t).op = "open" THEN {} ELSE InitialSteps
  OBVIOUS
<1>11. PICK more \in Seq(Step) :
          /\ MovedOn(t, more)
          /\ \/ /\ fd_proc' = Len(out) + 1 /\ UNCHANGED enable
                /\ Elements(more) = InitialSteps
             \/ /\ enable' = FALSE /\ UNCHANGED fd_proc
                /\ Elements(more) = {z, n} \cup data
             \/ /\ UNCHANGED <<enable, fd_proc>>
                /\ Elements(more) = {n} \cup data
  BY <1>8, <1>10, OpenPipeEffect
<1>12. /\ Others(t) /\ Steps(t)' = Elements(more) \cup Later(t) /\ At(t)' = "start"
       /\ Inner(t)' = {}
       /\ ~Idle(t)' => Why(t)' = Why(t)
       /\ Idle(t)' => Why(t)' = "call"
       /\ Idle(t)' <=> Steps(t)' = {}
  BY <1>11 DEF MovedOn
<1>13. \A s \in InitialSteps :
          /\ SoloStep(s)
          /\ s.op \in {"reset", "packet", "modules", "resources", "flush", "enable"}
          /\ s.op = "enable" => s.id = 1 /\ s.n = 1
  BY InitialStepFacts
<1>14. \A s \in Elements(more) :
          /\ SoloStep(s)
          /\ s.op \in {"reset", "packet", "modules", "resources", "flush", "enable", "nopipe"}
          /\ s.op = "enable" => s.n = 1
  BY <1>9, <1>10, <1>11, <1>13
<1>15. Shape'
  BY <1>1, <1>2, <1>11, <1>14, MovedShape
<1>16. \E s \in InitialSteps : Enables(s)
  BY InitialStepFacts DEF InitialSteps, Enables
<1>17. /\ UNCHANGED <<closed, modules, moduleOn, moduleAt, initLock, exited, resources>>
       /\ AllOff' <=> AllOff
  BY <1>1 DEF registryVars, lifeVars, AllOff
<1>18. \A s \in Steps(t)' : s.op = "enable" => s.n = 1 /\ Switched(s)'
  <2>1. modules' \in Nat
    BY <1>17, RegistryAssumption DEF Calm, Inv, TypeOK, RegistryTypes
  <2>2. \A s \in Steps(t)' : s.op = "enable" => s.n = 1
    BY <1>6, <1>12, <1>14
  <2> QED
    BY <2>1, <2>2 DEF Switched
<1>19. \A op \in {"ready", "register", "resource"} : Op(t, op)' <=> Op(t, op)
  BY <1>1, <1>3, <1>12, <1>14 DEF Op
<1>20. \A op \in {"open", "openinit", "clear", "close"} : ~Op(t, op)'
  BY <1>6, <1>12, <1>14 DEF Op
<1>21. /\ fd_proc' > 0 => enable' /\ fd_proc' \notin closed /\ \E s \in Steps(t)' : Enables(s)
       /\ fd_proc' > 0 => \A s \in Steps(t)' : ~Opens(s) /\ ~Disables(s)
       /\ fd_proc' = 0 => AllOff
       /\ (fd_proc' = 0 /\ enable') => \E s \in Steps(t)' : Opens(s)
       /\ Op(t, "flush")' => \E s \in Steps(t)' : Enables(s)
       /\ \A s \in Steps(t)' : Disables(s) => Op(t, "nopipe")'
       /\ \A s \in Steps(t)' : Enables(s) => Op(t, "ready")' \/ (fd_proc' > 0 /\ enable')
       /\ \A s \in Steps(t)' : Opens(s) => fd_proc' <= 0
  <2>1. CASE /\ fd_proc' = Len(out) + 1 /\ UNCHANGED enable
             /\ Elements(more) = InitialSteps
    <3>1. fd_proc' > 0 /\ fd_proc' \notin closed /\ ~(fd_proc' = 0)
      BY <1>4, <2>1
    <3>2. \E s \in Steps(t)' : Enables(s)
      BY <1>12, <1>16, <2>1
    <3>3. \A s \in Steps(t)' : ~Opens(s) /\ ~Disables(s)
      BY <1>6, <1>12, <1>13, <2>1 DEF Opens, Disables
    <3> QED
      BY <1>4, <2>1, <3>1, <3>2, <3>3
  <2>2. CASE /\ UNCHANGED fd_proc
             /\ \/ enable' = FALSE /\ Elements(more) = {z, n} \cup data
                \/ UNCHANGED enable /\ Elements(more) = {n} \cup data
    <3>1. ~(fd_proc' > 0) /\ fd_proc' <= 0 /\ (fd_proc' = 0 => AllOff)
      BY <1>3, <1>4, <2>2 DEF Standing
    <3>2. n \in Steps(t)' /\ Opens(n) /\ Op(t, "nopipe")'
      BY <1>9, <1>12, <2>2 DEF Opens, Op
    <3>3. CASE data = {}
      <4>1. \A s \in Steps(t)' : ~Enables(s) /\ s.op # "flush"
        BY <1>6, <1>9, <1>12, <2>2, <3>3 DEF Enables
      <4> QED
        BY <3>1, <3>2, <4>1 DEF Op
    <3>4. CASE data = InitialSteps /\ First(t).op = "openinit"
      <4>1. Op(t, "ready")'
        BY <1>7, <1>19, <3>4
      <4>2. \E s \in Steps(t)' : Enables(s)
        BY <1>12, <1>16, <2>2, <3>4
      <4> QED
        BY <3>1, <3>2, <4>1, <4>2
    <3> QED
      BY <1>1, <1>10, <3>3, <3>4
  <2> QED
    BY <1>11, <2>1, <2>2
<1>22. Standing'
  BY <1>3, <1>5, <1>7, <1>17, <1>19, <1>21 DEF Standing
<1>23. Doing(t)'
  <2>1. CASE Idle(t)'
    BY <2>1, IdleDoing
  <2>2. CASE ~Idle(t)'
    <3>1. Why(t)' = Why(t)
      BY <1>12, <2>2
    <3>2. Solo(t)' /\ Solo(t)
      BY <1>2, <3>1 DEF Solo
    <3>3. Solo(t) /\ initLock # 2 => Why(t) = "init"
      BY <1>3 DEF Doing
    <3> QED
      BY <1>5, <1>7, <1>12, <1>17, <1>18, <1>19, <1>20, <1>21, <3>1, <3>2, <3>3
         DEF Doing, Enables, Disables
  <2> QED
    BY <2>1, <2>2
<1> QED
  BY <1>1, <1>2, <1>12, <1>15, <1>22, <1>23, SoloControl

(***************************************************************************)
(* A flush that fails, because open_pipe had returned -1.                  *)
(***************************************************************************)

LEMMA OtherDoing ==
    ASSUME NEW u \in Threads, stack'[u] = stack[u], Doing(u), Unswitched,
           UNCHANGED resources
    PROVE  Doing(u)'
<1>1. /\ Idle(u)' <=> Idle(u)
      /\ Steps(u)' = Steps(u) /\ Inner(u)' = Inner(u)
      /\ At(u)' = At(u) /\ Why(u)' = Why(u)
      /\ First(u)' = First(u) /\ Bottom(u)' = Bottom(u)
      /\ Solo(u)' <=> Solo(u)
      /\ \A op : Op(u, op)' <=> Op(u, op)
  BY SameStack
<1>2. /\ AllOff' <=> AllOff
      /\ \A s : Switched(s)' <=> Switched(s)
      /\ UNCHANGED <<enable, fd_proc, closed, modules, initLock, exited>>
  BY DEF Unswitched, AllOff, Switched
<1> QED
  BY <1>1, <1>2 DEF Doing

LEMMA StandingKept ==
    ASSUME NEW t \in Threads, Standing, Others(t), Steps(t)' = Steps(t),
           Idle(t)' <=> Idle(t), Unswitched, UNCHANGED resources
    PROVE  Standing'
<1>1. \A u \in Threads : Steps(u)' = Steps(u) /\ (Idle(u)' <=> Idle(u))
  BY SameStack DEF Others
<1>2. /\ AllOff' <=> AllOff
      /\ AllOn' <=> AllOn
      /\ UNCHANGED <<enable, fd_proc, closed, modules, moduleAt, initLock, exited>>
  BY DEF Unswitched, AllOff, AllOn
<1>3. \A u \in Threads : \A op : Op(u, op)' <=> Op(u, op)
  BY <1>1 DEF Op
<1> QED
  BY <1>1, <1>2, <1>3 DEF Standing

LEMMA FailedDescriptor ==
    ASSUME Calm, ~WriteMayFail, NEW t \in Threads, WriteFailed(t)
    PROVE  fd_proc = -1
<1>1. /\ OnBottom(t) /\ ~Idle(t) /\ First(t).op \in {"packet", "flush"}
  BY WriteFailedEffect DEF OnBottom
<1>2. ~Writable
  BY DEF WriteFailed
<1>3. fd_proc \in Int /\ fd_proc >= -1 /\ Standing /\ Doing(t)
  BY DEF Calm, Inv, TypeOK, PipeTypes, Control
<1>4. SUFFICES ASSUME fd_proc > 0, fd_proc \in closed PROVE FALSE
  BY <1>2, <1>3 DEF Writable, Standing
<1>5. CASE exited
  BY <1>1, <1>3, <1>4, <1>5 DEF Doing
<1>6. CASE \E u \in Threads : Op(u, "clear")
  <2>1. PICK u \in Threads : Op(u, "clear")
    BY <1>6
  <2>2. Solo(u)
    BY <2>1 DEF Calm, Control, Doing, Solo
  <2>3. u = t
    BY <1>1, <2>2 DEF Calm, Shape, Apart
  <2> QED
    BY <1>1, <1>3, <1>4, <2>1, <2>3 DEF Doing
<1> QED
  BY <1>3, <1>4, <1>5, <1>6 DEF Standing

LEMMA WriteFailedCalm ==
    ASSUME Calm, StackOK', ~WriteMayFail, NEW t \in Threads, WriteFailed(t)
    PROVE  Shape' /\ Control'
<1>1. /\ OnBottom(t) /\ ~Idle(t) /\ Others(t) /\ ~Idle(t)'
      /\ \/ First(t).op = "packet" /\ At(t) = "write"
         \/ First(t).op = "flush" /\ At(t) = "start"
      /\ stack'[t] = <<[Bottom(t) EXCEPT !.at = "fail"],
                       Call(<<EnableTracing(0)>>, "call")>>
      /\ Bottom(t)' = [Bottom(t) EXCEPT !.at = "fail"]
      /\ Steps(t)' = Steps(t) /\ First(t)' = First(t) /\ Why(t)' = Why(t)
      /\ At(t)' = "fail"
      /\ Inner(t)' = {EnableTracing(0)}
  BY WriteFailedEffect DEF OnBottom
<1>2. Unswitched /\ UNCHANGED <<resources, calls>>
  BY DEF WriteFailed, Unswitched, pipeVars, registryVars, lifeVars
<1>3. StackOK /\ Standing /\ Doing(t) /\ Fits(t) /\ Shape /\ calls \in Nat
  BY InvStack DEF Calm, Control, Shape, Inv, TypeOK, LifeTypes
<1>4. fd_proc = -1
  BY FailedDescriptor
<1>5. PICK z : z = EnableTracing(0)
  OBVIOUS
<1>6. z.op = "enable" /\ z.id = 0 /\ z.n = 1 /\ Disables(z) /\ InnerStep(z)
  BY <1>5 DEF EnableTracing, Do, Disables, InnerStep
<1>7. Bottom(t) \in Activation /\ Bottom(t)'.todo = Bottom(t).todo
  BY <1>1, <1>3, Views DEF Activation
<1>8. OuterFits(t)'
  <2>1. OuterFits(t)
    BY <1>3 DEF Fits
  <2> QED
    BY <1>1, <1>2, <1>7, <2>1 DEF OuterFits, CallStep
<1>9. PICK a, c : a = [Bottom(t) EXCEPT !.at = "fail"] /\ c = Call(<<EnableTracing(0)>>, "call")
  OBVIOUS
<1>10. stack'[t] = <<a, c>>
  BY <1>1, <1>9
<1>11. Len(stack'[t]) = 2 /\ stack'[t][2] = c
  BY <1>10
<1>12. c.at = "start" /\ c.why = "call"
  BY <1>9 DEF Call
<1>13. InnerFits(t)'
  BY <1>1, <1>5, <1>6, <1>11, <1>12 DEF InnerFits, InnerStep, Disables
<1>14. Fits(t)'
  BY <1>8, <1>11, <1>13 DEF Fits
<1>15. Shape'
  <2>1. \A u \in Threads : u # t => Fits(u)'
    BY <1>1, <1>2, <1>3, OthersFit
  <2>2. Apart'
    BY <1>1, <1>3, ApartKept DEF Shape
  <2> QED
    BY <1>14, <2>1, <2>2 DEF Shape
<1>16. Standing'
  BY <1>1, <1>2, <1>3, StandingKept
<1>17. Doing(t)'
  <2>1. \A op : Op(t, op)' <=> Op(t, op)
    BY <1>1 DEF Op
  <2>2. /\ AllOff' <=> AllOff
        /\ \A s : Switched(s)' <=> Switched(s)
        /\ UNCHANGED <<enable, fd_proc, closed, modules, initLock, exited>>
    BY <1>2 DEF Unswitched, AllOff, Switched
  <2>3. Solo(t)' <=> Solo(t)
    BY <1>1 DEF Solo
  <2>4. Switched(z)
    <3>1. modules \in Nat
      BY RegistryAssumption DEF Calm, Inv, TypeOK, RegistryTypes
    <3> QED
      BY <1>6, <3>1 DEF Switched
  <2>5. /\ z \in Inner(t)' /\ \A s \in Inner(t)' : s = z
    BY <1>1, <1>5
  <2> QED
    BY <1>1, <1>2, <1>3, <1>4, <1>6, <2>1, <2>2, <2>3, <2>4, <2>5 DEF Doing
<1>18. \A u \in Threads : u # t => Doing(u)'
  BY <1>1, <1>2, OtherDoing DEF Others, Calm, Control
<1> QED
  BY <1>15, <1>16, <1>17, <1>18 DEF Control

(* Only one thread at a time is inside a flush that failed.                *)
LEMMA OneFails ==
    ASSUME Calm, NEW t \in Threads, NEW u \in Threads, At(t) = "fail", At(u) = "fail"
    PROVE  t = u
<1>1. /\ StackOK /\ ~Idle(t) /\ ~Idle(u) /\ OuterFits(t) /\ OuterFits(u)
      /\ LockExcludes /\ Apart
  BY InvStack DEF Calm, Shape, Fits, At
<1>2. First(t).op \in {"packet", "flush"} /\ First(u).op \in {"packet", "flush"}
  BY <1>1 DEF OuterFits
<1>3. CASE First(t).op = "flush" \/ First(u).op = "flush"
  <2>1. Solo(t) \/ Solo(u)
    BY <1>1, <1>3, SoloFirst
  <2> QED
    BY <1>1, <2>1 DEF Apart
<1>4. CASE First(t).op = "packet" /\ First(u).op = "packet"
  <2>1. ASSUME NEW v \in Threads, ~Idle(v), At(v) = "fail", First(v).op = "packet"
        PROVE  1 \in DOMAIN stack[v] /\ Holding(stack[v][1])
    <3>1. stack[v] \in Seq(Activation) /\ stack[v] # <<>>
      BY <1>1, <2>1 DEF StackOK, Idle
    <3>2. 1 \in DOMAIN stack[v]
      BY <3>1
    <3>3. stack[v][1].todo # <<>>
      BY <1>1, <2>1, Views DEF Bottom
    <3> QED
      BY <2>1, <3>2, <3>3 DEF Holding, At, First
  <2>2. /\ 1 \in DOMAIN stack[t] /\ Holding(stack[t][1])
        /\ 1 \in DOMAIN stack[u] /\ Holding(stack[u][1])
    BY <1>1, <1>4, <2>1
  <2> QED
    BY <1>1, <2>2 DEF LockExcludes
<1> QED
  BY <1>2, <1>3, <1>4

LEMMA DisableAfterErrorCalm ==
    ASSUME Calm, StackOK', NEW t \in Threads, DisableAfterError(t)
    PROVE  Shape' /\ Control'
<1>1. /\ OnBottom(t) /\ First(t).op \in {"packet", "flush"} /\ At(t) = "fail"
      /\ SameSteps(t) /\ At(t)' = "rewind" /\ ~Idle(t) /\ Inner(t) = {}
      /\ enable' = FALSE /\ fd_proc' = 0
      /\ UNCHANGED <<closed, registryVars, lifeVars, calls>>
  BY DisableAfterErrorEffect DEF OnBottom, DisableAfterError
<1>2. StackOK /\ Standing /\ \A u \in Threads : Doing(u)
  BY InvStack DEF Calm, Control
<1>3. fd_proc = -1 /\ AllOff
  BY <1>1, <1>2 DEF Doing
<1>4. Shape'
  BY <1>1, SameShape
<1>5. /\ UNCHANGED <<closed, modules, moduleOn, moduleAt, initLock, exited, resources>>
      /\ AllOff' <=> AllOff
      /\ \A s : Switched(s)' <=> Switched(s)
  BY <1>1 DEF registryVars, lifeVars, AllOff, Switched
<1>6. ASSUME NEW u \in Threads
      PROVE  /\ Idle(u)' <=> Idle(u)
             /\ Steps(u)' = Steps(u) /\ Inner(u)' = Inner(u) /\ Why(u)' = Why(u)
             /\ First(u)' = First(u)
             /\ At(u)' # "fail"
             /\ Solo(u)' <=> Solo(u)
             /\ \A op : Op(u, op)' <=> Op(u, op)
  <2>1. CASE u = t
    BY <1>1, <2>1 DEF SameSteps, Solo, Op
  <2>2. CASE u # t
    <3>1. stack'[u] = stack[u]
      BY <1>1, <2>2 DEF SameSteps, Others
    <3>2. At(u) # "fail"
      BY <1>1, <2>2, OneFails
    <3> QED
      BY <3>1, <3>2, SameStack
  <2> QED
    BY <2>1, <2>2
<1>7. Standing'
  BY <1>1, <1>2, <1>3, <1>5, <1>6 DEF Standing, Op
<1>8. ASSUME NEW u \in Threads PROVE Doing(u)'
  <2>1. Doing(u) /\ ~Op(u, "clear") /\ ~Op(u, "close")
    BY <1>2, <1>3 DEF Doing
  <2>2. ~Op(u, "open") /\ ~Op(u, "openinit")
    <3> SUFFICES ASSUME Op(u, "open") \/ Op(u, "openinit") PROVE FALSE
      OBVIOUS
    <3>1. First(u).op \in {"open", "openinit"} /\ ~Idle(u)
      BY <2>1 DEF Doing, Op, Steps
    <3>2. Solo(u)
      BY <3>1, SoloFirst
    <3>3. u = t
      BY <1>1, <3>2 DEF Calm, Shape, Apart
    <3> QED
      BY <1>1, <3>1, <3>3
  <2>3. Doing(u) /\ Why(u) # "exit"
    BY <2>1 DEF Doing
  <2> QED
    BY <1>1, <1>3, <1>5, <1>6, <2>1, <2>2, <2>3 DEF Doing
<1> QED
  BY <1>4, <1>7, <1>8 DEF Control

(***************************************************************************)
(* enable_tracing                                                          *)
(***************************************************************************)

LEMMA ModuleSwitched ==
    ASSUME Calm, NEW s \in Step, s.n >= 1, s.n <= modules, s.id \in {0, 1}, s.op = "enable",
           moduleOn' = [moduleOn EXCEPT ![moduleAt[s.n]] = (s.id = 1)],
           UNCHANGED <<modules, moduleAt>>
    PROVE  /\ Switched(s) => Switched(Onward(s))'
           /\ s.id = 0 => /\ AllOff => AllOff'
                          /\ \A r : Disables(r) /\ Switched(r) => Switched(r)'
<1>1. /\ modules \in Nat /\ DOMAIN moduleOn = TracingModules /\ s.n \in Nat
      /\ \A m \in TracingModules : moduleOn[m] \in BOOLEAN
  BY RegistryAssumption DEF Calm, Inv, TypeOK, RegistryTypes, Step
<1>2. \A i \in 1 .. modules : moduleAt[i] \in TracingModules
  BY DEF Calm, Control, Standing
<1>3. \A i \in 1 .. modules :
         moduleOn'[moduleAt[i]] = IF moduleAt[i] = moduleAt[s.n] THEN s.id = 1
                                                                ELSE moduleOn[moduleAt[i]]
  BY <1>1, <1>2
<1>4. Onward(s).n = s.n + 1 /\ Onward(s).id = s.id
  BY DEF Onward, Step
<1>5. Switched(s) => Switched(Onward(s))'
  <2> SUFFICES ASSUME Switched(s), NEW i \in 1 .. modules, i < s.n + 1
               PROVE  moduleOn'[moduleAt[i]] <=> s.id = 1
    BY <1>4 DEF Switched
  <2>1. i < s.n \/ i = s.n
    BY <1>1
  <2>2. i < s.n => (moduleOn[moduleAt[i]] <=> s.id = 1)
    BY DEF Switched
  <2> QED
    BY <1>3, <2>1, <2>2
<1>6. ASSUME s.id = 0, AllOff PROVE AllOff'
  <2> SUFFICES ASSUME NEW i \in 1 .. modules PROVE ~moduleOn'[moduleAt[i]]
    BY DEF AllOff
  <2>1. ~moduleOn[moduleAt[i]] /\ ~(s.id = 1)
    BY <1>6 DEF AllOff
  <2> QED
    BY <1>3, <2>1
<1>7. ASSUME s.id = 0, NEW r, Disables(r), Switched(r) PROVE Switched(r)'
  BY <1>3, <1>7 DEF Switched, Disables
<1> QED
  BY <1>5, <1>6, <1>7

LEMMA AttachSteps ==
    ASSUME NEW m \in Nat, NEW s \in Step, s.op = "enable", s.n >= 1, s.id = 0
    PROVE  /\ \A r \in Attach(m, s) :
                 /\ SoloStep(r) /\ InnerStep(r)
                 /\ \/ r.op = "packet"
                    \/ r.op = "enable" /\ r.id = 0 /\ r.n = s.n
           /\ \E r \in Attach(m, s) : Disables(r) /\ r.n = s.n
<1>2. PICK q : q = [s EXCEPT !.kind = "AT"]
  OBVIOUS
<1>3. q.op = "enable" /\ q.id = 0 /\ q.n = s.n /\ q \in Attach(m, s)
  BY <1>2 DEF Step, Attach
<1>1. \A r \in Attach(m, s) :
         (r.op = "packet" /\ r.kind = "AT" /\ r.n = 0) \/ r = q
  BY <1>2 DEF Attach, Packet
<1>4. \A x \in Attach(m, s) : SoloStep(x) /\ InnerStep(x)
  BY <1>1, <1>3 DEF SoloStep, InnerStep, Disables
<1>5. Disables(q)
  BY <1>3 DEF Disables
<1> QED
  BY <1>1, <1>3, <1>4, <1>5

(* What enable_tracing replaces its step s by.                             *)
Advance(s, new) ==
    \/ s.n > modules /\ new = {} /\ UNCHANGED moduleOn
    \/ /\ s.n <= modules /\ s.id = 0 /\ moduleAt[s.n] \in Nat
       /\ new = Attach(moduleAt[s.n], s) /\ UNCHANGED moduleOn
    \/ /\ s.n <= modules /\ Onward(s) \in Step
       /\ new = {Onward(s)}
       /\ moduleOn' = [moduleOn EXCEPT ![moduleAt[s.n]] = (s.id = 1)]

LEMMA OnwardSteps ==
    ASSUME NEW s \in Step, s.op = "enable", s.n >= 1, s.id \in {0, 1}
    PROVE  LET r == Onward(s)
           IN  r.op = "enable" /\ r.id = s.id /\ r.n >= 1 /\ SoloStep(r)
               /\ (s.id = 0 => InnerStep(r) /\ Disables(r))
<1>1. PICK r : r = Onward(s)
  OBVIOUS
<1>2. r.op = "enable" /\ r.id = s.id /\ r.n = s.n + 1 /\ s.n \in Nat
  BY <1>1 DEF Onward, Step
<1>3. r.n >= 1
  BY <1>2
<1> QED
  BY <1>1, <1>2, <1>3 DEF SoloStep, InnerStep, Disables

(* It goes on with what was already switched, until all modules are.       *)
LEMMA Advanced ==
    ASSUME Calm, NEW s \in Step, s.op = "enable", s.n >= 1, s.id \in {0, 1}, NEW new,
           Advance(s, new), UNCHANGED <<modules, moduleAt>>, Switched(s)
    PROVE  /\ \A r \in new : r.op = "packet" \/ (r.op = "enable" /\ r.id = s.id)
           /\ \A r \in new : SoloStep(r)
           /\ s.id = 0 => \A r \in new : InnerStep(r)
           /\ \A r \in new : r.op = "enable" => Switched(r)'
           /\ s.id = 0 => AllOff' \/ \E r \in new : Disables(r)
           /\ s.id = 1 => AllOn' \/ \E r \in new : Enables(r)
           /\ s.id = 0 => /\ AllOff => AllOff'
                          /\ \A r : Disables(r) /\ Switched(r) => Switched(r)'
           /\ modules = 0 => UNCHANGED moduleOn /\ new = {}
<1>1. modules \in Nat /\ s.n \in Nat
  BY RegistryAssumption DEF Calm, Inv, TypeOK, RegistryTypes, Step
<1>2. ASSUME UNCHANGED moduleOn
      PROVE  /\ AllOff' <=> AllOff
             /\ AllOn' <=> AllOn
             /\ \A r : Switched(r)' <=> Switched(r)
  BY <1>2 DEF AllOff, AllOn, Switched
<1>3. modules = 0 => UNCHANGED moduleOn /\ new = {}
  BY <1>1 DEF Advance
<1>4. CASE s.n > modules /\ new = {} /\ UNCHANGED moduleOn
  <2>1. /\ s.id = 0 => AllOff
        /\ s.id = 1 => AllOn
    BY <1>1, <1>4 DEF Switched, AllOff, AllOn
  <2> QED
    BY <1>2, <1>3, <1>4, <2>1
<1>5. CASE /\ s.n <= modules /\ s.id = 0 /\ moduleAt[s.n] \in Nat
           /\ new = Attach(moduleAt[s.n], s) /\ UNCHANGED moduleOn
  <2>1. /\ \A r \in new :
              /\ SoloStep(r) /\ InnerStep(r)
              /\ \/ r.op = "packet"
                 \/ r.op = "enable" /\ r.id = 0 /\ r.n = s.n
        /\ \E r \in new : Disables(r) /\ r.n = s.n
    BY <1>5, AttachSteps
  <2>2. \A r \in new : r.op = "enable" => Switched(r)
    <3> SUFFICES ASSUME NEW r \in new, r.op = "enable" PROVE Switched(r)
      OBVIOUS
    <3>1. r.id = s.id /\ r.n = s.n
      BY <1>5, <2>1
    <3> QED
      BY <3>1 DEF Switched
  <2> QED
    BY <1>2, <1>3, <1>5, <2>1, <2>2
<1>6. CASE /\ s.n <= modules /\ Onward(s) \in Step
           /\ new = {Onward(s)}
           /\ moduleOn' = [moduleOn EXCEPT ![moduleAt[s.n]] = (s.id = 1)]
  <2>1. /\ Switched(Onward(s))'
        /\ s.id = 0 => /\ AllOff => AllOff'
                       /\ \A r : Disables(r) /\ Switched(r) => Switched(r)'
    BY <1>6, ModuleSwitched
  <2>2. PICK r : r = Onward(s)
    OBVIOUS
  <2>3. r.op = "enable" /\ r.id = s.id /\ r.n >= 1 /\ SoloStep(r)
        /\ (s.id = 0 => InnerStep(r) /\ Disables(r))
    BY <2>2, OnwardSteps
  <2>4. Switched(r)' /\ new = {r}
    BY <1>6, <2>1, <2>2
  <2>5. s.id = 1 => Enables(r)
    BY <2>3 DEF Enables
  <2> QED
    BY <1>3, <2>1, <2>3, <2>4, <2>5
<1> QED
  BY <1>4, <1>5, <1>6 DEF Advance

LEMMA EnableBottomCalm ==
    ASSUME Calm, StackOK', NEW t \in Threads, OnBottom(t), First(t).op = "enable",
           First(t).n >= 1, First(t).id \in {0, 1}, NEW more, MovedOn(t, more),
           Advance(First(t), Elements(more)),
           UNCHANGED <<enable, fd_proc, closed, modules, moduleAt, resources,
                       initLock, exited, calls>>
    PROVE  Shape' /\ Control'
<1>1. ~Idle(t)
  BY DEF OnBottom
<1>2. Solo(t) /\ Why(t) # "call" /\ \A s \in Steps(t) : SoloStep(s)
  BY <1>1, SoloFirst
<1>3. StackOK /\ Standing /\ Doing(t) /\ First(t) \in Step /\ First(t) \in Steps(t)
      /\ Steps(t) = {First(t)} \cup Later(t) /\ initLock \in {1, 2} /\ fd_proc \in Int
      /\ Later(t) \subseteq Step
  BY <1>1, <1>2, SoloView, Views DEF Calm, Inv, TypeOK, PipeTypes
<1>4. PICK s, new : s = First(t) /\ new = Elements(more)
  OBVIOUS
<1>5. s \in Step /\ s.op = "enable" /\ s.n >= 1 /\ s.id \in {0, 1} /\ s \in Steps(t)
  BY <1>3, <1>4
<1>6. Enables(s) \/ Disables(s)
  BY <1>5 DEF Enables, Disables
<1>7. Switched(s)
  BY <1>3, <1>5, <1>6 DEF Doing
<1>8. /\ \A r \in new : r.op = "packet" \/ (r.op = "enable" /\ r.id = s.id)
      /\ \A r \in new : SoloStep(r)
      /\ \A r \in new : r.op = "enable" => Switched(r)'
      /\ s.id = 0 => AllOff' \/ \E r \in new : Disables(r)
      /\ s.id = 1 => AllOn' \/ \E r \in new : Enables(r)
      /\ s.id = 0 => /\ AllOff => AllOff'
                     /\ \A r : Disables(r) /\ Switched(r) => Switched(r)'
      /\ modules = 0 => UNCHANGED moduleOn /\ new = {}
  BY <1>4, <1>5, <1>7, Advanced
<1>9. /\ Others(t) /\ Steps(t)' = new \cup Later(t) /\ At(t)' = "start" /\ Inner(t)' = {}
      /\ ~Idle(t)' => Why(t)' = Why(t)
  BY <1>4 DEF MovedOn
<1>10. Shape'
  BY <1>1, <1>2, <1>4, <1>8, MovedShape
<1>11. \A op : op \notin {"packet", "enable"} => (Op(t, op)' <=> Op(t, op))
  BY <1>3, <1>4, <1>5, <1>8, <1>9 DEF Op
<1>12. ~Op(t, "open") /\ ~Op(t, "openinit")
  BY <1>3 DEF Doing
<1>13. initLock = 1 => Op(t, "ready")
  BY <1>1, <1>2, <1>3, SoloView DEF Standing
<1>14. Op(t, "flush")' <=> Op(t, "flush")
  BY <1>11
<1>15. CASE s.id = 1
  <2>1. \A r \in Later(t) : r.op \in {"ready", "register", "resource", "close", "clear"}
    <3> SUFFICES ASSUME NEW r \in Later(t)
                 PROVE  r.op \in {"ready", "register", "resource", "close", "clear"}
      OBVIOUS
    <3>1. Rank(First(t)) = 17 /\ r \in Step /\ r \in Steps(t)
      BY <1>3, <1>4, <1>5, <1>15, Ranks
    <3>2. Rank(r) > 17
      BY <1>1, <1>3, <1>4, <1>5, <3>1, RankLater
    <3>3. r.op \in {"ready", "register", "resource", "close", "clear", "store"}
      BY <3>1, <3>2, Ranks DEF Step, Ops
    <3> QED
      BY <1>2, <3>1, <3>3 DEF SoloStep
  <2>2. /\ ~Op(t, "clear") /\ ~Op(t, "close") /\ ~exited
        /\ Op(t, "ready") \/ (fd_proc > 0 /\ enable)
    BY <1>3, <1>5, <1>6, <1>15 DEF Doing, Disables
  <2>3. ~Op(t, "flush") /\ \A r \in Steps(t) \cup Steps(t)' : ~Opens(r) /\ ~Disables(r)
    BY <1>3, <1>4, <1>5, <1>8, <1>9, <1>15, <2>1 DEF Op, Opens, Disables
  <2>4. \A r \in Steps(t)' : Enables(r) => Switched(r)'
    BY <1>8, <1>9, <2>1 DEF Enables
  <2>5. Why(t) # "exit"
    BY <1>3, <2>2 DEF Doing
  <2>6. ~(fd_proc = 0 /\ enable)
    BY <1>1, <1>2, <1>3, <2>3, SoloView DEF Standing
  <2>7. fd_proc = 0 => modules = 0
    BY <1>3, <2>2, <2>6 DEF Doing
  <2>8. fd_proc = 0 => AllOff'
    BY <2>7 DEF AllOff
  <2>9. fd_proc > 0 => /\ enable /\ fd_proc \notin closed
                       /\ AllOn' \/ \E r \in Steps(t)' : Enables(r)
    BY <1>1, <1>2, <1>3, <1>8, <1>9, <1>15, <2>2, SoloView DEF Standing
  <2>10. Standing'
    BY <1>3, <1>11, <1>13, <2>2, <2>6, <2>8, <2>9 DEF Standing
  <2>11. Doing(t)'
    <3>1. CASE Idle(t)'
      BY <3>1, IdleDoing
    <3>2. CASE ~Idle(t)'
      <4>1. Why(t)' = Why(t) /\ Solo(t)'
        BY <1>2, <1>9, <3>2 DEF Solo
      <4>2. /\ initLock # 2 => Why(t) = "init"
            /\ Op(t, "ready") =>
                  initLock = 1 /\ modules = 0 /\ resources = 0 /\ Why(t) = "init"
        BY <1>2, <1>3 DEF Doing
      <4> QED
        BY <1>9, <1>11, <1>12, <2>2, <2>3, <2>4, <2>5, <4>1, <4>2 DEF Doing
    <3> QED
      BY <3>1, <3>2
  <2> QED
    BY <1>1, <1>2, <1>9, <1>10, <2>10, <2>11, SoloControl
<1>16. CASE s.id = 0
  <2>1. Op(t, "nopipe") \/ Op(t, "close")
    BY <1>3, <1>5, <1>6, <1>16 DEF Doing, Enables
  <2>2. Op(t, "nopipe") => fd_proc <= 0
    BY <1>3 DEF Doing, Op, Opens
  <2>3. \A r \in Steps(t)' : Disables(r) => Switched(r)'
    <3>1. \A r \in Later(t) : Disables(r) => Switched(r)
      BY <1>3 DEF Doing
    <3> QED
      BY <1>8, <1>9, <1>16, <3>1 DEF Disables
  <2>4. \A r \in Steps(t)' : Enables(r) => r \in Steps(t)
    BY <1>3, <1>8, <1>9, <1>16 DEF Enables
  <2>5. (\E r \in Steps(t) : Enables(r)) => \E r \in Steps(t)' : Enables(r)
    <3>1. ~Enables(s)
      BY <1>16 DEF Enables
    <3> QED
      BY <1>3, <1>4, <1>9, <3>1
  <2>6. (\E r \in Steps(t) : Opens(r)) => \E r \in Steps(t)' : Opens(r)
    <3>1. ~Opens(s)
      BY <1>5 DEF Opens
    <3> QED
      BY <1>3, <1>4, <1>9, <3>1
  <2>7. \A r \in Steps(t)' : Opens(r) => r \in Steps(t)
    BY <1>3, <1>8, <1>9 DEF Opens
  <2>8. \A r \in Steps(t) : Enables(r) =>
           /\ Switched(r)' /\ Op(t, "ready") /\ ~Op(t, "clear") /\ ~Op(t, "close") /\ ~exited
    <3> SUFFICES ASSUME NEW r \in Steps(t), Enables(r)
                 PROVE  /\ Switched(r)' /\ Op(t, "ready") /\ ~Op(t, "clear")
                        /\ ~Op(t, "close") /\ ~exited
      OBVIOUS
    <3>1. /\ Switched(r) /\ ~Op(t, "clear") /\ ~Op(t, "close") /\ ~exited
          /\ Op(t, "ready") \/ (fd_proc > 0 /\ enable)
      BY <1>3 DEF Doing
    <3>2. Op(t, "ready")
      BY <1>3, <2>1, <2>2, <3>1
    <3>3. modules = 0
      BY <1>3, <3>2 DEF Doing
    <3>4. UNCHANGED moduleOn
      BY <1>8, <3>3
    <3>5. Switched(r)'
      BY <3>1, <3>4 DEF Switched
    <3> QED
      BY <3>1, <3>2, <3>5
  <2>9. fd_proc > 0 => exited \/ Op(t, "clear")
    BY <1>3, <2>1, <2>2 DEF Doing
  <2>10. AllOff' \/ \E r \in Steps(t)' : Disables(r)
    BY <1>8, <1>9, <1>16
  <2>11. fd_proc = 0 /\ enable => \E r \in Steps(t)' : Opens(r)
    BY <1>1, <1>2, <1>3, <2>6, SoloView DEF Standing
  <2>12. fd_proc = 0 => AllOff'
    BY <1>3, <1>8, <1>16 DEF Standing
  <2>13. Standing'
    BY <1>3, <1>11, <1>13, <2>9, <2>11, <2>12 DEF Standing
  <2>14. Doing(t)'
    <3>1. CASE Idle(t)'
      BY <3>1, IdleDoing
    <3>2. CASE ~Idle(t)'
      <4>1. Why(t)' = Why(t) /\ Solo(t)'
        BY <1>2, <1>9, <3>2 DEF Solo
      <4>2. /\ exited => Why(t) = "exit"
            /\ Why(t) = "exit" => exited /\ Op(t, "close")
            /\ initLock # 2 => Why(t) = "init"
            /\ Op(t, "ready") =>
                  initLock = 1 /\ modules = 0 /\ resources = 0 /\ Why(t) = "init"
            /\ Op(t, "clear") => Why(t) = "signal"
            /\ Op(t, "close") => /\ fd_proc > 0 /\ fd_proc \notin closed
                                 /\ Why(t) = "exit" \/ Op(t, "clear")
            /\ Op(t, "clear") => Op(t, "close") /\ fd_proc > 0 /\ ~enable
        BY <1>1, <1>2, <1>3 DEF Doing
      <4>3. Op(t, "flush")' => Op(t, "close") \/ \E r \in Steps(t)' : Enables(r)
        BY <1>3, <1>14, <2>5 DEF Doing
      <4>4. \A r \in Steps(t)' : Opens(r) => fd_proc <= 0
        BY <1>3, <2>7 DEF Doing
      <4> QED
        BY <1>9, <1>11, <1>12, <2>1, <2>3, <2>4, <2>8, <2>10, <4>1, <4>2, <4>3, <4>4 DEF Doing
    <3> QED
      BY <3>1, <3>2
  <2> QED
    BY <1>1, <1>2, <1>9, <1>10, <2>13, <2>14, SoloControl
<1> QED
  BY <1>5, <1>15, <1>16

LEMMA NoInner ==
    ASSUME StackOK, NEW u \in Threads, Fits(u), At(u) # "fail"
    PROVE  Inner(u) = {}
<1>1. Len(stack[u]) # 2 /\ Len(stack[u]) <= 2
  BY DEF Fits, InnerFits
<1>2. stack[u] \in Seq(Activation)
  BY DEF StackOK
<1>4. Len(stack[u]) \in Nat
  BY <1>2
<1>5. \A n \in Nat : n # 2 /\ n <= 2 => n < 2
  OBVIOUS
<1>3. Len(stack[u]) < 2
  BY <1>1, <1>4, <1>5
<1> QED
  BY <1>3 DEF Inner

(* The enable_tracing(false) of a flush that failed.                       *)
LEMMA EnableInnerCalm ==
    ASSUME Calm, NEW t \in Threads, OnInner(t), NEW s \in Step, s = Current(t),
           s.op = "enable", s.n >= 1, s.id = 0, NEW new, Advance(s, new),
           Others(t), ~Idle(t)', stack'[t][1] = stack[t][1],
           Inner(t)' = new \cup InnerLater(t), Inner(t) = {s} \cup InnerLater(t),
           Len(stack'[t]) \in {1, 2},
           Len(stack'[t]) = 2 => stack'[t][2].at = "start" /\ stack'[t][2].why = "call",
           UNCHANGED <<enable, fd_proc, closed, modules, moduleAt, resources,
                       initLock, exited, calls>>
    PROVE  Shape' /\ Control'
<1>1. /\ ~Idle(t) /\ At(t) = "fail" /\ Len(stack[t]) = 2
      /\ StackOK /\ Standing /\ Doing(t) /\ Fits(t) /\ Apart
  BY InvStack DEF OnInner, Calm, Control, Shape
<1>2. fd_proc = -1
  BY <1>1 DEF Doing
<1>3. Switched(s)
  BY <1>1 DEF Doing, Disables
<1>4. /\ \A r \in new : r.op = "packet" \/ (r.op = "enable" /\ r.id = 0)
      /\ \A r \in new : InnerStep(r)
      /\ \A r \in new : r.op = "enable" => Switched(r)'
      /\ AllOff' \/ \E r \in new : Disables(r)
      /\ \A r : Disables(r) /\ Switched(r) => Switched(r)'
      /\ modules = 0 => UNCHANGED moduleOn /\ new = {}
  BY <1>3, Advanced
<1>5. /\ First(t)' = First(t) /\ Steps(t)' = Steps(t)
      /\ At(t)' = At(t) /\ Why(t)' = Why(t)
      /\ Solo(t)' <=> Solo(t)
      /\ \A op : Op(t, op)' <=> Op(t, op)
  BY <1>1, BelowKept
<1>6. First(t).op \in {"packet", "flush"} /\ First(t) \in Steps(t)
  BY <1>1, Views DEF Fits, OuterFits
<1>7. (\E r \in Steps(t) : Enables(r)) => UNCHANGED moduleOn /\ new = {}
  <2> SUFFICES ASSUME NEW r \in Steps(t), Enables(r) PROVE modules = 0
    BY <1>4
  <2>1. Op(t, "ready")
    BY <1>1, <1>2 DEF Doing
  <2> QED
    BY <1>1, <2>1 DEF Doing
<1>8. First(t).op = "flush" => new = {}
  <2> SUFFICES ASSUME First(t).op = "flush" PROVE new = {}
    OBVIOUS
  <2>1. Op(t, "flush")
    BY <1>6 DEF Op
  <2>2. ~Op(t, "close")
    BY <1>1, <1>2 DEF Doing
  <2> QED
    BY <1>1, <1>7, <2>1, <2>2 DEF Doing
<1>9. Shape'
  <2>1. \A r \in InnerLater(t) : InnerStep(r) /\ (r.op = "packet" => First(t).op = "packet")
    BY <1>1 DEF Fits, InnerFits
  <2>2. \A r \in Inner(t)' : InnerStep(r) /\ (r.op = "packet" => First(t).op = "packet")
    BY <1>4, <1>6, <1>8, <2>1
  <2> QED
    BY <2>2, InnerShape
<1>10. ASSUME NEW u \in Threads
       PROVE  Steps(u)' = Steps(u) /\ (Idle(u)' <=> Idle(u)) /\ \A op : Op(u, op)' <=> Op(u, op)
  BY <1>1, <1>5, SameStack DEF Others
<1>11. Standing'
  BY <1>1, <1>2, <1>10 DEF Standing
<1>12. Doing(t)'
  <2>1. \A r \in Inner(t)' : Disables(r) => Switched(r)'
    BY <1>1, <1>4 DEF Doing, Disables
  <2>2. AllOff' \/ \E r \in Inner(t)' : Disables(r)
    BY <1>4
  <2>3. \A r \in Steps(t) : Enables(r) => Switched(r)'
    <3> SUFFICES ASSUME NEW r \in Steps(t), Enables(r) PROVE Switched(r)'
      OBVIOUS
    <3>1. Switched(r) /\ UNCHANGED moduleOn
      BY <1>1, <1>7 DEF Doing
    <3> QED
      BY <3>1 DEF Switched
  <2>4. ~Op(t, "clear") /\ ~Op(t, "close")
    BY <1>1, <1>2 DEF Doing
  <2>5. Idle(t)' <=> Idle(t)
    BY <1>1
  <2> QED
    BY <1>1, <1>2, <1>4, <1>5, <2>1, <2>2, <2>3, <2>4, <2>5 DEF Doing
<1>13. ASSUME NEW u \in Threads, u # t PROVE Doing(u)'
  <2>1. stack'[u] = stack[u] /\ Doing(u) /\ Fits(u)
    BY <1>13 DEF Others, Calm, Control, Shape
  <2>2. At(u) # "fail"
    BY <1>1, <1>13, OneFails
  <2>3. Inner(u) = {}
    BY <1>1, <2>1, <2>2, NoInner
  <2>4. \A r \in Steps(u) : r.op # "enable"
    <3> SUFFICES ASSUME NEW r \in Steps(u), r.op = "enable" PROVE FALSE
      OBVIOUS
    <3>1. ~Idle(u)
      BY DEF Steps
    <3>2. ~Solo(u)
      BY <1>1, <1>13 DEF Apart
    <3> QED
      BY <2>1, <3>1, <3>2 DEF Fits, OuterFits, CallStep, Solo
  <2>5. ~Op(u, "clear") /\ ~Op(u, "close")
    BY <1>2, <2>1 DEF Doing
  <2> QED
    BY <1>2, <2>1, <2>2, <2>3, <2>4, <2>5, SameStack DEF Doing, Enables, Disables
<1> QED
  BY <1>9, <1>11, <1>12, <1>13 DEF Control

LEMMA EnableModuleCalm ==
    ASSUME Calm, StackOK', NEW t \in Threads, EnableModule(t)
    PROVE  Shape' /\ Control'
<1>1. UNCHANGED <<enable, fd_proc, closed, modules, moduleAt, resources,
                  initLock, exited, calls>>
  BY DEF EnableModule, pipeVars, lifeVars
<1>2. PICK s \in Step, more \in Seq(Step) :
              /\ s = Current(t) /\ s.op = "enable" /\ s.n >= 1 /\ s.id \in {0, 1}
              /\ \/ /\ OnBottom(t) /\ First(t) = s /\ MovedOn(t, more)
                 \/ /\ OnInner(t) /\ s.id = 0 /\ Others(t) /\ ~Idle(t)'
                    /\ stack'[t][1] = stack[t][1]
                    /\ Inner(t)' = Elements(more) \cup InnerLater(t)
                    /\ Inner(t) = {s} \cup InnerLater(t)
                    /\ Len(stack'[t]) \in {1, 2}
                    /\ Len(stack'[t]) = 2 => /\ stack'[t][2].at = "start"
                                             /\ stack'[t][2].why = "call"
              /\ \/ /\ s.n > modules /\ Elements(more) = {} /\ UNCHANGED moduleOn
                 \/ /\ s.n <= modules /\ s.id = 0 /\ moduleAt[s.n] \in Nat
                    /\ Elements(more) = Attach(moduleAt[s.n], s) /\ UNCHANGED moduleOn
                    /\ more[1].op = "packet" /\ more # <<>>
                 \/ /\ s.n <= modules /\ Onward(s) \in Step
                    /\ Elements(more) = {Onward(s)}
                    /\ moduleOn' = [moduleOn EXCEPT ![moduleAt[s.n]] = (s.id = 1)]
                    /\ more # <<>> /\ more[1] = Onward(s)
  BY EnableModuleEffect
<1>3. Advance(s, Elements(more))
  BY <1>2 DEF Advance
<1>4. CASE OnBottom(t) /\ First(t) = s /\ MovedOn(t, more)
  BY <1>1, <1>2, <1>3, <1>4, EnableBottomCalm
<1>5. CASE OnInner(t) /\ s.id = 0
  <2>1. /\ Others(t) /\ ~Idle(t)'
        /\ stack'[t][1] = stack[t][1]
        /\ Inner(t)' = Elements(more) \cup InnerLater(t)
        /\ Inner(t) = {s} \cup InnerLater(t)
        /\ Len(stack'[t]) \in {1, 2}
        /\ Len(stack'[t]) = 2 => /\ stack'[t][2].at = "start"
                                 /\ stack'[t][2].why = "call"
    <3>1. ~OnBottom(t)
      BY <1>5 DEF OnBottom, OnInner
    <3> QED
      BY <1>2, <3>1
  <2>2. PICK new : new = Elements(more)
    OBVIOUS
  <2> QED
    BY <1>1, <1>2, <1>3, <1>5, <2>1, <2>2, EnableInnerCalm
<1> QED
  BY <1>2, <1>4, <1>5

(***************************************************************************)
(* The entry points that come while no call is in progress.                *)
(***************************************************************************)

LEMMA EnterSolo ==
    ASSUME Calm, NEW t \in Threads, \A u \in Threads : Idle(u), NEW todo \in Seq(Step),
           NEW why \in Reasons, why # "call", Enter(t, todo, why), Ordered(todo),
           \A s \in Elements(todo) : SoloStep(s), UNCHANGED calls,
           Standing', Doing(t)'
    PROVE  Shape' /\ Control'
<1>1. StackOK /\ calls \in Nat
  BY InvStack DEF Calm, Inv, TypeOK, LifeTypes
<1>2. Shape'
  BY <1>1, EnterShape
<1>3. Others(t)
  BY <1>1, EnterView
<1>4. \A u \in Threads : u # t => Doing(u)'
  BY <1>3, IdleDoing, SameStack DEF Others
<1> QED
  BY <1>2, <1>4 DEF Control

(* What the threads have to do once thread t has entered.                  *)
LEMMA EnteredView ==
    ASSUME Calm, NEW t \in Threads, \A u \in Threads : Idle(u), NEW todo \in Seq(Step),
           NEW why \in Reasons, Enter(t, todo, why)
    PROVE  /\ \A u \in Threads : Steps(u) = {}
           /\ \A u \in Threads : \A op : ~Op(u, op)
           /\ Steps(t)' = Elements(todo)
           /\ Idle(t)' <=> todo = <<>>
           /\ ~Idle(t)' => Why(t)' = why /\ First(t)' = Head(todo)
           /\ Idle(t)' => Why(t)' = "call"
           /\ At(t)' = "start" /\ Inner(t)' = {}
           /\ \A op : Op(t, op)' <=> \E s \in Elements(todo) : s.op = op
<1>1. StackOK
  BY InvStack DEF Calm
<1>2. /\ Steps(t)' = Elements(todo)
      /\ Idle(t)' <=> todo = <<>>
      /\ ~Idle(t)' => Why(t)' = why /\ First(t)' = Head(todo)
      /\ Idle(t)' => Why(t)' = "call"
      /\ At(t)' = "start" /\ Inner(t)' = {}
  BY <1>1, EnterView
<1>3. \A u \in Threads : Steps(u) = {}
  BY DEF Steps
<1> QED
  BY <1>2, <1>3 DEF Op

LEMMA InitEntry ==
    ASSUME Calm, NEW t \in Threads, \A u \in Threads : Idle(u), NEW todo \in Seq(Step),
           Enter(t, todo, "init"), Ordered(todo), TakeInitializeLock, ~exited,
           \A s \in Elements(todo) :
              SoloStep(s) /\ s.op \in {"openinit", "ready", "register", "resource"},
           initLock = 0 => \E s \in Elements(todo) : s.op = "ready",
           initLock = 0 /\ StartEnabled => \E s \in Elements(todo) : s.op = "openinit",
           \A s \in Elements(todo) : s.op = "ready" => initLock = 0,
           \A s \in Elements(todo) :
              s.op = "openinit" => initLock = 0 /\ StartEnabled /\ Head(todo).op = "openinit",
           UNCHANGED <<fd_proc, closed, modules, moduleOn, moduleAt, resources, exited, calls>>
    PROVE  Shape' /\ Control'
<1>1. "init" \in Reasons /\ Standing /\ initLock \in 0 .. 2
  BY DEF Reasons, Calm, Control, Inv, TypeOK, LifeTypes
<1>2. /\ \A u \in Threads : Steps(u) = {}
      /\ \A u \in Threads : \A op : ~Op(u, op)
      /\ Steps(t)' = Elements(todo)
      /\ Idle(t)' <=> todo = <<>>
      /\ ~Idle(t)' => Why(t)' = "init" /\ First(t)' = Head(todo)
      /\ Idle(t)' => Why(t)' = "call"
      /\ At(t)' = "start" /\ Inner(t)' = {}
      /\ \A op : Op(t, op)' <=> \E s \in Elements(todo) : s.op = op
  BY <1>1, EnteredView
<1>3. initLock \in {0, 2}
  BY <1>1, <1>2 DEF Standing
<1>4. /\ AllOff' <=> AllOff
      /\ AllOn' <=> AllOn
  BY DEF AllOff, AllOn
<1>5. /\ initLock = 0 => /\ initLock' = 1 /\ enable' = StartEnabled
                         /\ modules = 0 /\ resources = 0 /\ fd_proc = 0
      /\ initLock = 2 => initLock' = 2 /\ enable' = enable
  BY <1>1 DEF Standing, TakeInitializeLock
<1>6. Standing'
  <2>1. CASE initLock = 0
    <3>1. enable' => \E s \in Steps(t)' : Opens(s)
      <4> SUFFICES ASSUME enable' PROVE \E s \in Steps(t)' : Opens(s)
        OBVIOUS
      <4>1. PICK s \in Elements(todo) : s.op = "openinit"
        BY <1>5, <2>1
      <4> QED
        BY <1>2, <4>1 DEF Opens
    <3>2. Op(t, "ready")'
      BY <1>2, <2>1
    <3>3. 0 \notin closed /\ AllOff /\ \A i \in 1 .. modules : moduleAt[i] \in TracingModules
      BY <1>1, <1>5, <2>1 DEF Standing
    <3> QED
      BY <1>4, <1>5, <2>1, <3>1, <3>2, <3>3 DEF Standing
  <2>2. CASE initLock = 2
    <3>1. ~(fd_proc = 0 /\ enable)
      BY <1>1, <1>2 DEF Standing
    <3>2. fd_proc > 0 => enable /\ fd_proc \notin closed /\ AllOn
      BY <1>1, <1>2 DEF Standing
    <3> QED
      BY <1>1, <1>4, <1>5, <2>2, <3>1, <3>2 DEF Standing
  <2> QED
    BY <1>3, <2>1, <2>2
<1>7. Doing(t)'
  <2>1. CASE Idle(t)'
    BY <2>1, IdleDoing
  <2>2. CASE ~Idle(t)'
    <3>1. \A op : op \notin {"openinit", "ready", "register", "resource"} => ~Op(t, op)'
      BY <1>2
    <3>2. \A s \in Steps(t)' : ~Enables(s) /\ ~Disables(s)
      BY <1>2 DEF Enables, Disables
    <3>3. \A s \in Steps(t)' : Opens(s) => s.op = "openinit" /\ fd_proc = 0
      BY <1>2, <1>5 DEF Opens
    <3>4. Op(t, "ready")' => initLock' = 1 /\ modules = 0 /\ resources = 0
      BY <1>2, <1>5
    <3>5. Op(t, "openinit")' => Op(t, "ready")' /\ enable' /\ First(t)'.op = "openinit"
      BY <1>2, <1>5, <2>2
    <3>6. Why(t)' = "init"
      BY <1>2, <2>2
    <3> QED
      BY <1>2, <2>2, <3>1, <3>2, <3>3, <3>4, <3>5, <3>6 DEF Doing, Solo
  <2> QED
    BY <2>1, <2>2
<1> QED
  BY <1>1, <1>6, <1>7, EnterSolo

LEMMA InitStepsOrder ==
    ASSUME NEW q, q = InitializeSteps
    PROVE  /\ q \in Seq(Step) /\ Ordered(q)
           /\ \A s \in Elements(q) : /\ s \in Step /\ SoloStep(s) /\ Rank(s) \in {17, 18}
                                     /\ s.op \in {"openinit", "ready"} /\ initLock = 0
                                     /\ s.op = "openinit" => StartEnabled /\ q[1] = s
           /\ initLock = 0 => /\ q # <<>> /\ \E s \in Elements(q) : s.op = "ready"
                              /\ StartEnabled => \E s \in Elements(q) : s.op = "openinit"
<1>1. PICK o, r : o = Do("openinit", 0, 0) /\ r = Do("ready", 0, 0)
  OBVIOUS
<1>2. o \in Step /\ r \in Step /\ o.op = "openinit" /\ r.op = "ready"
  BY <1>1, StepTypes DEF Do, Ops
<1>3. Rank(o) = 17 /\ Rank(r) = 18 /\ SoloStep(o) /\ SoloStep(r)
  BY <1>2, Ranks DEF SoloStep
<1>4. CASE initLock # 0
  <2>1. q = <<>>
    BY <1>4 DEF InitializeSteps
  <2> QED
    BY <1>4, <2>1 DEF Elements, Ordered
<1>5. CASE initLock = 0 /\ StartEnabled
  <2>1. PICK x, y : x = <<o>> /\ y = <<r>>
    OBVIOUS
  <2>2. q = x \o y
    BY <1>1, <1>5, <2>1 DEF InitializeSteps
  <2>3. /\ x \in Seq(Step) /\ x # <<>> /\ x[1] = o /\ DOMAIN x = 1 .. 1
        /\ y \in Seq(Step) /\ y[1] = r /\ DOMAIN y = 1 .. 1
    BY <1>2, <2>1
  <2>4. Elements(x) = {o} /\ Elements(y) = {r} /\ Ordered(x) /\ Ordered(y)
    BY <2>3 DEF Elements, Ordered
  <2>5. /\ q \in Seq(Step) /\ Elements(q) = Elements(x) \cup Elements(y)
        /\ q # <<>> /\ q[1] = x[1]
    <3>1. PICK c : c = x \o y
      OBVIOUS
    <3>2. x \in Seq(Step) /\ y \in Seq(Step)
      BY <2>3
    <3>3. /\ c \in Seq(Step) /\ Elements(c) = Elements(x) \cup Elements(y)
          /\ x # <<>> => c # <<>> /\ c[1] = x[1]
      BY <3>1, <3>2, JoinedSteps
    <3> QED
      BY <2>2, <2>3, <3>1, <3>3
  <2>6. Ordered(q)
    <3>1. \A a \in Elements(x), b \in Elements(y) : Before(a, b)
      BY <1>3, <2>4 DEF Before
    <3> QED
      BY <2>2, <2>3, <2>4, <3>1, OrderedJoin
  <2>7. Elements(q) = {o, r} /\ q[1] = o /\ q # <<>>
    BY <2>3, <2>4, <2>5
  <2> QED
    BY <1>2, <1>3, <1>5, <2>5, <2>6, <2>7
<1>6. CASE initLock = 0 /\ ~StartEnabled
  <2>1. q = <<r>>
    BY <1>1, <1>6 DEF InitializeSteps
  <2>2. DOMAIN q = 1 .. 1 /\ q[1] = r /\ q \in Seq(Step) /\ q # <<>>
    BY <1>2, <2>1
  <2>3. Elements(q) = {r}
    BY <2>2 DEF Elements
  <2>4. Ordered(q)
    BY <2>2 DEF Ordered
  <2> QED
    BY <1>2, <1>3, <1>6, <2>2, <2>3, <2>4
<1> QED
  BY <1>4, <1>5, <1>6

LEMMA InitializeCalm ==
    ASSUME Calm, Quiescent, NEW t \in Threads, Initialize(t)
    PROVE  Shape' /\ Control'
<1>1. /\ \A u \in Threads : Idle(u)
      /\ initLock = 0 /\ TakeInitializeLock
      /\ UNCHANGED <<fd_proc, closed, modules, moduleOn, moduleAt, resources, exited, calls>>
  BY DEF Initialize, Alone, pipeVars, registryVars
<1>2. PICK q : q = InitializeSteps
  OBVIOUS
<1>3. Enter(t, q, "init")
  BY <1>2 DEF Initialize
<1>4. ~exited
  BY <1>1 DEF Calm, Control, Standing
<1>5. /\ q \in Seq(Step) /\ Ordered(q)
      /\ \A s \in Elements(q) : /\ SoloStep(s)
                                /\ s.op \in {"openinit", "ready"}
                                /\ s.op = "openinit" => StartEnabled /\ q[1] = s
      /\ q # <<>> /\ \E s \in Elements(q) : s.op = "ready"
      /\ StartEnabled => \E s \in Elements(q) : s.op = "openinit"
  BY <1>1, <1>2, InitStepsOrder
<1>6. Head(q) = q[1]
  BY <1>5
<1> QED
  BY <1>1, <1>3, <1>4, <1>5, <1>6, InitEntry

LEMMA ModuleStepsOrder ==
    ASSUME NEW m \in TracingModules, NEW d, NEW e, d = <<Do("register", m, 0)>>,
           e = [i \in DOMAIN Registers[m] |-> Do("resource", Registers[m][i], 0)]
    PROVE  /\ d \in Seq(Step) /\ Ordered(d)
           /\ \A s \in Elements(d) : /\ s \in Step /\ SoloStep(s) /\ Rank(s) = 19
                                     /\ s.op = "register"
           /\ e \in Seq(Step) /\ Ordered(e)
           /\ \A s \in Elements(e) : /\ s \in Step /\ SoloStep(s) /\ Rank(s) = 20
                                     /\ s.op = "resource"
<1>1. m \in Nat /\ Registers[m] \in Seq(Nat \ {0})
  BY RegistryAssumption DEF TracingModules
<1>2. PICK r : r = Do("register", m, 0)
  OBVIOUS
<1>3. r \in Step /\ r.op = "register" /\ r.id = m
  BY <1>1, <1>2, StepTypes DEF Do, Ops
<1>4. SoloStep(r) /\ Rank(r) = 19
  BY <1>3, Ranks DEF SoloStep
<1>5. d \in Seq(Step) /\ Ordered(d) /\ Elements(d) = {r}
  <2>1. d = <<r>>
    BY <1>2
  <2>2. DOMAIN d = 1 .. 1 /\ d[1] = r /\ d \in Seq(Step)
    BY <1>3, <2>1
  <2> QED
    BY <2>2 DEF Elements, Ordered
<1>6. DOMAIN e = 1 .. Len(Registers[m]) /\ Len(Registers[m]) \in Nat
  BY <1>1
<1>7. ASSUME NEW i \in DOMAIN e
      PROVE  e[i] \in Step /\ e[i].op = "resource" /\ SoloStep(e[i]) /\ Rank(e[i]) = 20
  <2>1. e[i] = Do("resource", Registers[m][i], 0) /\ Registers[m][i] \in Nat
    BY <1>1, <1>6
  <2>2. e[i] \in Step /\ e[i].op = "resource"
    BY <2>1, StepTypes DEF Do, Ops
  <2> QED
    BY <2>2, Ranks DEF SoloStep
<1>8. e \in Seq(Step)
  <2>1. DOMAIN Registers[m] = 1 .. Len(Registers[m])
    BY <1>1
  <2>2. \A i \in 1 .. Len(Registers[m]) : Do("resource", Registers[m][i], 0) \in Step
    BY <1>6, <1>7
  <2> QED
    BY <1>6, <2>1, <2>2
<1>9. Ordered(e)
  BY <1>7 DEF Ordered, Before
<1>10. \A s \in Elements(d) : s \in Step /\ SoloStep(s) /\ Rank(s) = 19 /\ s.op = "register"
  BY <1>3, <1>4, <1>5
<1>11. \A s \in Elements(e) : s \in Step /\ SoloStep(s) /\ Rank(s) = 20 /\ s.op = "resource"
  BY <1>7 DEF Elements
<1> QED
  BY <1>5, <1>8, <1>9, <1>10, <1>11

LEMMA InitializeModuleCalm ==
    ASSUME Calm, Quiescent, NEW t \in Threads, NEW m \in TracingModules,
           InitializeModule(t, m)
    PROVE  Shape' /\ Control'
<1>1. /\ \A u \in Threads : Idle(u)
      /\ ~exited /\ TakeInitializeLock
      /\ UNCHANGED <<fd_proc, closed, modules, moduleOn, moduleAt, resources, exited, calls>>
  BY DEF InitializeModule, Alone, pipeVars, registryVars
<1>2. PICK q, d, e : /\ q = InitializeSteps /\ d = <<Do("register", m, 0)>>
                     /\ e = [i \in DOMAIN Registers[m] |-> Do("resource", Registers[m][i], 0)]
  OBVIOUS
<1>3. PICK c, todo : c = q \o d /\ todo = c \o e
  OBVIOUS
<1>4. Enter(t, todo, "init")
  BY <1>2, <1>3 DEF InitializeModule
<1>5. /\ q \in Seq(Step) /\ Ordered(q)
      /\ \A s \in Elements(q) : /\ s \in Step /\ SoloStep(s) /\ Rank(s) \in {17, 18}
                                /\ s.op \in {"openinit", "ready"} /\ initLock = 0
                                /\ s.op = "openinit" => StartEnabled /\ q[1] = s
      /\ initLock = 0 => /\ q # <<>> /\ \E s \in Elements(q) : s.op = "ready"
                         /\ StartEnabled => \E s \in Elements(q) : s.op = "openinit"
  BY <1>2, InitStepsOrder
<1>6. /\ d \in Seq(Step) /\ Ordered(d)
      /\ \A s \in Elements(d) : /\ s \in Step /\ SoloStep(s) /\ Rank(s) = 19
                                /\ s.op = "register"
      /\ e \in Seq(Step) /\ Ordered(e)
      /\ \A s \in Elements(e) : /\ s \in Step /\ SoloStep(s) /\ Rank(s) = 20
                                /\ s.op = "resource"
  BY <1>2, ModuleStepsOrder
<1>7. /\ c \in Seq(Step) /\ Elements(c) = Elements(q) \cup Elements(d)
      /\ q # <<>> => c # <<>> /\ c[1] = q[1]
  <2>1. q \in Seq(Step) /\ d \in Seq(Step) /\ c = q \o d
    BY <1>3, <1>5, <1>6
  <2> QED
    BY <2>1, JoinedSteps
<1>8. /\ todo \in Seq(Step) /\ Elements(todo) = Elements(c) \cup Elements(e)
      /\ c # <<>> => todo # <<>> /\ todo[1] = c[1]
  <2>1. c \in Seq(Step) /\ e \in Seq(Step) /\ todo = c \o e
    BY <1>3, <1>6, <1>7
  <2> QED
    BY <2>1, JoinedSteps
<1>9. Ordered(c)
  <2>1. \A r \in Elements(q), s \in Elements(d) : Before(r, s)
    BY <1>5, <1>6 DEF Before
  <2> QED
    BY <1>3, <1>5, <1>6, <2>1, OrderedJoin
<1>10. Ordered(todo)
  <2>1. \A r \in Elements(c), s \in Elements(e) : Before(r, s)
    BY <1>5, <1>6, <1>7 DEF Before
  <2> QED
    BY <1>3, <1>6, <1>7, <1>9, <2>1, OrderedJoin
<1>11. \A s \in Elements(todo) :
          SoloStep(s) /\ s.op \in {"openinit", "ready", "register", "resource"}
  BY <1>5, <1>6, <1>7, <1>8
<1>12. \A s \in Elements(todo) : s.op \in {"openinit", "ready"} => s \in Elements(q)
  BY <1>6, <1>7, <1>8
<1>13. \A s \in Elements(todo) :
          s.op = "openinit" => initLock = 0 /\ StartEnabled /\ Head(todo).op = "openinit"
  <2> SUFFICES ASSUME NEW s \in Elements(todo), s.op = "openinit"
               PROVE  initLock = 0 /\ StartEnabled /\ Head(todo).op = "openinit"
    OBVIOUS
  <2>1. initLock = 0 /\ StartEnabled /\ q[1] = s
    BY <1>5, <1>12
  <2>2. todo # <<>> /\ todo[1] = s
    BY <1>5, <1>7, <1>8, <2>1
  <2>3. Head(todo) = s
    BY <1>8, <2>2
  <2> QED
    BY <2>1, <2>3
<1>14. /\ initLock = 0 => \E s \in Elements(todo) : s.op = "ready"
       /\ initLock = 0 /\ StartEnabled => \E s \in Elements(todo) : s.op = "openinit"
       /\ \A s \in Elements(todo) : s.op = "ready" => initLock = 0
  BY <1>5, <1>7, <1>8, <1>12
<1> QED
  BY <1>1, <1>4, <1>8, <1>10, <1>11, <1>13, <1>14, InitEntry

LEMMA FinalStepsOrder ==
    ASSUME NEW w, w = WriteFinalData
    PROVE  /\ w \in Seq(Step) /\ w # <<>> /\ Ordered(w)
           /\ \A s \in Elements(w) : /\ s \in Step /\ SoloStep(s) /\ Rank(s) \in {0, 2}
                                     /\ s.op \in {"packet", "heapinfo"}
                                     /\ s.op = "packet" => s = Packet("NL", 1, 0)
<1>1. PICK p, h : p = Packet("NL", 1, 0) /\ h = Do("heapinfo", 0, 0)
  OBVIOUS
<1>2. p \in Step /\ h \in Step
  BY <1>1, StepTypes DEF Kinds, Ops
<1>3. p.op = "packet" /\ p.kind = "NL" /\ p.id = 1 /\ p.n = 0 /\ h.op = "heapinfo"
  BY <1>1 DEF Packet, Do
<1>4. Rank(p) = 0 /\ Rank(h) = 2 /\ SoloStep(p) /\ SoloStep(h)
  <2>1. Rank(h) = 2
    BY <1>2, <1>3, Ranks
  <2>2. Rank(p) = 0
    BY <1>3 DEF Rank, PacketRank
  <2> QED
    BY <1>3, <2>1, <2>2 DEF SoloStep
<1>5. w = <<p, h>>
  BY <1>1 DEF WriteFinalData
<1>6. DOMAIN w = 1 .. 2 /\ w[1] = p /\ w[2] = h /\ w \in Seq(Step) /\ w # <<>>
  BY <1>2, <1>5
<1>7. Elements(w) = {p, h}
  BY <1>6 DEF Elements
<1>8. Ordered(w)
  BY <1>4, <1>6 DEF Ordered, Before
<1> QED
  BY <1>1, <1>2, <1>3, <1>4, <1>6, <1>7, <1>8

LEMMA ClosingStepsOrder ==
    ASSUME NEW e, NEW f, NEW c, NEW l, e = EnableTracing(0), f = Do("flush", 0, 0),
           c = Do("close", 0, 0), l = Do("clear", 0, 0), NEW w,
           w \in {<<e, f, c, l>>, <<e, f, c>>}
    PROVE  /\ w \in Seq(Step) /\ w # <<>> /\ Ordered(w)
           /\ {e, f, c} \subseteq Elements(w) /\ Elements(w) \subseteq {e, f, c, l}
           /\ l \in Elements(w) <=> w = <<e, f, c, l>>
           /\ \A s \in Elements(w) : s \in Step /\ SoloStep(s) /\ Rank(s) \in 4 .. 22
           /\ e.op = "enable" /\ e.id = 0 /\ e.n = 1 /\ f.op = "flush"
           /\ c.op = "close" /\ l.op = "clear"
<1>1. /\ e.op = "enable" /\ e.id = 0 /\ e.n = 1 /\ f.op = "flush"
      /\ c.op = "close" /\ l.op = "clear"
  BY DEF EnableTracing, Do
<1>2. e \in Step /\ f \in Step /\ c \in Step /\ l \in Step
  BY StepTypes DEF Ops
<1>3. Rank(e) = 4 /\ Rank(f) = 16 /\ Rank(c) = 21 /\ Rank(l) = 22
  BY <1>1, <1>2, Ranks
<1>4. SoloStep(e) /\ SoloStep(f) /\ SoloStep(c) /\ SoloStep(l)
  BY <1>1 DEF SoloStep
<1>5. CASE w = <<e, f, c, l>>
  <2>1. /\ DOMAIN w = 1 .. 4 /\ w[1] = e /\ w[2] = f /\ w[3] = c /\ w[4] = l
        /\ w \in Seq(Step) /\ w # <<>>
    BY <1>2, <1>5
  <2>2. Elements(w) = {e, f, c, l}
    BY <2>1 DEF Elements
  <2>3. Ordered(w)
    BY <1>3, <2>1 DEF Ordered, Before
  <2> QED
    BY <1>1, <1>2, <1>3, <1>4, <1>5, <2>1, <2>2, <2>3
<1>6. CASE w = <<e, f, c>>
  <2>1. /\ DOMAIN w = 1 .. 3 /\ w[1] = e /\ w[2] = f /\ w[3] = c
        /\ w \in Seq(Step) /\ w # <<>>
    BY <1>2, <1>6
  <2>2. Elements(w) = {e, f, c}
    BY <2>1 DEF Elements
  <2>3. Ordered(w)
    BY <1>3, <2>1 DEF Ordered, Before
  <2>4. l \notin Elements(w)
    BY <1>1, <2>2
  <2>5. w # <<e, f, c, l>>
    BY <1>6
  <2> QED
    BY <1>1, <1>2, <1>3, <1>4, <2>1, <2>2, <2>3, <2>4, <2>5
<1> QED
  BY <1>5, <1>6

(* What ends a session, in the handler of the signal (with the clear step) *)
(* or at exit.                                                             *)
SessionEnd(e, f, c, l, w, todo) ==
    /\ e = EnableTracing(0) /\ f = Do("flush", 0, 0)
    /\ c = Do("close", 0, 0) /\ l = Do("clear", 0, 0)
    /\ w \in {<<e, f, c, l>>, <<e, f, c>>}
    /\ todo = WriteFinalData \o w

LEMMA SessionEndSteps ==
    ASSUME NEW e, NEW f, NEW c, NEW l, NEW w, NEW todo, SessionEnd(e, f, c, l, w, todo)
    PROVE  /\ todo \in Seq(Step) /\ todo # <<>> /\ Ordered(todo)
           /\ {e, f, c} \subseteq Elements(todo)
           /\ l \in Elements(todo) <=> w = <<e, f, c, l>>
           /\ \A s \in Elements(todo) : /\ SoloStep(s)
                                        /\ s.op \in {"packet", "heapinfo"} \/ s \in {e, f, c, l}
                                        /\ s.op = "packet" => s = Packet("NL", 1, 0)
           /\ e.op = "enable" /\ e.id = 0 /\ e.n = 1 /\ f.op = "flush"
           /\ c.op = "close" /\ l.op = "clear"
<1>1. PICK a, d : a = WriteFinalData /\ d = a \o w
  OBVIOUS
<1>2. /\ a \in Seq(Step) /\ a # <<>> /\ Ordered(a)
      /\ \A s \in Elements(a) : /\ s \in Step /\ SoloStep(s) /\ Rank(s) \in {0, 2}
                                /\ s.op \in {"packet", "heapinfo"}
                                /\ s.op = "packet" => s = Packet("NL", 1, 0)
  BY <1>1, FinalStepsOrder
<1>3. /\ w \in Seq(Step) /\ w # <<>> /\ Ordered(w)
      /\ {e, f, c} \subseteq Elements(w) /\ Elements(w) \subseteq {e, f, c, l}
      /\ l \in Elements(w) <=> w = <<e, f, c, l>>
      /\ \A s \in Elements(w) : s \in Step /\ SoloStep(s) /\ Rank(s) \in 4 .. 22
      /\ e.op = "enable" /\ e.id = 0 /\ e.n = 1 /\ f.op = "flush"
      /\ c.op = "close" /\ l.op = "clear"
  <2>1. /\ e = EnableTracing(0) /\ f = Do("flush", 0, 0)
        /\ c = Do("close", 0, 0) /\ l = Do("clear", 0, 0)
        /\ w \in {<<e, f, c, l>>, <<e, f, c>>}
    BY DEF SessionEnd
  <2> QED
    BY <2>1, ClosingStepsOrder
<1>4. a \in Seq(Step) /\ w \in Seq(Step)
  BY <1>2, <1>3
<1>5. /\ d \in Seq(Step) /\ Elements(d) = Elements(a) \cup Elements(w)
      /\ a # <<>> => d # <<>> /\ d[1] = a[1]
  BY <1>1, <1>4, JoinedSteps
<1>6. Ordered(d)
  <2>1. \A x \in Elements(a), y \in Elements(w) : Before(x, y)
    <3> SUFFICES ASSUME NEW x \in Elements(a), NEW y \in Elements(w) PROVE Rank(x) < Rank(y)
      BY DEF Before
    <3>1. Rank(x) \in {0, 2} /\ Rank(y) \in 4 .. 22
      BY <1>2, <1>3
    <3> QED
      BY <3>1
  <2> QED
    BY <1>1, <1>2, <1>3, <2>1, OrderedJoin
<1>7. todo = d
  BY <1>1 DEF SessionEnd
<1>8. l \notin Elements(a)
  BY <1>2, <1>3
<1> QED
  BY <1>2, <1>3, <1>5, <1>6, <1>7, <1>8

(* Between calls, as the entry points find it.                             *)
LEMMA QuietStanding ==
    ASSUME Calm, \A u \in Threads : Idle(u), ~exited
    PROVE  /\ Standing /\ fd_proc \in Int /\ fd_proc >= -1
           /\ fd_proc = 0 => ~enable /\ AllOff
           /\ fd_proc > 0 => enable /\ fd_proc \notin closed /\ AllOn
<1>1. \A u \in Threads : Steps(u) = {}
  BY DEF Steps
<1>2. Standing /\ fd_proc \in Int /\ fd_proc >= -1
  BY DEF Calm, Control, Inv, TypeOK, PipeTypes
<1> QED
  BY <1>1, <1>2 DEF Standing, Op

LEMMA SessionEndCalm ==
    ASSUME Calm, NEW t \in Threads, \A u \in Threads : Idle(u), ~exited, initLock = 2,
           fd_proc > 0, NEW e, NEW f, NEW c, NEW l, NEW todo \in Seq(Step), todo # <<>>,
           Ordered(todo), {e, f, c} \subseteq Elements(todo),
           \A s \in Elements(todo) : /\ SoloStep(s)
                                     /\ s.op \in {"packet", "heapinfo"} \/ s \in {e, f, c, l},
           e.op = "enable", e.id = 0, e.n = 1, f.op = "flush", c.op = "close", l.op = "clear",
           NEW why \in {"signal", "exit"}, Enter(t, todo, why),
           why = "signal" => l \in Elements(todo) /\ enable' = FALSE /\ exited' = exited,
           why = "exit" => l \notin Elements(todo) /\ exited',
           UNCHANGED <<fd_proc, closed, modules, moduleOn, moduleAt, resources, initLock, calls>>
    PROVE  Shape' /\ Control'
<1>1. why \in Reasons /\ why # "call"
  BY DEF Reasons
<1>2. /\ \A u \in Threads : Steps(u) = {}
      /\ Steps(t)' = Elements(todo)
      /\ ~Idle(t)'
      /\ Why(t)' = why
      /\ At(t)' = "start" /\ Inner(t)' = {}
      /\ \A op : Op(t, op)' <=> \E s \in Elements(todo) : s.op = op
  BY <1>1, EnteredView
<1>3. /\ Standing /\ fd_proc \in Int
      /\ enable /\ fd_proc \notin closed /\ AllOn
  BY QuietStanding
<1>4. Op(t, "close")' /\ Op(t, "flush")' /\ (Op(t, "clear")' <=> why = "signal")
  BY <1>2
<1>5. \A op : op \notin {"packet", "heapinfo", "enable", "flush", "close", "clear"} => ~Op(t, op)'
  BY <1>2
<1>6. Standing'
  BY <1>3, <1>4 DEF Standing
<1>7. \A s \in Steps(t)' : ~Opens(s) /\ ~Enables(s) /\ (Disables(s) => s = e)
  BY <1>2 DEF Opens, Enables, Disables
<1>8. e \in Steps(t)' /\ Disables(e) /\ Switched(e)'
  <2>1. modules \in Nat
    BY RegistryAssumption DEF Calm, Inv, TypeOK, RegistryTypes
  <2> QED
    BY <1>2, <2>1 DEF Disables, Switched
<1>9. \E s \in Steps(t)' : Disables(s)
  BY <1>8
<1>10. ~Op(t, "ready")' /\ ~Op(t, "open")' /\ ~Op(t, "openinit")'
  BY <1>5
<1>11. Doing(t)'
  BY <1>2, <1>3, <1>4, <1>7, <1>8, <1>9, <1>10 DEF Doing
<1> QED
  BY <1>1, <1>6, <1>11, EnterSolo

LEMMA EnterNothing ==
    ASSUME Calm, NEW t \in Threads, \A u \in Threads : Idle(u), NEW why,
           Enter(t, <<>>, why), UNCHANGED calls, Standing'
    PROVE  Shape' /\ Control'
<1>1. StackOK
  BY InvStack DEF Calm
<1>2. stack' = stack
  BY <1>1 DEF Enter, StackOK
<1>3. Shape'
  BY <1>2 DEF Calm, Shape, Apart, Fits, OuterFits, InnerFits, Solo, Why, Idle, Inner, At
<1>4. \A u \in Threads : Doing(u)'
  BY <1>2, IdleDoing DEF Idle
<1> QED
  BY <1>3, <1>4 DEF Control

LEMMA ToggleTracingCalm ==
    ASSUME Calm, Quiescent, NEW t \in Threads, ToggleTracing(t)
    PROVE  Shape' /\ Control'
<1>1. /\ \A u \in Threads : Idle(u)
      /\ initLock = 2 /\ ~exited /\ enable' = ~enable
      /\ UNCHANGED <<fd_proc, closed, modules, moduleOn, moduleAt, resources, initLock,
                     exited, calls>>
  BY DEF ToggleTracing, Alone, pipeVars, registryVars
<1>2. /\ Standing /\ fd_proc \in Int /\ fd_proc >= -1
      /\ fd_proc = 0 => ~enable /\ AllOff
      /\ fd_proc > 0 => enable /\ fd_proc \notin closed /\ AllOn
  BY <1>1, QuietStanding
<1>3. (AllOff' <=> AllOff) /\ (AllOn' <=> AllOn) /\ enable \in BOOLEAN
  BY <1>1 DEF AllOff, AllOn, Calm, Inv, TypeOK, OptionTypes
<1>4. CASE ~enable
  <2>1. PICK o, todo : o = Do("open", 0, 0) /\ todo = <<o>>
    OBVIOUS
  <2>2. Enter(t, todo, "signal")
    BY <1>4, <2>1 DEF ToggleTracing
  <2>3. o \in Step /\ o.op = "open" /\ SoloStep(o)
    BY <2>1, StepTypes DEF Do, Ops, SoloStep
  <2>4. todo \in Seq(Step) /\ todo # <<>> /\ Head(todo) = o /\ DOMAIN todo = 1 .. 1 /\ todo[1] = o
    BY <2>1, <2>3
  <2>5. Elements(todo) = {o} /\ Ordered(todo)
    BY <2>4 DEF Elements, Ordered
  <2>6. "signal" \in Reasons
    BY DEF Reasons
  <2>7. /\ Steps(t)' = Elements(todo)
        /\ ~Idle(t)'
        /\ Why(t)' = "signal" /\ First(t)' = o
        /\ At(t)' = "start" /\ Inner(t)' = {}
        /\ \A op : Op(t, op)' <=> \E s \in Elements(todo) : s.op = op
    BY <1>1, <2>2, <2>4, <2>6, EnteredView
  <2>8. fd_proc <= 0 /\ ~(fd_proc > 0)
    BY <1>2, <1>4
  <2>9. Opens(o) /\ ~Enables(o) /\ ~Disables(o)
    BY <2>3 DEF Opens, Enables, Disables
  <2>10. Standing'
    BY <1>1, <1>2, <1>3, <2>5, <2>7, <2>8, <2>9 DEF Standing
  <2>11. \A op : Op(t, op)' <=> op = "open"
    BY <2>3, <2>5, <2>7
  <2>12. Doing(t)'
    BY <1>1, <1>4, <2>3, <2>5, <2>7, <2>8, <2>9, <2>11 DEF Doing
  <2> QED
    BY <1>1, <2>2, <2>3, <2>4, <2>5, <2>6, <2>10, <2>12, EnterSolo
<1>5. CASE enable /\ fd_proc > 0
  <2>1. PICK e, f, c, l : /\ e = EnableTracing(0) /\ f = Do("flush", 0, 0)
                          /\ c = Do("close", 0, 0) /\ l = Do("clear", 0, 0)
    OBVIOUS
  <2>2. PICK w, todo : w = <<e, f, c, l>> /\ todo = WriteFinalData \o w
    OBVIOUS
  <2>3. Enter(t, todo, "signal")
    BY <1>5, <2>1, <2>2 DEF ToggleTracing
  <2>4. /\ todo \in Seq(Step) /\ todo # <<>> /\ Ordered(todo)
        /\ {e, f, c} \subseteq Elements(todo)
        /\ l \in Elements(todo)
        /\ \A s \in Elements(todo) : /\ SoloStep(s)
                                     /\ s.op \in {"packet", "heapinfo"} \/ s \in {e, f, c, l}
        /\ e.op = "enable" /\ e.id = 0 /\ e.n = 1 /\ f.op = "flush"
        /\ c.op = "close" /\ l.op = "clear"
    <3>1. w \in {<<e, f, c, l>>, <<e, f, c>>}
      BY <2>2
    <3>2. /\ todo \in Seq(Step) /\ todo # <<>> /\ Ordered(todo)
          /\ {e, f, c} \subseteq Elements(todo)
          /\ l \in Elements(todo) <=> w = <<e, f, c, l>>
          /\ \A s \in Elements(todo) : /\ SoloStep(s)
                                       /\ s.op \in {"packet", "heapinfo"} \/ s \in {e, f, c, l}
          /\ e.op = "enable" /\ e.id = 0 /\ e.n = 1 /\ f.op = "flush"
          /\ c.op = "close" /\ l.op = "clear"
      <4>1. SessionEnd(e, f, c, l, w, todo)
        BY <2>1, <2>2, <3>1 DEF SessionEnd
      <4> QED
        BY <4>1, SessionEndSteps
    <3> QED
      BY <2>2, <3>2
  <2>5. enable' = FALSE /\ exited' = exited
    BY <1>1, <1>5
  <2>6. PICK why \in {"signal", "exit"} : why = "signal"
    OBVIOUS
  <2> QED
    BY <1>1, <1>5, <2>3, <2>4, <2>5, <2>6, SessionEndCalm
<1>6. CASE enable /\ ~(fd_proc > 0)
  <2>1. Enter(t, <<>>, "signal")
    BY <1>6 DEF ToggleTracing
  <2>2. stack' = stack
    BY <2>1 DEF Enter, Calm, Inv, TypeOK, StackTypes
  <2>3. ~enable' /\ fd_proc # 0
    BY <1>1, <1>2, <1>6
  <2>4. \A u \in Threads : Idle(u)'
    BY <1>1, <2>2 DEF Idle
  <2>5. Standing'
    BY <1>1, <1>2, <1>6, <2>3 DEF Standing
  <2> QED
    BY <1>1, <2>1, <2>5, EnterNothing
<1> QED
  BY <1>4, <1>5, <1>6

LEMMA ExitCalm ==
    ASSUME Calm, Quiescent, NEW t \in Threads, Exit(t)
    PROVE  Shape' /\ Control'
<1>1. /\ \A u \in Threads : Idle(u)
      /\ initLock = 2 /\ ~exited /\ exited' = TRUE
      /\ UNCHANGED <<enable, fd_proc, closed, modules, moduleOn, moduleAt, resources,
                     initLock, calls>>
  BY DEF Exit, Alone, pipeVars, registryVars
<1>2. /\ Standing /\ fd_proc \in Int /\ fd_proc >= -1
      /\ fd_proc = 0 => ~enable /\ AllOff
      /\ fd_proc > 0 => enable /\ fd_proc \notin closed /\ AllOn
  BY <1>1, QuietStanding
<1>3. (AllOff' <=> AllOff) /\ (AllOn' <=> AllOn)
  BY <1>1 DEF AllOff, AllOn
<1>4. CASE fd_proc > 0
  <2>1. PICK e, f, c, l : /\ e = EnableTracing(0) /\ f = Do("flush", 0, 0)
                          /\ c = Do("close", 0, 0) /\ l = Do("clear", 0, 0)
    OBVIOUS
  <2>2. PICK w, todo : w = <<e, f, c>> /\ todo = WriteFinalData \o w
    OBVIOUS
  <2>3. Enter(t, todo, "exit")
    BY <1>2, <1>4, <2>1, <2>2 DEF Exit
  <2>4. w # <<e, f, c, l>>
    BY <2>2
  <2>5. /\ todo \in Seq(Step) /\ todo # <<>> /\ Ordered(todo)
        /\ {e, f, c} \subseteq Elements(todo)
        /\ l \notin Elements(todo)
        /\ \A s \in Elements(todo) : /\ SoloStep(s)
                                     /\ s.op \in {"packet", "heapinfo"} \/ s \in {e, f, c, l}
        /\ e.op = "enable" /\ e.id = 0 /\ e.n = 1 /\ f.op = "flush"
        /\ c.op = "close" /\ l.op = "clear"
    <3>1. w \in {<<e, f, c, l>>, <<e, f, c>>}
      BY <2>2
    <3>2. /\ todo \in Seq(Step) /\ todo # <<>> /\ Ordered(todo)
          /\ {e, f, c} \subseteq Elements(todo)
          /\ l \in Elements(todo) <=> w = <<e, f, c, l>>
          /\ \A s \in Elements(todo) : /\ SoloStep(s)
                                       /\ s.op \in {"packet", "heapinfo"} \/ s \in {e, f, c, l}
          /\ e.op = "enable" /\ e.id = 0 /\ e.n = 1 /\ f.op = "flush"
          /\ c.op = "close" /\ l.op = "clear"
      <4>1. SessionEnd(e, f, c, l, w, todo)
        BY <2>1, <2>2, <3>1 DEF SessionEnd
      <4> QED
        BY <4>1, SessionEndSteps
    <3> QED
      BY <2>4, <3>2
  <2>6. PICK why \in {"signal", "exit"} : why = "exit"
    OBVIOUS
  <2> QED
    BY <1>1, <1>4, <2>3, <2>5, <2>6, SessionEndCalm
<1>5. CASE ~(fd_proc > 0)
  <2>1. Enter(t, <<>>, "exit")
    BY <1>5 DEF Exit
  <2>2. Standing'
    BY <1>1, <1>2, <1>3, <1>5 DEF Standing
  <2> QED
    BY <1>1, <2>1, <2>2, EnterNothing
<1> QED
  BY <1>4, <1>5

LEMMA InitCalm == Init => Calm
<1> SUFFICES ASSUME Init PROVE Calm
  OBVIOUS
<1>1. Inv /\ LockExcludes
  BY InitInv DEF Init, LockExcludes
<1>2. \A t \in Threads : Idle(t) /\ Len(stack[t]) = 0
  BY DEF Init, Idle
<1>3. \A t \in Threads : Steps(t) = {} /\ Inner(t) = {} /\ Why(t) = "call" /\ At(t) = "start"
  BY <1>2 DEF Steps, Inner, Why, At
<1>4. Shape
  BY <1>2, <1>3 DEF Shape, Apart, Fits, OuterFits, InnerFits, Solo
<1>5. Standing
  BY <1>2, <1>3 DEF Init, Standing, AllOff
<1>6. \A t \in Threads : Doing(t)
  BY <1>2, <1>3 DEF Init, Doing, Solo, Op
<1> QED
  BY <1>1, <1>4, <1>5, <1>6 DEF Calm, Control

LEMMA StutterCalm ==
    ASSUME Calm, UNCHANGED vars
    PROVE  Shape' /\ Control'
<1>1. UNCHANGED <<stack, calls, enable, fd_proc, closed, modules, moduleOn, moduleAt,
                  resources, initLock, exited>>
  BY DEF vars
<1>2. Shape /\ Control
  BY DEF Calm
<1>3. \A t \in Threads : /\ Idle(t)' <=> Idle(t)
                         /\ Steps(t)' = Steps(t) /\ Inner(t)' = Inner(t)
                         /\ At(t)' = At(t) /\ Why(t)' = Why(t)
                         /\ First(t)' = First(t) /\ Bottom(t)' = Bottom(t)
                         /\ Solo(t)' <=> Solo(t)
                         /\ \A op : Op(t, op)' <=> Op(t, op)
  BY <1>1, SameStack
<1>4. Shape'
  <2>1. Apart'
    BY <1>2, <1>3 DEF Shape, Apart
  <2>2. \A t \in Threads : OuterFits(t)'
    BY <1>1, <1>2, <1>3 DEF Shape, Fits, OuterFits, CallStep
  <2>3. \A t \in Threads : InnerFits(t)'
    BY <1>1, <1>2, <1>3 DEF Shape, Fits, InnerFits
  <2> QED
    BY <1>1, <1>2, <2>1, <2>2, <2>3 DEF Shape, Fits
<1>5. (AllOff' <=> AllOff) /\ (AllOn' <=> AllOn) /\ \A s : Switched(s)' <=> Switched(s)
  BY <1>1 DEF AllOff, AllOn, Switched
<1>6. Standing'
  BY <1>1, <1>2, <1>3, <1>5 DEF Control, Standing
<1>7. \A t \in Threads : Doing(t)'
  BY <1>1, <1>2, <1>3, <1>5 DEF Control, Doing
<1> QED
  BY <1>4, <1>6, <1>7 DEF Control

LEMMA NextCalm ==
    ASSUME Quiescent, ~WriteMayFail, Calm, [Next]_vars
    PROVE  Calm'
<1>1. Inv' /\ LockExcludes'
  BY NextInv, NextExcludes DEF Calm
<1>2. StackOK'
  BY <1>1 DEF Inv, TypeOK, StackTypes, StackOK
<1>3. SUFFICES Shape' /\ Control'
  BY <1>1 DEF Calm
<1>4. CASE UNCHANGED vars
  BY <1>4, StutterCalm
<1>5. ASSUME NEW t \in Threads, EntryPoint(t) PROVE Shape' /\ Control'
  <2>1. CASE Initialize(t)
    BY <2>1, InitializeCalm
  <2>2. ASSUME NEW m \in TracingModules, InitializeModule(t, m) PROVE Shape' /\ Control'
    BY <2>2, InitializeModuleCalm
  <2>3. ASSUME NEW m \in TracingModules, NEW i \in DOMAIN Registers[m],
               FunctionCall(t, m, Registers[m][i])
        PROVE  Shape' /\ Control'
    BY <1>2, <2>3, FunctionCallCalm
  <2>4. CASE Dlopen(t)
    BY <1>2, <2>4, DlopenCalm
  <2>5. CASE CreateContext(t)
    BY <1>2, <2>5, CreateContextCalm
  <2>6. CASE ToggleTracing(t)
    BY <2>6, ToggleTracingCalm
  <2>7. CASE Exit(t)
    BY <2>7, ExitCalm
  <2> QED
    BY <1>5, <2>1, <2>2, <2>3, <2>4, <2>5, <2>6, <2>7 DEF EntryPoint
<1>6. ASSUME NEW t \in Threads, Progress(t) PROVE Shape' /\ Control'
  <2>1. CASE CheckEnable(t) \/ Lock(t) \/ Unlock(t) \/ CopyCell(t) \/ Release(t)
    BY <1>2, <2>1, CheckEnableCalm, LockCalm, UnlockCalm, CopyCellCalm, ReleaseCalm
  <2>2. CASE WriteSent(t) \/ WriteFailed(t) \/ DisableAfterError(t) \/ Rewind(t)
    BY <1>2, <2>2, WriteSentCalm, WriteFailedCalm, DisableAfterErrorCalm, RewindCalm
  <2>3. CASE OpenPipe(t) \/ Reset(t) \/ WriteRegistries(t) \/ EnableModule(t)
    BY <1>2, <2>3, OpenPipeCalm, ResetCalm, WriteRegistriesCalm, EnableModuleCalm
  <2>4. CASE RegisterModule(t) \/ RegisterResource(t)
    BY <1>2, <2>4, RegisterModuleCalm, RegisterResourceCalm
  <2>5. CASE HeapInfo(t) \/ StoreHeapInfo(t) \/ ClosePipe(t) \/ ClearPipe(t) \/ Ready(t)
    BY <1>2, <2>5, HeapInfoCalm, StoreHeapInfoCalm, ClosePipeCalm, ClearPipeCalm, ReadyCalm
  <2> QED
    BY <1>6, <2>1, <2>2, <2>3, <2>4, <2>5 DEF Progress
<1> QED
  BY <1>4, <1>5, <1>6 DEF Next

(* Between calls the option, the pipe and the modules agree, whatever      *)
(* toggles, failed opens and registrations came before: with an open pipe  *)
(* every registered module traces, without one and with the option off     *)
(* none does.  For any number of threads, modules and toggles, when these  *)
(* come while no call is in progress and write() to an open pipe works.    *)
THEOREM TracingStaysConsistent ==
    ASSUME Quiescent, ~WriteMayFail
    PROVE  Spec => []TracingConsistent
<1>1. Init => Calm
  BY InitCalm
<1>2. Calm /\ [Next]_vars => Calm'
  BY NextCalm
<1>3. Calm => TracingConsistent
  <2> SUFFICES ASSUME Calm, AllIdle, initLock = 2, ~exited
               PROVE  /\ fd_proc = 0 => AllOff
                      /\ fd_proc > 0 => enable /\ fd_proc \notin closed /\ AllOn
    BY DEF TracingConsistent, AllOff, AllOn
  <2> QED
    BY QuietStanding DEF AllIdle
<1> QED
  BY <1>1, <1>2, <1>3, PTL DEF Spec

=============================================================================
