----------------------------- MODULE CallContext -----------------------------
(***************************************************************************)
(* Call contexts: src/library/sp_rtrace_context.c in the traced program    *)
(* and the override of sp_context_create in src/modules/sp_context_impl.c, *)
(* which reports what was created.  Contexts are numbered under a spin     *)
(* lock; the mask of the entered ones is a global that every thread        *)
(* changes with a plain read and a plain write.                            *)
(***************************************************************************)
EXTENDS Naturals, FiniteSets

CONSTANTS Threads,       \* threads of the traced program; each has one context
          RegistrySize,  \* SP_CONTEXT_REGISTRY_SIZE
          MaxSessions    \* bound on the times tracing is switched on

VARIABLES
    context_lock,
    context_index,
    registry,   \* sp_context_registry: which thread's name is in a slot
    mask,       \* context_mask, as the set of its bits
    at,         \* where each thread is
    id,         \* the bit the thread's context was given; RegistrySize: none
    seen,       \* the mask a thread read and has not written back yet
    session,    \* the number of the session, 0 while tracing is off
    sessions,   \* how many there were
    declared,   \* the bits this session's trace declares
    entered,    \* the contexts entered and not left, by completed calls
    raced       \* a mask was read while another thread was changing it

vars == <<context_lock, context_index, registry, mask, at, id, seen,
          session, sessions, declared, entered, raced>>

NoBit == RegistrySize

TypeOK ==
    /\ context_lock \in BOOLEAN
    /\ context_index \in 0..RegistrySize
    /\ registry \in [0..(RegistrySize - 1) -> Threads \cup {"none"}]
    /\ mask \subseteq 0..RegistrySize
    /\ at \in [Threads -> {"start", "register", "count", "report", "out", "in",
                           "entering", "leaving"}]
    /\ id \in [Threads -> 0..RegistrySize]
    /\ seen \in [Threads -> SUBSET (0..RegistrySize)]
    /\ sessions \in 0..MaxSessions /\ session \in 0..sessions
    /\ declared \subseteq 0..RegistrySize
    /\ entered \subseteq Threads
    /\ raced \in BOOLEAN

Init ==
    /\ context_lock = FALSE
    /\ context_index = 0
    /\ registry = [s \in 0..(RegistrySize - 1) |-> "none"]
    /\ mask = {}
    /\ at = [t \in Threads |-> "start"]
    /\ id = [t \in Threads |-> NoBit]
    /\ seen = [t \in Threads |-> {}]
    /\ session = 0 /\ sessions = 0
    /\ declared = {}
    /\ entered = {}
    /\ raced = FALSE

Goto(t, step) == at' = [at EXCEPT ![t] = step]

-----------------------------------------------------------------------------
\* Mutant: the lock is set without a look at it.
AcquireAlways(t) ==
    /\ at[t] = "start"
    /\ context_lock' = TRUE
    /\ Goto(t, "register")
    /\ UNCHANGED <<context_index, registry, mask, id, seen, session, sessions, declared, entered, raced>>

\* sp_context_create: the compare and swap, the slot, the index and the lock.
Acquire(t) ==
    /\ at[t] = "start"
    /\ ~context_lock
    /\ context_lock' = TRUE
    /\ Goto(t, "register")
    /\ UNCHANGED <<context_index, registry, mask, id, seen, session, sessions, declared, entered, raced>>

RegisterName(t) ==
    /\ at[t] = "register"
    /\ IF context_index < RegistrySize - 1
       THEN /\ id' = [id EXCEPT ![t] = context_index]
            /\ registry' = [registry EXCEPT ![context_index] = t]
            /\ Goto(t, "count")
            /\ UNCHANGED context_lock
       ELSE /\ context_lock' = FALSE
            /\ Goto(t, "out")
            /\ UNCHANGED <<id, registry>>
    /\ UNCHANGED <<context_index, mask, seen, session, sessions, declared, entered, raced>>

CountUp(t) ==
    /\ at[t] = "count"
    /\ context_index' = context_index + 1
    /\ context_lock' = FALSE
    /\ Goto(t, "report")
    /\ UNCHANGED <<registry, mask, id, seen, session, sessions, declared, entered, raced>>

\* sp_rtrace_write_context_registry writes nothing while tracing is off.
ReportContext(t) ==
    /\ at[t] = "report"
    /\ declared' = IF session = 0 THEN declared ELSE declared \cup {id[t]}
    /\ Goto(t, "out")
    /\ UNCHANGED <<context_lock, context_index, registry, mask, id, seen, session, sessions, entered, raced>>

-----------------------------------------------------------------------------
\* The check of sp_context_enter and sp_context_exit: 1 << context_index > id.
\* The id of a context that could not be created is 0 and changes no bit.
Known(t) == id[t] = NoBit \/ id[t] < context_index
Bit(t)   == {id[t]} \ {NoBit}

ReadMask(t, from, step) ==
    /\ at[t] = from
    /\ Known(t)
    /\ seen' = [seen EXCEPT ![t] = mask]
    /\ raced' = (raced \/ \E u \in Threads \ {t} : at[u] \in {"entering", "leaving"})
    /\ Goto(t, step)
    /\ UNCHANGED <<context_lock, context_index, registry, mask, id, session, sessions, declared, entered>>

sp_context_enter(t) == ReadMask(t, "out", "entering")
sp_context_exit(t)  == ReadMask(t, "in", "leaving")

WriteMask(t) ==
    /\ \/ /\ at[t] = "entering"
          /\ mask' = seen[t] \cup Bit(t)
          /\ entered' = entered \cup {t}
          /\ Goto(t, "in")
       \/ /\ at[t] = "leaving"
          /\ mask' = seen[t] \ Bit(t)
          /\ entered' = entered \ {t}
          /\ Goto(t, "out")
    /\ seen' = [seen EXCEPT ![t] = {}]
    /\ UNCHANGED <<context_lock, context_index, registry, id, session, sessions, declared, raced>>

\* A new session begins with the initial data, which has no contexts.
SwitchTracing ==
    /\ IF session = 0
       THEN sessions < MaxSessions /\ sessions' = sessions + 1 /\ session' = sessions + 1
       ELSE session' = 0 /\ UNCHANGED sessions
    /\ declared' = {}
    /\ UNCHANGED <<context_lock, context_index, registry, mask, at, id, seen, entered, raced>>

Next ==
    \/ \E t \in Threads :
          \/ Acquire(t) \/ RegisterName(t) \/ CountUp(t) \/ ReportContext(t)
          \/ sp_context_enter(t) \/ sp_context_exit(t) \/ WriteMask(t)
    \/ SwitchTracing

Spec == Init /\ [][Next]_vars

-----------------------------------------------------------------------------
\* Two contexts never share a bit and each is registered under its own name;
\* a call is marked with exactly the contexts that are entered, as long as no
\* two threads change the mask at the same time; and no bit is declared that
\* no thread was given.
ContextsKeptApart ==
    /\ \A t, u \in Threads : t # u /\ id[t] = id[u] => id[t] = NoBit
    /\ \A t \in Threads : id[t] # NoBit => registry[id[t]] = t
    /\ ~raced => mask = UNION {Bit(t) : t \in entered}
    /\ declared \subseteq {id[t] : t \in Threads}
=============================================================================
