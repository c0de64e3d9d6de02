------------------------------ MODULE ShmSysV ------------------------------
(***************************************************************************)
(* The System V shared memory tracing library                              *)
(* (src/modules/sp_rtrace_shmsysv.c): the wrappers of shmget, shmctl,      *)
(* shmat and shmdt, the table addr2shmid and the leak filter on the trace. *)
(*                                                                         *)
(* A segment is destroyed when it is marked for removal and its last       *)
(* attachment goes.  The library finds out whether its own call destroys   *)
(* the segment by reading the attachment count before it makes the call;   *)
(* other threads, and the other processes that use the segment, may attach *)
(* and detach in between.                                                  *)
(***************************************************************************)
EXTENDS Integers, Sequences, FiniteSets

CONSTANTS Workers,      \* threads of the traced process
          Segments,     \* segment ids: never used again
          Places,       \* addresses in the traced process
          MaxCalls      \* bound on the calls the report may hold for one resource

VARIABLES
    seg,        \* "none", "own" (shm_cpid is this process), "foreign" or "gone"
    dest,       \* SHM_DEST
    at,         \* the segment attached at every address of this process
    outer,      \* the attachments of other processes
    addr2shmid, \* the library's table: the own segment attached at an address
    prog,       \* the rest of the wrapper that each thread is in
    nattach,    \* the attachment count that a wrapper has read, -1 for none
    leaks,      \* the leak filter over the trace
    gets,       \* how often a segment was got with IPC_CREAT
    overtaken,  \* segments whose count changed after a wrapper read it
    untold      \* segments whose creation or destruction is not in the trace:
                \* another process did it, or shmget without IPC_CREAT

vars == <<seg, dest, at, outer, addr2shmid, prog, nattach, leaks, gets, overtaken, untold>>

NoSeg == "no segment"
Keys  == ({"segment", "control"} \X Segments) \cup ({"address"} \X Places)

INSTANCE LeakFilter WITH RefCounted <- {"segment"}

TypeOK ==
    /\ seg \in [Segments -> {"none", "own", "foreign", "gone"}]
    /\ dest \subseteq Segments
    /\ at \in [Places -> Segments \cup {NoSeg}]
    /\ outer \in [Segments -> 0..1]
    /\ addr2shmid \in [Places -> Segments \cup {NoSeg}]
    /\ \A t \in Workers : Len(prog[t]) <= 4
    /\ nattach \in [Workers -> -1..(Cardinality(Places) + 1)]
    /\ leaks \in [Keys -> [left : 0..MaxCalls, refs : 0..MaxCalls]]
    /\ gets \in [Segments -> 0..MaxCalls]
    /\ overtaken \subseteq Segments /\ untold \subseteq Segments

Init ==
    /\ seg \in [Segments -> {"none", "foreign"}]
    /\ dest = {} /\ at = [a \in Places |-> NoSeg] /\ outer = [s \in Segments |-> 0]
    /\ addr2shmid = [a \in Places |-> NoSeg]
    /\ prog = [t \in Workers |-> <<>>] /\ nattach = [t \in Workers |-> -1]
    /\ leaks = [k \in Keys |-> NoCalls]
    /\ gets = [s \in Segments |-> 0] /\ overtaken = {}
    /\ untold = {s \in Segments : seg[s] = "foreign"}

-----------------------------------------------------------------------------
Exists(s) == seg[s] \in {"own", "foreign"}

\* shm_nattch, given the addresses and the other attachments.
Attached(s, where, others) == Cardinality({a \in Places : where[a] = s}) + others[s]

\* The segments that are left when the kernel has destroyed what is marked for
\* removal and attached nowhere.
Reaped(marked, where, others) ==
    [s \in Segments |->
        IF s \in marked /\ Attached(s, where, others) = 0 THEN "gone" ELSE seg[s]]

\* The segment whose count a thread has read and not yet acted upon.
Watching(t) ==
    IF prog[t] # <<>> /\ Head(prog[t]).do \in {"control", "rmid", "detach"}
    THEN Head(prog[t]).seg ELSE NoSeg

\* Somebody else than t attaches, detaches or removes segment s.
Overtake(t, s) ==
    overtaken' = IF \E u \in Workers \ {t} : Watching(u) = s
                 THEN overtaken \cup {s} ELSE overtaken

Step(do, s, a)  == [do |-> do, seg |-> s, at |-> a]

Begin(t, program) ==
    /\ prog[t] = <<>>
    /\ prog' = [prog EXCEPT ![t] = program]
    /\ UNCHANGED <<addr2shmid, nattach, leaks, untold>>

\* An own segment that was made without IPC_CREAT: its key is IPC_PRIVATE.
Private(s) == seg[s] = "own" /\ s \in untold

\* shmget with IPC_CREAT reports the segment, a new one and an existing one.  No
\* shmget finds a private segment again.  Without the flag shmget of an existing
\* segment changes nothing.
Shmget(t, s) ==
    /\ seg[s] # "gone" /\ s \notin dest /\ gets[s] < MaxCalls /\ ~Private(s)
    /\ seg' = [seg EXCEPT ![s] = IF @ = "none" THEN "own" ELSE @]
    /\ gets' = [gets EXCEPT ![s] = @ + 1]
    /\ Begin(t, <<Step("got", s, NoSeg)>>)
    /\ UNCHANGED <<dest, at, outer, overtaken>>

\* shmget of IPC_PRIVATE without IPC_CREAT makes a segment and reports nothing.
ShmgetPrivate(t, s) ==
    /\ prog[t] = <<>> /\ seg[s] = "none"
    /\ seg' = [seg EXCEPT ![s] = "own"]
    /\ untold' = untold \cup {s}
    /\ UNCHANGED <<dest, at, outer, addr2shmid, prog, nattach, leaks, gets, overtaken>>

\* Someone in this process uses the segment: its shmget has returned.
Usable(s) == Exists(s) /\ \A t \in Workers : prog[t] # <<>> => Head(prog[t]) # Step("got", s, NoSeg)

\* shmctl with IPC_RMID.
ShmctlRmid(t, s) ==
    /\ Usable(s)
    /\ Begin(t, <<Step("stat", s, NoSeg), Step("control", s, NoSeg), Step("rmid", s, NoSeg)>>)
    /\ UNCHANGED <<seg, dest, at, outer, gets, overtaken>>

Shmat(t, s, a) ==
    /\ Usable(s) /\ at[a] = NoSeg /\ leaks[<<"address", a>>].left < MaxCalls
    /\ at' = [at EXCEPT ![a] = s]
    /\ Overtake(t, s)
    /\ Begin(t, <<Step("map", s, a), Step("attached", s, a)>>)
    /\ UNCHANGED <<seg, dest, outer, gets>>

Busy(a) == \E t \in Workers : \E i \in DOMAIN prog[t] : prog[t][i].at = a

Shmdt(t, a) ==
    /\ at[a] # NoSeg /\ ~Busy(a)
    /\ Begin(t, <<Step("find", at[a], a), Step("detach", at[a], a)>>)
    /\ UNCHANGED <<seg, dest, at, outer, gets, overtaken>>

-----------------------------------------------------------------------------
Tell(type, res, id) == leaks' = RemoveFreed(leaks, [type |-> type, res |-> res, id |-> id])

\* The rest of the program of thread t, with more steps put before it.
Continue(t, more) == prog' = [prog EXCEPT ![t] = more \o Tail(@)]
Doing(t, do)      == prog[t] # <<>> /\ Head(prog[t]).do = do

\* The reports of shmget, shmctl, shmat and shmdt.
ReportStep(t) ==
    /\ \/ Doing(t, "got")      /\ Tell("alloc", "segment", Head(prog[t]).seg)
       \/ Doing(t, "control")  /\ Tell("free", "control", Head(prog[t]).seg)
       \/ Doing(t, "attached") /\ Tell("alloc", "address", Head(prog[t]).at)
       \/ Doing(t, "detached") /\ Tell("free", "address", Head(prog[t]).at)
       \/ Doing(t, "gone")     /\ Tell("free", "segment", Head(prog[t]).seg)
    /\ Continue(t, <<>>)
    /\ UNCHANGED <<seg, dest, at, outer, addr2shmid, nattach, gets, overtaken, untold>>

\* Mutant: no count is read.
StatStepNot(t) ==
    /\ Doing(t, "stat") \/ Doing(t, "find")
    /\ nattach' = [nattach EXCEPT ![t] = -1]
    /\ Continue(t, <<>>)
    /\ UNCHANGED <<seg, dest, at, outer, addr2shmid, leaks, gets, overtaken, untold>>

\* shmctl reads the count of a segment that this process created, shmdt that
\* of a segment that is marked for removal; shmdt drops the table entry.
StatStep(t) ==
    LET s == Head(prog[t]).seg
        a == Head(prog[t]).at
        n == Attached(s, at, outer)
    IN  /\ \/ /\ Doing(t, "stat")
              /\ nattach' = [nattach EXCEPT ![t] = IF seg[s] = "own" THEN n ELSE -1]
              /\ UNCHANGED addr2shmid
           \/ /\ Doing(t, "find")
              /\ nattach' = [nattach EXCEPT ![t] =
                    IF addr2shmid[a] # NoSeg /\ s \in dest THEN n ELSE -1]
              /\ addr2shmid' = [addr2shmid EXCEPT ![a] = NoSeg]
        /\ Continue(t, <<>>)
        /\ UNCHANGED <<seg, dest, at, outer, leaks, gets, overtaken, untold>>

\* shmat notes which own segment is at the address.
MapStep(t) ==
    /\ Doing(t, "map")
    /\ LET step == Head(prog[t])
       IN  addr2shmid' = IF seg[step.seg] = "own"
                         THEN [addr2shmid EXCEPT ![step.at] = step.seg] ELSE addr2shmid
    /\ Continue(t, <<>>)
    /\ UNCHANGED <<seg, dest, at, outer, nattach, leaks, gets, overtaken, untold>>

\* IPC_RMID takes effect, unless the segment is gone; it is reported as
\* destroyed when the count was 0 before.
RmidStep(t) ==
    /\ Doing(t, "rmid")
    /\ LET s == Head(prog[t]).seg
       IN  IF Exists(s)
           THEN /\ dest' = dest \cup {s}
                /\ seg' = Reaped(dest', at, outer)
                /\ Overtake(t, s)
                /\ Continue(t, IF nattach[t] = 0 THEN <<Step("gone", s, NoSeg)>> ELSE <<>>)
           ELSE Continue(t, <<>>) /\ UNCHANGED <<seg, dest, overtaken>>
    /\ nattach' = [nattach EXCEPT ![t] = -1]
    /\ UNCHANGED <<at, outer, addr2shmid, leaks, gets, untold>>

\* The address is detached and reported; the segment is reported as destroyed
\* when it was marked for removal and had one attachment.
DetachStep(t) ==
    /\ Doing(t, "detach")
    /\ LET step == Head(prog[t])
       IN  /\ at' = [at EXCEPT ![step.at] = NoSeg]
           /\ seg' = Reaped(dest, at', outer)
           /\ Overtake(t, step.seg)
           /\ Continue(t, <<Step("detached", step.seg, step.at)>> \o
                    (IF nattach[t] = 1 THEN <<Step("gone", step.seg, NoSeg)>> ELSE <<>>))
    /\ nattach' = [nattach EXCEPT ![t] = -1]
    /\ UNCHANGED <<dest, outer, addr2shmid, leaks, gets, untold>>

-----------------------------------------------------------------------------
\* Another process attaches or detaches the segment or removes it.
OtherProcess(s) ==
    /\ Exists(s)
    /\ \/ outer[s] = 0 /\ outer' = [outer EXCEPT ![s] = 1] /\ UNCHANGED dest
       \/ outer[s] = 1 /\ outer' = [outer EXCEPT ![s] = 0] /\ UNCHANGED dest
       \/ s \notin dest /\ dest' = dest \cup {s} /\ UNCHANGED outer
    /\ seg' = Reaped(dest', at, outer')
    /\ untold' = IF seg'[s] = "gone" THEN untold \cup {s} ELSE untold
    /\ Overtake(NoSeg, s)
    /\ UNCHANGED <<at, addr2shmid, prog, nattach, leaks, gets>>

Next ==
    \/ \E s \in Segments : OtherProcess(s)
    \/ \E t \in Workers :
        \/ ReportStep(t) \/ StatStep(t) \/ MapStep(t) \/ RmidStep(t) \/ DetachStep(t)
        \/ \E s \in Segments : Shmget(t, s) \/ ShmgetPrivate(t, s) \/ ShmctlRmid(t, s)
        \/ \E s \in Segments, a \in Places : Shmat(t, s, a)
        \/ \E a \in Places : Shmdt(t, a)

Spec == Init /\ [][Next]_vars

-----------------------------------------------------------------------------
Settled(s) == \A t \in Workers : \A i \in DOMAIN prog[t] : prog[t][i].seg # s

\* A segment that this process created with IPC_CREAT and that still exists is
\* in the report, unless someone changed its attachments between the library's
\* look at them and the call it decided about.  One that it created without the
\* flag is never in the report.
SegmentIsReported ==
    \A s \in Segments \ overtaken :
        (seg[s] = "own" /\ Settled(s)) =>
            leaks[<<"segment", s>>].left = IF Private(s) THEN 0 ELSE 1

\* A segment that this process created, got once and destroyed is not in the
\* report, unless its attachments were changed in that way: the rule "count 0 at IPC_RMID or count 1
\* at shmdt" finds every destruction exactly once.
DestroyedIsNotReported ==
    \A s \in Segments \ (overtaken \cup untold) :
        (seg[s] = "gone" /\ gets[s] = 1 /\ Settled(s))
            => leaks[<<"segment", s>>].left = 0

\* An attached address is in the report, in every interleaving of the wrappers,
\* and the table knows the own segment behind it.
AttachedIsReported ==
    \A a \in Places :
        (at[a] # NoSeg /\ ~Busy(a)) =>
            /\ leaks[<<"address", a>>].left >= 1
            /\ (seg[at[a]] = "own") => addr2shmid[a] = at[a]
=============================================================================
