------------------------------ MODULE ShmPosix ------------------------------
(***************************************************************************)
(* The POSIX shared memory tracing library                                 *)
(* (src/modules/sp_rtrace_shmposix.c): the wrappers of shm_open,           *)
(* shm_unlink, open, open64, creat, mmap, mmap64, munmap and close, the    *)
(* registries they share without a lock (descriptor -> type, address ->    *)
(* descriptor, name -> id) and the leak filter on the trace.               *)
(*                                                                         *)
(* Entries are never removed from the registries (DO_CLEANUP is 0): they   *)
(* are overwritten when the descriptor or the address is used again, and   *)
(* close and munmap take the type of what they release from them after it  *)
(* is gone.                                                                *)
(***************************************************************************)
EXTENDS Naturals, Sequences, FiniteSets

CONSTANTS Threads,      \* threads of the traced process
          Fds,          \* descriptors
          Addrs,        \* addresses that mmap returns
          Names,        \* names of shared memory objects
          HashSize,     \* ids are unsigned ints: 0..HashSize-1
          RawHash,      \* nreg_calc_raw_hash of every name
          MaxLeft,      \* bound on the calls the report may hold for one address,
                        \* one descriptor and all objects
          MaxAstray     \* bound on the resources that are ever raced or confused

ASSUME BoundsAssumption ==
    /\ {HashSize, MaxLeft, MaxAstray} \subseteq Nat
    /\ HashSize > Cardinality(Names)
    /\ RawHash \in [Names -> 0..(HashSize - 1)]

ASSUME ProcessAssumption ==
    /\ IsFiniteSet(Threads) /\ IsFiniteSet(Names)
    /\ Fds \cap Addrs = {} /\ "none" \notin Fds

VARIABLES
    kfd,        \* what is open at every descriptor
    kmap,       \* what is mapped at every address: the kind of descriptor or "anon"
    kobj,       \* the objects that exist
    fdreg,      \* fdreg: the registered type of every descriptor
    addr,       \* addr: the registered descriptor of every address
    nreg,       \* nreg: the registered id of every name
    newid,      \* the id that a thread has found for a name and not yet registered
    todo,       \* the rest of the wrapper that each thread is in
    busy,       \* descriptors and addresses inside a wrapper that got them
    filter,     \* the leak filter over the trace
    raced,      \* descriptors and addresses given out again before the wrapper
                \* that released them has reported it
    confused,   \* addresses whose descriptor was registered again with
                \* another type since they were mapped
    clashed     \* two threads were in nreg_get_hash for new names at a time

vars == <<kfd, kmap, kobj, fdreg, addr, nreg, newid, todo, busy, filter, raced,
          confused, clashed>>

NoFd     == "none"
FdTypes  == {"unknown", "posix", "file"}         \* FD_UNKNOWN, FD_POSIX, FD_FILE
MapTypes == {"pshmmap", "fshmmap", "shmmap"}
Ids      == 0..(HashSize - 1)
NoId     == HashSize
Keys     == (MapTypes \X Addrs) \cup ({"pshmfd"} \X Fds) \cup ({"pshmobj"} \X Ids)

INSTANCE LeakFilter WITH RefCounted <- {}

TypeOK ==
    /\ kfd \in [Fds -> {"free", "posix", "file", "other"}]
    /\ kmap \in [Addrs -> {"free", "posix", "file", "other", "anon"}]
    /\ kobj \subseteq Names
    /\ fdreg \in [Fds -> FdTypes]
    /\ addr \in [Addrs -> Fds \cup {NoFd}]
    /\ nreg \in [Names -> Ids \cup {NoId}] /\ newid \in [Threads -> Ids \cup {NoId}]
    /\ \A t \in Threads : Len(todo[t]) <= 4
    /\ filter \in [Keys -> [left : 0..MaxLeft, refs : 0..1]]
    /\ busy \cup raced \subseteq Fds \cup Addrs /\ confused \subseteq Addrs
    /\ clashed \in BOOLEAN

Init ==
    /\ kfd = [f \in Fds |-> "free"] /\ kmap = [a \in Addrs |-> "free"] /\ kobj = {}
    /\ fdreg = [f \in Fds |-> "unknown"] /\ addr = [a \in Addrs |-> NoFd]
    /\ nreg = [n \in Names |-> NoId] /\ newid = [t \in Threads |-> NoId]
    /\ todo = [t \in Threads |-> <<>>]
    /\ busy = {} /\ raced = {} /\ confused = {} /\ clashed = FALSE
    /\ filter = [k \in Keys |-> NoCalls]

-----------------------------------------------------------------------------
\* Steps of a wrapper.
StoreFdNot(f, type) == [do |-> "skip", fd |-> f, type |-> type]   \* mutant: not registered
StoreFd(f, type)  == [do |-> "fdreg_store_fd", fd |-> f, type |-> type]
StoreAddr(a, f)   == [do |-> "addr_store", at |-> a, fd |-> f]
TellFd(f)         == [do |-> "fd", fd |-> f]
FindHash(n)       == [do |-> "hash", name |-> n]
TellObject(c, n)  == [do |-> "object", call |-> c, name |-> n]
TellMap(c, a, f)  == [do |-> "map", call |-> c, at |-> a, fd |-> f]
TellClose(f)      == [do |-> "close", fd |-> f]

Begin(t, program) ==
    /\ todo[t] = <<>>
    /\ todo' = [todo EXCEPT ![t] = program]
    /\ UNCHANGED <<fdreg, addr, nreg, newid, filter, confused, clashed>>

\* The threads that are about to report the release of a descriptor, an address.
Closing(f)   == {t \in Threads : \E i \in DOMAIN todo[t] : todo[t][i] = TellClose(f)}
Unmapping(a) == {t \in Threads : \E i \in DOMAIN todo[t] :
                    todo[t][i].do = "map" /\ todo[t][i].call = "free" /\ todo[t][i].at = a}

GiveOut(x, releasing) ==
    /\ busy' = busy \cup {x}
    /\ raced' = IF releasing # {} THEN raced \cup {x} ELSE raced

\* How many calls the report holds for a set of resources.
CallsLeft(keys) == Cardinality({c \in keys \X (1..MaxLeft) : c[2] <= filter[c[1]].left})

Creating == {t \in Threads : \E i \in DOMAIN todo[t] :
                todo[t][i].do = "object" /\ todo[t][i].call = "alloc"}

ShmOpen(t, n, f, creat) ==
    /\ kfd[f] = "free"
    /\ creat \/ n \in kobj
    /\ creat => CallsLeft({"pshmobj"} \X Ids) + Cardinality(Creating) < MaxLeft
    /\ CallsLeft({<<"pshmfd", f>>}) < MaxLeft
    /\ kfd' = [kfd EXCEPT ![f] = "posix"]
    /\ kobj' = kobj \cup {n}
    /\ Begin(t, IF creat THEN <<StoreFd(f, "posix"), FindHash(n), TellObject("alloc", n),
                           TellFd(f)>>
                         ELSE <<StoreFd(f, "posix"), TellFd(f)>>)
    /\ GiveOut(f, Closing(f))
    /\ UNCHANGED kmap

ShmUnlink(t, n) ==
    /\ n \in kobj
    /\ kobj' = kobj \ {n}
    /\ Begin(t, <<FindHash(n), TellObject("free", n)>>)
    /\ UNCHANGED <<kfd, kmap, busy, raced>>

\* open, open64 and creat only register the descriptor.
Open(t, f) ==
    /\ kfd[f] = "free"
    /\ kfd' = [kfd EXCEPT ![f] = "file"]
    /\ Begin(t, <<StoreFd(f, "file")>>)
    /\ GiveOut(f, Closing(f))
    /\ UNCHANGED <<kmap, kobj>>

\* A descriptor from a function that the library does not trace (openat,
\* socket, dup): what is registered for it is left from an earlier one.
OpenUntraced(f) ==
    /\ kfd[f] = "free"
    /\ kfd' = [kfd EXCEPT ![f] = "other"]
    /\ UNCHANGED <<kmap, kobj, fdreg, addr, nreg, newid, todo, busy, filter, raced,
                   confused, clashed>>

\* mmap and mmap64 of a descriptor, or without one.
Mmap(t, a, f) ==
    /\ kmap[a] = "free"
    /\ IF f = NoFd THEN kmap' = [kmap EXCEPT ![a] = "anon"]
                   ELSE /\ kfd[f] # "free" /\ f \notin busy
                        /\ kmap' = [kmap EXCEPT ![a] = kfd[f]]
    /\ CallsLeft(MapTypes \X {a}) < MaxLeft
    /\ Begin(t, <<StoreAddr(a, f), TellMap("alloc", a, f)>>)
    /\ GiveOut(a, Unmapping(a))
    /\ UNCHANGED <<kfd, kobj>>

Munmap(t, a) ==
    /\ kmap[a] # "free" /\ a \notin busy
    /\ kmap' = [kmap EXCEPT ![a] = "free"]
    /\ Begin(t, <<TellMap("free", a, NoFd)>>)
    /\ UNCHANGED <<kfd, kobj, busy, raced>>

Close(t, f) ==
    /\ kfd[f] # "free" /\ f \notin busy
    /\ kfd' = [kfd EXCEPT ![f] = "free"]
    /\ Begin(t, <<TellClose(f)>>)
    /\ UNCHANGED <<kmap, kobj, busy, raced>>

-----------------------------------------------------------------------------
CalcHashRaw(n) == RawHash[n]   \* mutant: without the search for a free id

\* nreg_calc_hash: the first id from the name's raw hash on that no name has.
CalcHash(n) ==
    LET id(k)  == (RawHash[n] + k) % HashSize
        free   == {k \in Ids : \A m \in Names : nreg[m] # id(k)}
    IN  id(CHOOSE k \in free : \A l \in free : k <= l)

\* nreg_get_hash looks the name up first; tsearch keeps the node of a name that
\* another thread has registered in between.
GetHash(t, n) == IF nreg[n] # NoId THEN nreg[n] ELSE newid[t]

\* The type of a mapping: that of the registered descriptor of its address.
MapType(f) ==
    CASE f = NoFd \/ (f # NoFd /\ fdreg[f] = "unknown") -> "shmmap"
      [] f # NoFd /\ fdreg[f] = "posix"                  -> "pshmmap"
      [] OTHER                                           -> "fshmmap"

Call(type, res, id) == [type |-> type, res |-> res, id |-> id]

\* What a step writes to the trace, if anything.
Written(t, step) ==
    CASE step.do = "fd"     -> {Call("alloc", "pshmfd", step.fd)}
      [] step.do = "object" -> {Call(step.call, "pshmobj", GetHash(t, step.name))}
      [] step.do = "map"    -> {Call(step.call,
                                     MapType(IF step.call = "alloc" THEN step.fd ELSE addr[step.at]),
                                     step.at)}
      [] step.do = "close" /\ fdreg[step.fd] = "posix" -> {Call("free", "pshmfd", step.fd)}
      [] OTHER -> {}

\* One step of a wrapper.  What the wrapper got is the program's when it has
\* returned.
WrapperStep(t) ==
    /\ todo[t] # <<>>
    /\ LET step == Head(todo[t])
           done == Tail(todo[t]) = <<>>
       IN  /\ fdreg' = IF step.do = "fdreg_store_fd"
                       THEN [fdreg EXCEPT ![step.fd] = step.type] ELSE fdreg
           /\ addr' = IF step.do = "addr_store"
                      THEN [addr EXCEPT ![step.at] = step.fd] ELSE addr
           /\ nreg' = IF step.do = "object"
                      THEN [nreg EXCEPT ![step.name] = GetHash(t, step.name)] ELSE nreg
           /\ newid' = [newid EXCEPT ![t] =
                    IF step.do = "hash" /\ nreg[step.name] = NoId
                    THEN CalcHash(step.name) ELSE NoId]
           /\ clashed' = IF step.do = "hash" /\ nreg[step.name] = NoId
                         THEN clashed \/ \E u \in Threads : newid[u] # NoId ELSE clashed
           /\ filter' = IF Written(t, step) = {} THEN filter
                        ELSE RemoveFreed(filter, CHOOSE c \in Written(t, step) : TRUE)
           /\ confused' = IF step.do = "fdreg_store_fd"
                THEN confused \cup {a \in Addrs :
                        /\ kmap[a] # "free" \/ Unmapping(a) # {}
                        /\ addr[a] = step.fd \/ \E u \in Threads :
                              \E i \in DOMAIN todo[u] : todo[u][i] = StoreAddr(a, step.fd)
                        /\ fdreg[step.fd] # step.type}
                ELSE confused
           /\ busy' = CASE done /\ step.do \in {"fd", "fdreg_store_fd"}   -> busy \ {step.fd}
                        [] done /\ step.do = "map" /\ step.call = "alloc" -> busy \ {step.at}
                        [] OTHER -> busy
    /\ todo' = [todo EXCEPT ![t] = Tail(@)]
    /\ UNCHANGED <<kfd, kmap, kobj, raced>>

Step ==
    \/ \E f \in Fds : OpenUntraced(f)
    \/ \E t \in Threads :
        \/ WrapperStep(t)
        \/ \E n \in Names : ShmUnlink(t, n)
        \/ \E f \in Fds : Open(t, f) \/ Close(t, f)
        \/ \E f \in Fds, n \in Names, creat \in BOOLEAN : ShmOpen(t, n, f, creat)
        \/ \E a \in Addrs : Munmap(t, a)
        \/ \E a \in Addrs, f \in Fds \cup {NoFd} : Mmap(t, a, f)

Next ==
    /\ Step
    /\ Cardinality(raced' \cup confused') <= MaxAstray

Spec == Init /\ [][Next]_vars

-----------------------------------------------------------------------------
\* An address that is mapped is in the leak report under one of the three
\* mapping types, whatever happened to its descriptor and in whatever order
\* the wrappers wrote: a release of the wrong type never takes the last call
\* for an address that is in use out of the report.
MappedIsReported ==
    \A a \in Addrs :
        (kmap[a] # "free" /\ a \notin busy) =>
            \E m \in MapTypes : filter[<<m, a>>].left >= 1

\* The report of a mapping is exact as long as its descriptor was not
\* registered again with another type and no release was overtaken.
ExactMappings ==
    \A a \in Addrs :
        (a \notin raced \cup confused \cup busy /\ Unmapping(a) = {}) =>
            LET lefts == {m \in MapTypes : filter[<<m, a>>].left > 0}
            IN  IF kmap[a] = "free" THEN lefts = {}
                ELSE Cardinality(lefts) = 1 /\ \A m \in lefts : filter[<<m, a>>].left = 1

\* The descriptors in the report are those of open shared memory objects, when
\* no close was overtaken by the next open of its descriptor.
ExactDescriptors ==
    \A f \in Fds :
        (f \notin raced \cup busy /\ Closing(f) = {}) =>
            filter[<<"pshmfd", f>>].left = IF kfd[f] = "posix" THEN 1 ELSE 0

\* An object that exists is in the report, also when it was unlinked and
\* created again by two threads, or got the id of another object.
ObjectIsReported ==
    (\A t \in Threads : todo[t] = <<>>) =>
        \A n \in kobj : nreg[n] # NoId /\ filter[<<"pshmobj", nreg[n]>>].left >= 1

\* Two names never get the same id, also when their raw hashes collide and the
\* search for a free id wraps around, unless two threads registered new names
\* at the same time.
DistinctIds ==
    ~clashed => \A m, n \in Names : (m # n /\ nreg[m] # NoId) => nreg[m] # nreg[n]
=============================================================================
