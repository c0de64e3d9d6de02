--------------------------- MODULE MCSharedMemory ---------------------------
(* The two shared memory libraries.  They have no state in common, so a      *)
(* process that uses one of them shows everything that one that uses both    *)
(* could.                                                                    *)
EXTENDS ShmPosix, TLC

CONSTANTS t1, t2, f1, a1, n1, n2,        \* POSIX instance
          Workers, Segments, Places, MaxCalls

VARIABLES seg, dest, at, outer, addr2shmid, prog, nattach, leaks, gets, overtaken,
          untold, api

S == INSTANCE ShmSysV

ASSUME SysVAssumption ==
    /\ IsFiniteSet(Places)
    /\ S!NoSeg \notin Segments \cup Places \cup Workers

svars == <<seg, dest, at, outer, addr2shmid, prog, nattach, leaks, gets, overtaken,
           untold>>

MCThreads  == {t1, t2}
MCFds      == {f1}
MCAddrs    == {a1}
MCNames    == {n1, n2}
MCRawHash  == [n \in MCNames |-> 2]
MCWorkers  == {t1, t2}
MCSymmetry == Permutations(MCThreads) \cup Permutations(MCNames)

MCInit ==
    /\ api \in {"posix", "sysv"}
    /\ Init
    /\ S!Init
    /\ api = "posix" => \A s \in Segments : seg[s] = "none"

MCNext ==
    \/ api = "posix" /\ Next /\ UNCHANGED <<svars, api>>
    \/ api = "sysv" /\ S!Next /\ UNCHANGED <<vars, api>>

MCSpec == MCInit /\ [][MCNext]_<<vars, svars, api>>

\* A mapped address is in the leak report (ShmPosix).
AddressIsReported == api = "posix" => MappedIsReported

\* The report of mappings and of descriptors is exact unless a wrapper was
\* overtaken or a descriptor got another type (ShmPosix).
PosixReportIsExact == api = "posix" => ExactMappings /\ ExactDescriptors

\* An object that exists is in the report, under an id of its own (ShmPosix).
ObjectsHaveOwnIds == api = "posix" => ObjectIsReported /\ DistinctIds

\* The System V segments that the process creates with IPC_CREAT are in the
\* report as long as they exist and no longer, those it creates without the
\* flag never are, and the addresses they are attached at are in the report.
\* Excepted are the segments whose attachments somebody changed between the
\* library's look at them and its call (ShmSysV).
SegmentsAreReported ==
    api = "sysv" => S!SegmentIsReported /\ S!DestroyedIsNotReported /\ S!AttachedIsReported
=============================================================================
