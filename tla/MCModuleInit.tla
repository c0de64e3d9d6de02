---------------------------- MODULE MCModuleInit ----------------------------
(* The memory library, which emulates its functions while it starts, the     *)
(* file library, which sp_rtrace_initialize calls into when it reads the     *)
(* process name, and the memory transfer library, which it calls into when   *)
(* it parses the size filter.  The others start like one of these.           *)
EXTENDS ModuleInit

MCLibraries == <<"memory", "file", "memtransfer">>
=============================================================================
