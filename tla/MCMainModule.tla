---------------------------- MODULE MCMainModule ----------------------------
(* The main tracing module on small instances: a buffer of 3 cells, whose  *)
(* function calls take 2 and the other packets 1, so that the initial data *)
(* and a few calls overflow it.                                            *)
EXTENDS MainModule, TLC

MCSize == [k \in Kinds |-> IF k = "FC" THEN 2 ELSE 1]

(* One module, one resource type.                                          *)
MCRegisters == <<<<1>>>>

(* No guard reads what has been written: the cells, the streams and the    *)
(* history of accepted calls tell no two behaviours apart.                 *)
ControlView ==
    <<enable, fd_proc, Len(out), closed, head, locked, initMode, moduleOn,
      moduleAt, modules, resourceType, resources, arena, initLock, exited,
      stack, calls, toggles>>

Symmetry == Permutations(Threads)
=============================================================================
