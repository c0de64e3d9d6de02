----------------------------- MODULE MCListener -----------------------------
(* The packet loop with buffers of 4 cells, whose function calls take 3    *)
(* cells and the other packets 1: writes end and reads begin inside them.  *)
EXTENDS Listener

MCSize == [k \in Kinds |-> IF k = "FC" THEN 3 ELSE 1]
MCWrites == <<<<"HS", "OS", "PI", "NL">>, <<"NL", "FC">>, <<"FC", "NL">>,
              <<"AT">>>>

Map(from, to, module) == [from |-> from, to |-> to, module |-> module]
(* A library is loaded, touching the first mapping; another takes the      *)
(* place of one.                                                           *)
MCLayouts == <<<<Map(1, 2, "a")>>,
               <<Map(1, 2, "a"), Map(2, 4, "b")>>,
               <<Map(1, 2, "c"), Map(2, 4, "b")>>>>
=============================================================================
