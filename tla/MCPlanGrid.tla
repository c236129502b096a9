----------------------------- MODULE MCPlanGrid ----------------------------
(* Small instances of MoonepPlanGrid: shapes that divide evenly among the   *)
(* blocks and shapes that do not, on devices of one to three cores.         *)
EXTENDS MoonepPlanGrid

MCPow2 == {1, 2, 4, 8, 16}

MCShapes == {[rows |-> n, experts |-> e, ranks |-> r] :
               n \in {1, 3, 4, 6, 7, 8}, e \in {2, 4}, r \in {2}}
              \cup {[rows |-> 9, experts |-> 3, ranks |-> 3],
                    [rows |-> 5, experts |-> 6, ranks |-> 3]}
=============================================================================
