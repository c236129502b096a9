------------------------------ MODULE MCBlock ------------------------------
(* Two loops that a block runs alone.  The search of MoonepRelocate runs on  *)
(* segments of all lengths, empty ones included, and a number of ranks that  *)
(* just needs one more iteration; the pull of MoonepPull, on short rows, on  *)
(* whole segments and on rows with a tail.  They have nothing in common, so  *)
(* the pull is run after the search for a single place.                      *)
EXTENDS MoonepRelocate, MoonepPull

MCPow == [i \in 0 .. Steps |-> 2^i]

MCShapes == (1..6) \X (1..4)

OnePlace == pos = 0 /\ end = [o \in Segs |-> 1]

BlockInit == SearchInit /\ PullInit /\ (OnePlace \/ <<n_chunks, seg_k>> = <<1, 1>>)

\* Without Return, which changes nothing and would hide that the pull is stuck.
SearchStep == (GoLeft \/ GoRight) /\ UNCHANGED pullVars

PullStep == iter = Steps /\ OnePlace /\ PullNext /\ UNCHANGED searchVars

SearchEnds == Return /\ ~OnePlace /\ UNCHANGED pullVars

BlockNext == SearchStep \/ PullStep \/ SearchEnds

BlockSpec == BlockInit /\ [][BlockNext]_<<searchVars, pullVars>>
=============================================================================
