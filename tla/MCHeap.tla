------------------------------- MODULE MCHeap ------------------------------
(* Small instances of MoonepHeap.  A block [epn, W] is 4 elements; two      *)
(* slots of two groups fit the heap with bf16 gradient slots behind them,   *)
(* but not with fp32 ones, and three slots do not fit at all.               *)
EXTENDS MoonepHeap
=============================================================================
