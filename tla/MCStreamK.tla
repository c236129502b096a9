------------------------------ MODULE MCStreamK -----------------------------
(* Calls whose tiles divide among the cores in every way.                   *)
EXTENDS StreamK

Call(m, n, k, bytes, aic) == [m |-> m, n |-> n, k |-> k, bytes |-> bytes, aic |-> aic]

MCCalls ==
  { Call(1, 1, 8192, 2, 3),        \* one tile in two parts, three cores
    Call(37, 300, 5000, 2, 4),     \* two tiles in two parts each, tails everywhere
    Call(300, 1, 2100, 4, 4),      \* two tiles in two parts each, fp32
    Call(700, 600, 100, 2, 2),     \* one tile left over, short k
    Call(1280, 256, 4096, 2, 4),   \* one tile left over, long k
    Call(513, 513, 30, 4, 4),      \* one tile left over, a single part of k
    Call(1500, 500, 200, 2, 4),    \* no tile left over, windows of rows
    Call(2500, 257, 64, 2, 2),     \* more windows, the last one higher
    Call(760, 10, 4096, 2, 8) }    \* a dimension cut in half as many parts as cores
=============================================================================
