------------------------------ MODULE MCDecode ------------------------------
(* Launches that reach every schedule of KdaSchedule, in units of 32 rows. *)
EXTENDS KdaDecode

Call(n, aic, length, slot, least, rounds) ==
  [N |-> n, aic |-> aic, length |-> length, cache |-> slot, least |-> least, rounds |-> rounds]

MCShapes ==
  { Call(1, 1, <<2>>, <<1>>, 1, 3),             \* small blocks
    Call(2, 3, <<2>>, <<>>, 0, 1),              \* small blocks, lanes left without any
    Call(1, 2, <<1, 1, 1>>, <<2, 0, 1>>, 1, 2), \* half heads; padding
    Call(4, 1, <<2>>, <<1>>, 1, 2),             \* minimal split and pairs, snapshots
    Call(5, 2, <<2>>, <<>>, 0, 2),              \* minimal split, even halves and a rest
    Call(7, 2, <<1>>, <<>>, 0, 1),              \* minimal split, odd halves and a rest
    Call(2, 2, <<2, 1>>, <<>>, 0, 2),           \* a lane per head
    Call(2, 1, <<2, 1, 2>>, <<>>, 0, 1),        \* pairs, dealt out to fewer lanes
    Call(2, 2, <<2, 1, 2>>, <<>>, 0, 1),        \* every lane a head and half a head
    Call(10, 3, <<1>>, <<>>, 0, 1),             \* a pair, or a head and a half
    Call(4, 3, <<2, 1>>, <<>>, 0, 1),           \* a pair, or a head
    Call(1, 1, <<3, 1>>, <<>>, 1, 1) }          \* half of the slots dealt anew
=============================================================================
