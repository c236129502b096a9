------------------------------ MODULE MCBackend ------------------------------
(* Tasks, slots and chunks in every relation of their sizes. *)
EXTENDS KdaBackend

Launch(kind, b, n, g, cores, lanes, ragged, zb) ==
  [kind |-> kind, B |-> b, n |-> n, G |-> g, cores |-> cores, lanes |-> lanes,
   ragged |-> ragged, zb |-> zb]

MCShapes ==
  { Launch("rows", 5, 2, 2, 2, 4, TRUE, 1),       \* chunks as long as slots, a short one
    Launch("rows", 5, 2, 4, 1, 2, TRUE, 1),       \* a chunk takes four slots, the last one
    Launch("rows", 3, 3, 1, 2, 4, TRUE, 1),       \* slots and chunks overlap
    Launch("rows", 4, 1, 1, 2, 4, FALSE, 1),      \* four chunks in one slot
    Launch("rows", 4, 3, 2, 2, 4, FALSE, 1),      \* two chunks in three slots
    Launch("heads", 3, 3, 3, 2, 4, FALSE, 1),     \* a head ends in the middle of a slot
    Launch("heads", 2, 3, 2, 1, 2, FALSE, 1),     \* a slot per head
    Launch("compact", 4, 2, 2, 2, 4, FALSE, 1),   \* two waves
    Launch("compact", 2, 2, 1, 2, 2, FALSE, 1),   \* a core without tasks
    Launch("delayed", 4, 2, 2, 2, 4, FALSE, 1),   \* two chunks, gate tiles of one batch
    Launch("delayed", 4, 3, 2, 1, 2, FALSE, 2) }  \* a lane with several tasks
=============================================================================
