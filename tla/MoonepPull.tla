----------------------------- MODULE MoonepPull ----------------------------
(***************************************************************************)
(* One block of the pull kernel (_MoonepReducePullAccKernel._pull_seg,     *)
(* samples/mc2/moonep/reduce_grad.py): the home rank fetches the gradient   *)
(* rows that one peer holds for it, through a scratch area in its own       *)
(* memory, and adds them chunk by chunk into its gradient.                 *)
(*                                                                         *)
(* A row has n_chunks chunks.  A short row (of seg_k or less) is fetched at *)
(* once.  A longer one is fetched in segments of seg_k into the halves of   *)
(* the scratch in turn: the gets of a segment are posted, the one before    *)
(* it is consumed while they are under way, and a flush waits for them.    *)
(* Gets land in any order between their post and that flush.               *)
(*                                                                         *)
(* The rows the lane loop finds for this peer are numbered 1..Rows.  Chunk  *)
(* c of the row it is at is represented by <<row, c>>.  The copy of a tile  *)
(* out of the scratch is over when the loop goes on.                       *)
(***************************************************************************)
EXTENDS Integers

CONSTANTS Shapes,       \* pairs <<n_chunks, seg_k>>: chunks per row, and per segment
          Rows          \* rows the peer holds for this rank

ASSUME ShapesAssumption == Shapes \subseteq (Nat \ {0}) \X (Nat \ {0})
ASSUME RowsAssumption == Rows \in Nat

VARIABLES
    n_chunks, seg_k,
    pc,       \* row, flush, loop, consume or drain
    row,      \* the row the block is at
    seg,      \* the last segment posted
    chunk,    \* the next chunk to consume
    scratch,  \* the scratch row of this peer, a tile per chunk
    wire,     \* gets that have not landed: <<tile, chunk>>
    acc       \* acc[i]: times chunk i of the gradient has been added to

pullVars == <<n_chunks, seg_k, pc, row, seg, chunk, scratch, wire, acc>>

\* The path for short rows is the one with a single segment.
Width == IF seg_k < n_chunks THEN seg_k ELSE n_chunks

\* Mutant: the tail segment is forgotten.
NumSegFloor == n_chunks \div Width

NumSeg == (n_chunks + Width - 1) \div Width

\* reduce_grad: columns of the scratch, in chunks.
Cols == IF seg_k < n_chunks THEN 2 * seg_k ELSE n_chunks

SegLo(s) == s * Width

SegHi(s) == IF SegLo(s) + Width > n_chunks THEN n_chunks ELSE SegLo(s) + Width

\* Mutant: only one of the two halves is used.
OffsetFixed(s) == 0

\* Odd segments go to the second half, even ones to the first.
Offset(s) == (s % 2) * Width

Gets(s) == {<<Offset(s) + i - SegLo(s), i>> : i \in SegLo(s) .. SegHi(s) - 1}

PullInit ==
    /\ \E p \in Shapes : n_chunks = p[1] /\ seg_k = p[2]
    /\ pc = "row"
    /\ row = 0
    /\ seg = 0
    /\ chunk = 0
    /\ scratch = [t \in 0 .. Cols - 1 |-> <<0, 0>>]
    /\ wire = {}
    /\ acc = [i \in 0 .. n_chunks - 1 |-> 0]

-----------------------------------------------------------------------------
\* The next lane that is hit: post its first segment.
StartRow ==
    /\ pc = "row"
    /\ row < Rows
    /\ row' = row + 1
    /\ seg' = 0
    /\ wire' = Gets(0)
    /\ pc' = "flush"
    /\ UNCHANGED <<n_chunks, seg_k, chunk, scratch, acc>>

\* xfer.flush(p)
Flush ==
    /\ pc = "flush"
    /\ wire = {}
    /\ pc' = "loop"
    /\ UNCHANGED <<n_chunks, seg_k, row, seg, chunk, scratch, wire, acc>>

\* Post the next segment and turn to the one that has arrived.
NextSegment ==
    /\ pc = "loop"
    /\ seg + 1 < NumSeg
    /\ seg' = seg + 1
    /\ wire' = Gets(seg + 1)
    /\ chunk' = SegLo(seg)
    /\ pc' = "consume"
    /\ UNCHANGED <<n_chunks, seg_k, row, scratch, acc>>

\* There is none: turn to the last segment.
LastSegment ==
    /\ pc = "loop"
    /\ seg + 1 >= NumSeg
    /\ chunk' = SegLo(seg)
    /\ pc' = "drain"
    /\ UNCHANGED <<n_chunks, seg_k, row, seg, scratch, wire, acc>>

\* The segment that is being consumed.
Current == IF pc = "consume" THEN seg - 1 ELSE seg

\* _consume_tile: one chunk from the scratch, added atomically to the row.
ConsumeTile ==
    /\ pc \in {"consume", "drain"}
    /\ chunk < SegHi(Current)
    /\ acc' = [acc EXCEPT ![chunk] = @ + 1]
    /\ chunk' = chunk + 1
    /\ UNCHANGED <<n_chunks, seg_k, pc, row, seg, scratch, wire>>

SegmentDone ==
    /\ pc = "consume"
    /\ chunk = SegHi(Current)
    /\ pc' = "flush"
    /\ UNCHANGED <<n_chunks, seg_k, row, seg, chunk, scratch, wire, acc>>

RowDone ==
    /\ pc = "drain"
    /\ chunk = SegHi(Current)
    /\ pc' = "row"
    /\ UNCHANGED <<n_chunks, seg_k, row, seg, chunk, scratch, wire, acc>>

\* The transfer engine writes one tile of the scratch.
Land ==
    /\ \E g \in wire :
          /\ scratch' = [scratch EXCEPT ![g[1]] = <<row, g[2]>>]
          /\ wire' = wire \ {g}
    /\ UNCHANGED <<n_chunks, seg_k, pc, row, seg, chunk, acc>>

PullFinished ==
    /\ pc = "row"
    /\ row = Rows
    /\ UNCHANGED pullVars

PullNext == \/ StartRow \/ Flush \/ NextSegment \/ LastSegment
        \/ ConsumeTile \/ SegmentDone \/ RowDone
        \/ Land \/ PullFinished

PullSpec == PullInit /\ [][PullNext]_pullVars

-----------------------------------------------------------------------------
(* Every variable has the type its comment gives: in particular no get is   *)
(* posted to a tile outside the scratch or for a chunk outside the row.     *)
TypeOK ==
    /\ <<n_chunks, seg_k>> \in Shapes
    /\ pc \in {"row", "flush", "loop", "consume", "drain"}
    /\ row \in 0..Rows
    /\ seg \in 0 .. NumSeg - 1
    /\ chunk \in 0..n_chunks
    /\ scratch \in [0 .. Cols - 1 -> (0..Rows) \X (0 .. n_chunks - 1)]
    /\ wire \subseteq (0 .. Cols - 1) \X (0 .. n_chunks - 1)
    /\ acc \in [0 .. n_chunks - 1 -> 0..Rows]

(* The tiles the block still has to consume of a segment hold the chunks of *)
(* this row and this segment: they have all landed, and no get of the       *)
(* segment under way goes to one of them.                                   *)
TilesReady ==
    pc \in {"consume", "drain"} =>
        \A i \in chunk .. SegHi(Current) - 1 :
            LET t == Offset(Current) + i - SegLo(Current)
            IN  /\ scratch[t] = <<row, i>>
                /\ \A g \in wire : g[1] # t

(* Between two rows, every chunk of the gradient has been added to exactly  *)
(* once per row: no chunk is skipped at the seam of two segments or in the  *)
(* tail, and none is added twice.                                           *)
EachChunkOnce ==
    pc = "row" => \A i \in 0 .. n_chunks - 1 : acc[i] = row

-----------------------------------------------------------------------------
(* Why: the inductive invariant.                                            *)

\* Where chunk i of segment s goes.
Tile(s, i) == Offset(s) + i - SegLo(s)

\* Gets belong to the segment posted last, and are over before it is turned to.
WireInv == /\ wire \subseteq Gets(seg)
           /\ pc \notin {"flush", "consume"} => wire = {}

\* Each chunk of that segment is under way or in its tile.
PostedInv ==
    pc # "row" =>
        \A i \in SegLo(seg) .. SegHi(seg) - 1 :
            \/ <<Tile(seg, i), i>> \in wire
            \/ scratch[Tile(seg, i)] = <<row, i>>

\* The segment before it stays until it is consumed.
ConsumeInv ==
    /\ pc = "consume" =>
          /\ seg >= 1
          /\ chunk \in SegLo(seg - 1) .. SegHi(seg - 1)
          /\ \A i \in chunk .. SegHi(seg - 1) - 1 :
                scratch[Tile(seg - 1, i)] = <<row, i>>
    /\ pc = "drain" => seg + 1 >= NumSeg /\ chunk \in SegLo(seg) .. SegHi(seg)

\* The chunks of the row that have been added.
Added == CASE pc = "row"                 -> n_chunks
           [] pc \in {"flush", "loop"}   -> SegLo(seg)
           [] pc \in {"consume", "drain"} -> chunk

AddedInv ==
    /\ pc # "row" => row >= 1
    /\ \A i \in 0 .. n_chunks - 1 : acc[i] = IF i < Added THEN row ELSE row - 1

PullInv == TypeOK /\ WireInv /\ PostedInv /\ ConsumeInv /\ AddedInv
=============================================================================
