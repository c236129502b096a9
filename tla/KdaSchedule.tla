---------------------------- MODULE KdaSchedule ----------------------------
(***************************************************************************)
(* How the KDA decode kernels divide the state rows of batch x heads       *)
(* recurrent states ("heads" below, numbered over the batch) among the     *)
(* vector lanes of a launch.  An item is a block of rows of one head; a    *)
(* work is what a lane drains through its UB tiles in one go: one item, or *)
(* two whose streams overlap.  Lanes are numbered from 0.                  *)
(***************************************************************************)
EXTENDS Integers, Sequences

CONSTANTS
  TILE,             (* rows of a head's state                              *)
  VL,               (* rows of half a head                                 *)
  SMALL_ROW_BLOCK,  (* rows of a block when there are few heads            *)
  SmallLimit,       (* SMALL_BATCH_HEAD_LIMIT: heads that count as few     *)
  MediumLimit       (* MEDIUM_BATCH_HEAD_LIMIT: heads cut into halves      *)

ASSUME ScheduleAssumption ==
  /\ VL \in Nat \ {0} /\ TILE = 2 * VL
  /\ SMALL_ROW_BLOCK \in Nat \ {0} /\ TILE % SMALL_ROW_BLOCK = 0
  /\ SmallLimit \in Nat /\ MediumLimit \in Nat /\ SmallLimit <= MediumLimit

(* Block number "part" of head h, when the head is cut into blocks of n rows. *)
Item(h, part, n) == [head |-> h, first |-> part * n, rows |-> n]

ItemRows(i) == i.first .. i.first + i.rows - 1

RowBlock(bh) ==
  IF bh <= SmallLimit THEN SMALL_ROW_BLOCK
  ELSE IF bh <= MediumLimit THEN VL ELSE TILE

(* Blocks of a launch on a device with aic cube cores, two lanes to each.    *)
(* The snapshot kernel counts vector cores instead, at most 64; it deals its *)
(* rows by the index of the block as verify does.  Here 2 * aic stands for   *)
(* its count, which is therefore even.                                       *)
Launch(bh, aic) ==
  LET total == bh * (TILE \div RowBlock(bh))
  IN  IF total < 2 * aic THEN total ELSE 2 * aic

Block(w, n) == LET parts == TILE \div n IN Item(w \div parts, w % parts, n)

(* Verify: a run of adjacent blocks per lane. *)
AdjacentBlocks(bh, lanes, l, n) ==
  LET total == bh * (TILE \div n)
      share == (total + lanes - 1) \div lanes
      end   == IF (l + 1) * share > total THEN total ELSE (l + 1) * share
  IN  [i \in 1 .. end - l * share |-> <<Block(l * share + i - 1, n)>>]

(* Commit: every lanes-th block. *)
StridedBlocks(bh, lanes, l, n) ==
  LET total == bh * (TILE \div n)
  IN  [i \in 1 .. (total - l + lanes - 1) \div lanes |->
         <<Block(l + (i - 1) * lanes, n)>>]

(* Mutant: the two lanes of a split head both take its first half. *)
HalfTop(h, rank) == Item(h + rank \div 2, 0, VL)

(* The heads from h on are cut in two: half number "rank" of them. *)
Half(h, rank) == Item(h + rank \div 2, rank % 2, VL)

(* Half heads are dealt out evenly; a lane joins its halves to heads, and *)
(* only a lane with an odd number of them gets one half of a split head.  *)
MinimalSplit(bh, lanes, l) ==
  LET base  == (2 * bh) \div lanes
      extra == 2 * bh - base * lanes
      wide  == (base + 1) \div 2
      delta == wide - base \div 2
      fulls == IF l < extra THEN wide ELSE base \div 2
      start == l * (base \div 2) + (IF l < extra THEN l ELSE extra) * delta
      split == lanes * (base \div 2) + extra * delta
  IN  [i \in 1 .. fulls |-> <<Item(start + i - 1, 0, TILE)>>]
      \o (IF base % 2 = 0 /\ l < extra THEN <<<<Half(split, l)>>>> ELSE <<>>)
      \o (IF base % 2 = 1 /\ l >= extra THEN <<<<Half(split, l - extra)>>>> ELSE <<>>)

FullPair(p) == <<Item(2 * p, 0, TILE), Item(2 * p + 1, 0, TILE)>>

(* An even number of heads: pairs of heads, or a head and half a head. *)
Paired(bh, lanes, l) ==
  LET splitters == 2 * bh - 3 * lanes   (* pair_lanes when heads are split *)
      pairs     == bh - lanes           (* pair_lanes when they are not    *)
      rank      == l - splitters
  IN  CASE lanes >= bh ->
             IF l < bh THEN <<<<Item(l, 0, TILE)>>>> ELSE <<>>
        [] lanes <= bh \div 2 ->
             [i \in 1 .. (bh \div 2 - l + lanes - 1) \div lanes |->
                FullPair(l + (i - 1) * lanes)]
        [] lanes > bh \div 2 /\ 3 * lanes <= 2 * bh ->
             IF l < splitters THEN <<FullPair(l)>>
             ELSE << <<Item(2 * splitters + rank, 0, TILE),
                       Half(2 * splitters + (lanes - splitters), rank)>> >>
        [] lanes < bh /\ 3 * lanes > 2 * bh ->
             IF l < pairs THEN <<FullPair(l)>>
             ELSE <<<<Item(pairs + l, 0, TILE)>>>>

VerifyWorks(bh, lanes, l) ==
  IF bh > MediumLimit THEN MinimalSplit(bh, lanes, l)
  ELSE AdjacentBlocks(bh, lanes, l, RowBlock(bh))

CommitWorks(bh, lanes, l) ==
  IF bh <= MediumLimit THEN StridedBlocks(bh, lanes, l, RowBlock(bh))
  ELSE IF bh % 2 = 0 THEN Paired(bh, lanes, l)
  ELSE MinimalSplit(bh, lanes, l)
=============================================================================
