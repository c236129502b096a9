---------------------------- MODULE StreamKTiling ---------------------------
(***************************************************************************)
(* How the host divides C = A x B among the cores of a device for the      *)
(* Stream-K matmul: the size of a tile of C, which tiles a core computes   *)
(* over all of k, and how the rest is cut along k.  A call is a record     *)
(* [m, n, k, bytes, aic]: the sizes, the bytes of an element of A and B,   *)
(* and the cores.                                                          *)
(***************************************************************************)
EXTENDS Integers, FiniteSetsExt

CONSTANTS L1Size, L0Size, L0CSize, UBSize   \* bytes of the buffers of a core

\* Those of the device the kernel is written for, or more.
ASSUME BuffersAssumption ==
  /\ {L1Size, L0Size, L0CSize, UBSize} \subseteq Nat
  /\ L0Size >= 65536 /\ L1Size >= 2 * L0Size /\ L0CSize >= 262144 /\ UBSize >= 253952

BLK16 == 16
BLK256 == 256
DB == 2
TASK_RATIO == 2
WINDOW_LEN == 4

CeilDiv(a, b) == IF b = 0 THEN a ELSE (a + b - 1) \div b
CeilAlign(a, unit) == CeilDiv(a, unit) * unit
FloorAlign(a, unit) == (a \div unit) * unit
Smaller(a, b) == IF a < b THEN a ELSE b
Larger(a, b) == IF a < b THEN b ELSE a

-----------------------------------------------------------------------------
(* StreamKTiling: the tile.                                                *)

Tiles256(c) == CeilDiv(c.m, BLK256) * CeilDiv(c.n, BLK256)
FewTiles(c) == Tiles256(c) <= c.aic \div 2

\* The tile is chosen for a split along k when k is long and either there
\* are few tiles, or whole tiles of which few are left over.
LongK(c) == CeilAlign(c.k, BLK256) >= Larger(8192, c.aic * 256) \div c.bytes

ChosenForSplit(c) ==
  /\ LongK(c)
  /\ \/ FewTiles(c)
     \/ /\ c.m % BLK256 = 0 /\ c.n % BLK256 = 0
        /\ Tiles256(c) >= c.aic
        /\ Tiles256(c) % c.aic \in 1 .. c.aic \div 2

\* With few tiles a dimension cut in nearly half as many parts as there are
\* cores is cut in just as many.
Rounded(cnt, aic) ==
  IF aic \div 3 < cnt /\ cnt < aic \div 2 THEN aic \div 2 ELSE cnt

BaseOf(size, aic) ==
  CeilAlign(CeilDiv(size, Rounded(CeilDiv(size, BLK256), aic)), BLK16)

BaseM(c) == IF ChosenForSplit(c) /\ FewTiles(c) THEN BaseOf(c.m, c.aic) ELSE BLK256
BaseN(c) == IF ChosenForSplit(c) /\ FewTiles(c) THEN BaseOf(c.n, c.aic) ELSE BLK256

SingleCoreK(c) ==
  LET parts(size) == Rounded(CeilDiv(size, BLK256), c.aic)
      cnt == IF FewTiles(c) THEN c.aic \div (parts(c.m) * parts(c.n))
             ELSE c.aic \div (Tiles256(c) % c.aic)
  IN  Larger(128 \div c.bytes, FloorAlign(CeilDiv(c.k, cnt), 128 \div c.bytes))

BaseK(c) ==
  IF ChosenForSplit(c)
  THEN Smaller(SingleCoreK(c),
             FloorAlign(L0Size \div (DB * c.bytes * Larger(BaseM(c), BaseN(c))),
                        128 \div c.bytes))
  ELSE 128 \div c.bytes

\* _cal_l1_tiling: the steps of base_k that go to L1 at a time.  Of those
\* that fit twice, a longer one is taken until one is a multiple of 512
\* bytes, and then again while the copies are short.
StepBytes(c, steps) == Larger(BaseM(c), BaseN(c)) * (BaseK(c) * steps) * c.bytes

StepFits(c, steps) ==
  /\ (BaseM(c) + BaseN(c)) * (BaseK(c) * steps) * c.bytes * DB <= L1Size
  /\ StepBytes(c, steps) * DB * 2 <= L1Size

StepBetter(c, old, steps) ==
  LET full(s) == (BaseK(c) * s) % (512 \div c.bytes) = 0
      half(s) == (BaseK(c) * s) % (256 \div c.bytes) = 0
      short == old > 0 => StepBytes(c, old) < 48 * 1024
  IN  \/ old = 0
      \/ ~full(old) /\ (half(steps) \/ short)
      \/ full(old) /\ full(steps) /\ short

StepTaken(c, old, steps) ==
  IF /\ steps <= CeilDiv(c.k, BaseK(c)) /\ StepFits(c, steps)
     /\ StepBetter(c, old, steps)
  THEN steps ELSE old

StepKa(c) ==
  LET taken[s \in 0 .. 8] == IF s = 0 THEN 0 ELSE StepTaken(c, taken[s - 1], s)
  IN  IF ChosenForSplit(c) THEN Larger(1, Smaller(taken[8], 4)) ELSE 1

-----------------------------------------------------------------------------
(* MatmulStreamK: the division of the tiles.                               *)

\* Mutant: the number of parts is not computed again from their length.
SplitsAsked(parts, slabs, per) == parts

\* The parts of k that are not empty when each has "per" slabs.
Splits(parts, slabs, per) == CeilDiv(slabs, per)

\* Mutant: room is not made for the output beside the two partial sums.
SegmentsWanted(from, tileM, tileN) == from

\* The segments of rows in which a tile is reduced: more than asked for when
\* two of them would not fit into UB.
Segments(from, tileM, tileN) ==
  Min({a \in from .. from + tileM : 2 * CeilDiv(tileM, a) * tileN * 4 <= UBSize})

Plan(c) ==
  LET tileM == BaseM(c)
      tileN == BaseN(c)
      tileK == BaseK(c)
      mTiles == CeilDiv(c.m, tileM)
      nTiles == CeilDiv(c.n, tileN)
      total == mTiles * nTiles
      left == total % c.aic
      tail == IF left > c.aic \div 2 THEN 0 ELSE left
      \* _compute_sk_partition
      asked == IF tail = 0 THEN 1 ELSE c.aic \div tail
      kTiles == CeilDiv(c.k, tileK)
      single == CeilDiv(kTiles, asked)
      again == CeilDiv(kTiles, single)
      step == Smaller(StepKa(c), single)
      per == Larger(1, CeilDiv(single, step))
      splits == IF tail = 0 THEN 1
                ELSE Splits(again, CeilDiv(c.k, tileK * step), per)
      \* _compute_aiv_reduce
      byBlocks == IF tail = 0 THEN 1 ELSE (c.aic * TASK_RATIO) \div tail
      segments == Segments(Larger(1, Smaller(TASK_RATIO * splits, byBlocks)), tileM, tileN)
      reduceM == CeilDiv(tileM, segments)
      perTile == Smaller(segments, Larger(1, CeilDiv(c.m, reduceM)))
      \* _compute_workspace
      window == Smaller(WINDOW_LEN, mTiles)
      mainRow == mTiles \div window - 1
  IN  [ tileM |-> tileM, tileN |-> tileN, tileK |-> tileK,
        mTiles |-> mTiles, nTiles |-> nTiles,
        dp |-> total - tail, tail |-> tail,
        slabK |-> tileK * StepKa(c),
        splits |-> splits,
        slabKSk |-> IF tail = 0 THEN tileK * StepKa(c) ELSE tileK * step,
        slabsPer |-> per,
        reduceM |-> reduceM, perTile |-> perTile,
        window |-> window, mainRow |-> mainRow,
        tailWindow |-> mTiles - mainRow * window ]
=============================================================================
