------------------------------- MODULE StreamK ------------------------------
(***************************************************************************)
(* The Stream-K kernel on the cores of a device.  Every cube unit computes *)
(* its tiles of C over all of k and stores them; then it computes parts of *)
(* k of the tiles left over and stores the partial sums in a workspace.    *)
(* When all have got there, the vector units add the partial sums up, each *)
(* segment of rows of a tile by one of them, and store them in C.  A sum   *)
(* is represented by what has been added: intervals of k.                  *)
(* A call is one of op.run, with A as M x K and B as K x N.                *)
(***************************************************************************)
EXTENDS StreamKTiling

CONSTANT Calls   \* the calls: records [m, n, k, bytes, aic]

\* fp16 and bf16, or fp32; on a device of any number of cores.
ASSUME CallsAssumption ==
  \A c \in Calls : /\ {c.m, c.n, c.k, c.aic} \subseteq Nat \ {0}
                   /\ c.bytes \in {2, 4}

VARIABLES
  call,
  plan,   \* Plan(call)
  core,   \* per cube unit, [path, work]: what it is at
  lane,   \* per vector unit, the number of its next segment
  ws,     \* the workspace: the sum in the slot of each tile and part
  out     \* what has been stored in C: [by, rows, cols, sum]

streamVars == <<call, plan, core, lane, ws, out>>

CubeUnits == 0 .. call.aic - 1
VectorUnits == 0 .. TASK_RATIO * call.aic - 1
SkWork == plan.tail * plan.splits
AivWork == plan.tail * plan.perTile

StreamInit ==
  /\ call \in Calls
  /\ plan = Plan(call)
  /\ core = [c \in CubeUnits |-> [path |-> "dp", work |-> c]]
  /\ lane = [l \in VectorUnits |-> l]
  /\ ws = [i \in 0 .. (plan.dp + plan.tail) * plan.splits - 1 |-> {}]
  /\ out = {}

Cut(from, size, end) == from .. Smaller(from + size, end) - 1

\* What an accumulator holds when it has not been reset.
Stale == <<-1, 0, 0>>

\* The sum of the slabs with these numbers, in part number "part": its first
\* slab resets the accumulator.
SumOf(part, slabs, first, size) ==
  {<<part, s * size, Smaller((s + 1) * size, call.k)>> : s \in slabs}
    \cup (IF first \in slabs THEN {} ELSE {Stale})

-----------------------------------------------------------------------------
(* The cube units.                                                         *)

\* The tiles in windows of a few rows, from left to right and back again.
SlidingTile(i) ==
  LET inMain == (i \div plan.nTiles) \div plan.window < plan.mainRow
      row  == IF inMain THEN (i \div plan.nTiles) \div plan.window ELSE plan.mainRow
      high == IF inMain THEN plan.window ELSE plan.tailWindow
      j    == IF inMain THEN i ELSE i - plan.mainRow * plan.window * plan.nTiles
      n    == (j \div high) % plan.nTiles
  IN  <<row * plan.window + (j % high), IF row % 2 = 0 THEN n ELSE plan.nTiles - 1 - n>>

RowMajorTile(i) == <<i \div plan.nTiles, i % plan.nTiles>>

TileRows(t) == Cut(t[1] * plan.tileM, plan.tileM, call.m)
TileCols(t) == Cut(t[2] * plan.tileN, plan.tileN, call.n)

\* _process_dp_tile
DpTile(c) ==
  /\ core[c].path = "dp" /\ core[c].work < plan.dp
  /\ LET i == core[c].work
         t == IF plan.tail = 0 THEN SlidingTile(i) ELSE RowMajorTile(i)
     IN  out' = out \cup
           {[by |-> <<"cube", i>>, rows |-> TileRows(t), cols |-> TileCols(t),
             sum |-> SumOf(0, 0 .. CeilDiv(call.k, plan.slabK) - 1, 0, plan.slabK)]}
  /\ core' = [core EXCEPT ![c].work = @ + call.aic]
  /\ UNCHANGED <<call, plan, lane, ws>>

DpEnds(c) ==
  /\ core[c].path = "dp" /\ core[c].work >= plan.dp
  /\ core' = [core EXCEPT ![c] = [path |-> "sk", work |-> c]]
  /\ UNCHANGED <<call, plan, lane, ws, out>>

\* A part of k of a tile left over.
SkTile(c) ==
  /\ core[c].path = "sk" /\ core[c].work < SkWork
  /\ LET local == core[c].work \div plan.splits
         part  == core[c].work % plan.splits
         from  == part * plan.slabsPer
         slabs == Cut(from, plan.slabsPer, CeilDiv(call.k, plan.slabKSk))
     IN  ws' = [ws EXCEPT ![(plan.dp + local) * plan.splits + part] =
                  SumOf(part, slabs, from, plan.slabKSk)]
  /\ core' = [core EXCEPT ![c].work = @ + call.aic]
  /\ UNCHANGED <<call, plan, lane, out>>

SkEnds(c) ==
  /\ core[c].path = "sk" /\ core[c].work >= SkWork
  /\ core' = [core EXCEPT ![c].path = "sync"]
  /\ UNCHANGED <<call, plan, lane, ws, out>>

-----------------------------------------------------------------------------
(* The vector units.                                                       *)

\* global_sync_all: every cube unit has stored its partial sums.
Synced == \A c \in CubeUnits : core[c].path = "sync"

\* _aiv_reduce_path: one segment, if there are rows in it.
Reduce(l) ==
  /\ Synced
  /\ lane[l] < AivWork
  /\ LET tile == plan.dp + lane[l] \div plan.perTile
         seg  == lane[l] % plan.perTile
         t    == RowMajorTile(tile)
         rows == TileRows(t) \cap
                   Cut(t[1] * plan.tileM + seg * plan.reduceM, plan.reduceM, call.m)
         sum  == UNION {ws[tile * plan.splits + part] : part \in 0 .. plan.splits - 1}
     IN  out' = IF seg * plan.reduceM < plan.tileM /\ rows # {}
                THEN out \cup {[by |-> <<"vector", lane[l]>>, rows |-> rows,
                                cols |-> TileCols(t), sum |-> sum]}
                ELSE out
  /\ lane' = [lane EXCEPT ![l] = @ + TASK_RATIO * call.aic]
  /\ UNCHANGED <<call, plan, core, ws>>

-----------------------------------------------------------------------------
(* _init_ring_buffers: bytes of the buffers of a core.                      *)

L1Used == DB * (plan.tileM + plan.tileN) * plan.slabK * call.bytes
L0Used == DB * Larger(plan.tileM, plan.tileN) * plan.tileK * call.bytes
L0CUsed == plan.tileM * plan.tileN * 4

\* The partial sums of a segment, those of all parts, and the output.
UBUsed == plan.splits * plan.reduceM * plan.tileN * 4
            + plan.reduceM * plan.tileN * call.bytes

-----------------------------------------------------------------------------
Reduced == /\ \A c \in CubeUnits : core[c].path = "sync"
         /\ \A l \in VectorUnits : lane[l] >= AivWork

Stopped == Reduced /\ UNCHANGED streamVars

StreamNext == \/ \E c \in CubeUnits : DpTile(c) \/ DpEnds(c) \/ SkTile(c) \/ SkEnds(c)
        \/ \E l \in VectorUnits : Reduce(l)
        \/ Stopped

StreamSpec == StreamInit /\ [][StreamNext]_streamVars

-----------------------------------------------------------------------------
\* The intervals of a sum do not overlap, and each begins where another one
\* ends: the first of them at 0, and the last one ends at k.
Whole(sum) ==
  /\ Stale \notin sum
  /\ \A x, y \in sum : x # y => x[3] <= y[2] \/ y[3] <= x[2]
  /\ {x[2] : x \in sum} \cup {call.k} = {x[3] : x \in sum} \cup {0}

(* Whatever is stored in C is a whole product: each k has been added, and   *)
(* once, although the parts were cut twice over and reduced by other cores. *)
(* No element is stored twice, and in the end all of them have been.        *)
ProductWhole ==
  /\ \A s \in out : Whole(s.sum)
  /\ \A s, u \in out : s # u => s.rows \cap u.rows = {} \/ s.cols \cap u.cols = {}
  /\ Reduced => \A i \in 0 .. call.m - 1, j \in 0 .. call.n - 1 :
                   \E s \in out : i \in s.rows /\ j \in s.cols

(* The buffers of the kernel fit into those of a core.  The tile is chosen  *)
(* by what A and B need, and the segment by two partial sums, but UB has to *)
(* hold those of all parts beside the output.                              *)
BuffersFit == L1Used <= L1Size /\ L0Used <= L0Size /\ L0CUsed <= L0CSize /\ UBUsed <= UBSize
=============================================================================
