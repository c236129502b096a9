--------------------------- MODULE MoonepPlanGrid --------------------------
(***************************************************************************)
(* The grid of the plan kernel (_PlanKernel.__call__, moonep_plan.py): how  *)
(* its blocks share three phases of work, separated by global_sync_all.    *)
(*                                                                         *)
(*   phase 0   exchange and greedy (block 0), counts per chunk of tokens    *)
(*   phase 1   replica tables per rank, prefix rows per expert             *)
(*   phase 2   virtual expert ids per chunk of tokens                      *)
(*                                                                         *)
(* Chunks, ranks and experts are dealt out by block index, from numbers of  *)
(* blocks the host computes (_plan_chunking, _pfx_block_count) from the     *)
(* shape and from the cores of the device.  A block keeps its core until it *)
(* ends, and global_sync_all waits for every block of the grid.  Of the     *)
(* tables in the workspace the model keeps which parts have been written.  *)
(***************************************************************************)
EXTENDS Integers, FiniteSetsExt

CONSTANTS Shapes,       \* records: rows, experts and ranks of a call
          Cores,        \* numbers of vector cores of a device
          MaxBlocks,    \* _MAX_PLAN_BLOCKS
          ChunkMin,     \* _CHUNK_MIN
          Pow2          \* the powers of two a chunk may have as its size

ASSUME CoresAssumption == Cores \subseteq Nat \ {0}
ASSUME BlocksAssumption == {MaxBlocks, ChunkMin} \subseteq Nat \ {0}
ASSUME Pow2Assumption == Pow2 \subseteq Nat \ {0} /\ 1 \in Pow2
ASSUME ShapesAssumption ==
    \A s \in Shapes : /\ s.rows \in Nat \ {0} /\ s.ranks \in Nat \ {0}
                      /\ s.experts \in Nat \ {0}
                      /\ s.experts % s.ranks = 0

VARIABLES
    shape,    \* the shape of this call
    cores,    \* cores of this device
    plan,     \* the numbers of chunks and blocks compiled for them
    pc,       \* pc[b]: queued, or the work block b is at, or ended
    turn,     \* turn[b]: how many times it has gone round its current loop
    written   \* parts of the tables, each with the block that has written it

vars == <<shape, cores, plan, pc, turn, written>>

CeilDiv(a, b) == (a + b - 1) \div b
LargestDivisor(n, bound) == Max({d \in 1..bound : n % d = 0})
Least(a, b) == IF a < b THEN a ELSE b
Greater(a, b) == IF a < b THEN b ELSE a

\* resident_blocks: a device reports its cores, at least one, and the same number
\* when the kernel is compiled and when it is launched (CoresAssumption); the
\* code caches the number, and takes 16 for a report of 0.
ResidentBlocks(n) == Least(MaxBlocks, n)

\* _plan_chunking: at least ChunkMin rows and no more chunks than blocks,
\* rounded up to a power of two and then down to one that divides the rows.
ChunkWanted(s, n) == Greater(ChunkMin, CeilDiv(s.rows, ResidentBlocks(n)))

\* The code shifts 1 as far as need be; Pow2 has to hold the result.
ASSUME Pow2Suffices ==
    \A s \in Shapes, n \in Cores : \E p \in Pow2 : p >= ChunkWanted(s, n)

ChunkStart(s, n) == Min({p \in Pow2 : p >= ChunkWanted(s, n)})
Chunk(s, n) == Max({p \in Pow2 : p <= ChunkStart(s, n) /\ s.rows % p = 0})
NumChunks(s, n) == s.rows \div Chunk(s, n)

\* Mutant: not rounded down to a divisor of the number of chunks.
TokenBlocksUneven(s, n) == Least(NumChunks(s, n), ResidentBlocks(n))

TokenBlocks(s, n) ==
    LargestDivisor(NumChunks(s, n), Least(NumChunks(s, n), ResidentBlocks(n)))

\* _pfx_block_count
PfxBlocks(s, n) ==
    LargestDivisor(s.experts, Least(s.experts, ResidentBlocks(n)))

\* Mutant: one block per chunk or expert, whatever the device.
GridUncapped(s, n) == Greater(NumChunks(s, n), s.experts)

\* _moonep_plan_host: the blocks of the launch.
Grid(s, n) == Least(Greater(TokenBlocks(s, n), PfxBlocks(s, n)),
                    ResidentBlocks(n))

\* The constants that are compiled into the kernel.
Plan(s, n) == [chunks |-> NumChunks(s, n), token |-> TokenBlocks(s, n),
               pfx |-> PfxBlocks(s, n), grid |-> Grid(s, n)]

Blocks == 0 .. plan.grid - 1

\* The parts of the tables.
Chunks == 0 .. plan.chunks - 1
Experts == 0 .. shape.experts - 1
RanksOf == 0 .. shape.ranks - 1
Demand == <<"demand", 0>>
Greedy == <<"greedy", 0>>     \* rem, order, rhome, vid and cu
CountsOf(i) == <<"counts", i>>
ReplicasOf(r) == <<"replicas", r>>
PrefixOf(e) == <<"prefix", e>>
VtopkOf(i) == <<"vtopk", i>>

Parts == {Demand, Greedy}
           \cup {CountsOf(i) : i \in Chunks} \cup {VtopkOf(i) : i \in Chunks}
           \cup {ReplicasOf(r) : r \in RanksOf}
           \cup {PrefixOf(e) : e \in Experts}

Written(p) == \E b \in Blocks : <<p, b>> \in written
Write(b, p) == written' = written \cup {<<p, b>>}

Init ==
    /\ shape \in Shapes
    /\ cores \in Cores
    /\ plan = Plan(shape, cores)
    /\ pc = [b \in Blocks |-> "queued"]
    /\ turn = [b \in Blocks |-> 0]
    /\ written = {}

Goto(b, l) == pc' = [pc EXCEPT ![b] = l] /\ turn' = [turn EXCEPT ![b] = 0]
Round(b) == turn' = [turn EXCEPT ![b] = @ + 1] /\ UNCHANGED pc

-----------------------------------------------------------------------------
\* A queued block gets a core that no other block occupies.
Schedule(b) ==
    /\ pc[b] = "queued"
    /\ Cardinality({x \in Blocks : pc[x] \notin {"queued", "ended"}}) < cores
    /\ Goto(b, IF b = 0 THEN "exchange" ELSE "count")
    /\ UNCHANGED <<shape, cores, plan, written>>

Exchange(b) ==
    /\ pc[b] = "exchange"
    /\ Write(b, Demand)
    /\ Goto(b, "count")
    /\ UNCHANGED <<shape, cores, plan>>

\* The chunks of a token block in one phase: bi, bi + token_blocks, ...
HasChunk(b) == b < plan.token /\ turn[b] < plan.chunks \div plan.token
ChunkOf(b) == b + turn[b] * plan.token

Count(b) ==
    /\ pc[b] = "count"
    /\ HasChunk(b)
    /\ Write(b, CountsOf(ChunkOf(b)))
    /\ Round(b)
    /\ UNCHANGED <<shape, cores, plan>>

CountDone(b) ==
    /\ pc[b] = "count"
    /\ ~HasChunk(b)
    /\ Goto(b, IF b = 0 THEN "greedy" ELSE "sync0")
    /\ UNCHANGED <<shape, cores, plan, written>>

GreedyAll(b) ==
    /\ pc[b] = "greedy"
    /\ Write(b, Greedy)
    /\ Goto(b, "sync0")
    /\ UNCHANGED <<shape, cores, plan>>

\* Mutant: each block goes on when it has arrived.
GlobalSyncAllAlone(b, from, to) ==
    /\ pc[b] = from
    /\ Goto(b, to)
    /\ UNCHANGED <<shape, cores, plan, written>>

After(l) == CASE l = "sync0" -> {"sync0", "tables", "pfx", "sync1", "assign",
                                 "ended"}
              [] l = "sync1" -> {"sync1", "assign", "ended"}

\* global_sync_all: all blocks of the grid have come as far.
GlobalSyncAll(b, from, to) ==
    /\ pc[b] = from
    /\ \A x \in Blocks : pc[x] \in After(from)
    /\ Goto(b, to)
    /\ UNCHANGED <<shape, cores, plan, written>>

\* _tables_loop: the ranks bi, bi + number of blocks, ...
Tables(b) ==
    /\ pc[b] = "tables"
    /\ b + turn[b] * plan.grid < shape.ranks
    /\ Write(b, ReplicasOf(b + turn[b] * plan.grid))
    /\ Round(b)
    /\ UNCHANGED <<shape, cores, plan>>

TablesDone(b) ==
    /\ pc[b] = "tables"
    /\ b + turn[b] * plan.grid >= shape.ranks
    /\ Goto(b, IF b < plan.pfx THEN "pfx" ELSE "sync1")
    /\ UNCHANGED <<shape, cores, plan, written>>

\* _pfx: E / pfx_blocks experts in a row.
ExpertsPer == shape.experts \div plan.pfx

Pfx(b) ==
    /\ pc[b] = "pfx"
    /\ turn[b] < ExpertsPer
    /\ Write(b, PrefixOf(b * ExpertsPer + turn[b]))
    /\ Round(b)
    /\ UNCHANGED <<shape, cores, plan>>

PfxDone(b) ==
    /\ pc[b] = "pfx"
    /\ turn[b] = ExpertsPer
    /\ Goto(b, "sync1")
    /\ UNCHANGED <<shape, cores, plan, written>>

Assign(b) ==
    /\ pc[b] = "assign"
    /\ HasChunk(b)
    /\ Write(b, VtopkOf(ChunkOf(b)))
    /\ Round(b)
    /\ UNCHANGED <<shape, cores, plan>>

AssignDone(b) ==
    /\ pc[b] = "assign"
    /\ ~HasChunk(b)
    /\ Goto(b, "ended")
    /\ UNCHANGED <<shape, cores, plan, written>>

Finished ==
    /\ \A b \in Blocks : pc[b] = "ended"
    /\ UNCHANGED vars

BlockStep(b) ==
    \/ Schedule(b) \/ Exchange(b) \/ Count(b) \/ CountDone(b) \/ GreedyAll(b)
    \/ GlobalSyncAll(b, "sync0", "tables")
    \/ Tables(b) \/ TablesDone(b) \/ Pfx(b) \/ PfxDone(b)
    \/ GlobalSyncAll(b, "sync1", "assign")
    \/ Assign(b) \/ AssignDone(b)

Next == (\E b \in Blocks : BlockStep(b)) \/ Finished

Spec == Init /\ [][Next]_vars

\* Every block that has a core runs, and one that is queued gets a core that
\* stays free.
FairSpec ==
    Spec /\ \A b \in 0 .. MaxBlocks - 1 : WF_vars(b \in Blocks /\ BlockStep(b))

-----------------------------------------------------------------------------
\* The parts that the work at a label reads.
Reads(l) ==
    CASE l = "greedy" -> {Demand}
      [] l = "tables" -> {Greedy}
      [] l = "pfx"    -> {Demand, Greedy} \cup {CountsOf(i) : i \in Chunks}
      [] l = "assign" -> {Greedy} \cup {PrefixOf(e) : e \in Experts}
                           \cup {ReplicasOf(r) : r \in RanksOf}
      [] OTHER        -> {}

(* A block reads a table only when the blocks that fill it are through with *)
(* it: nothing is read that an earlier call has left in the workspace.      *)
ReadsAreFresh ==
    \A b \in Blocks : \A p \in Reads(pc[b]) : Written(p)

(* When the kernel ends every part of every table has been written, by one  *)
(* block: the blocks leave no chunk, rank or expert out and share none,     *)
(* however the shape relates to the number of cores.                        *)
WorkIsPartitioned ==
    (\A b \in Blocks : pc[b] = "ended") =>
        /\ \A p \in Parts : Written(p)
        /\ Cardinality(written) = Cardinality(Parts)

(* The kernel ends on every device: a grid barrier never waits for a block  *)
(* that waits for a core.                                                   *)
KernelEnds == <>(\A b \in Blocks : pc[b] = "ended")
=============================================================================
