# Verification of cannbot-dsl

This directory holds TLA+ models of those parts of cannbot-dsl whose correctness
depends on what several processes, streams, cores or calls do one after or
beside the other:

- the **MoonEP operators** in `src/samples/mc2/moonep/`, which balance the
  expert-parallel load of a mixture-of-experts layer. A plan gives overloaded
  ranks' rows to idle ranks, `prefetch_weight` copies the weights of the lent
  experts to them, and `reduce_grad` brings their gradients home. All of it is
  built on one-sided puts into a symmetric heap, without collectives: the
  ordering of flags, data, streams and buffers that get reused is the operators'
  own responsibility;
- the **KDA speculative-decoding kernels** in `src/samples/attention/`:
  `fused_recurrent_kda_replayssm` (verify), `commit_recurrent_kda_replayssm`,
  `fused_recurrent_kda_snapshot` and parts of `mega_recurrent_kda_replayssm`.
  They keep a recurrent state across calls of which only a prefix is accepted,
  cut it into rows for the vector lanes of a device, and in the fused kernel
  join vector lanes and cube units by cross-core flags;
- the **Stream-K matmul** in `src/samples/matmul/matmul/matmul_streamk.py`,
  which cuts the tiles that are left over along k and adds up the parts.

Contents: 1 the system, 2 the modules, 3 the runs, 4 what the models assume,
5 the proofs, 6 findings, 7 what is not modelled, 8 the plan.

## 1. The system

cannbot-dsl is a collection of operators for Ascend NPUs in a Python DSL. The
DSL itself is not in the repository. Most samples are single-device dataflow
kernels without state between calls. Those with protocols of their own:

| component | state it keeps | operations | hard behaviour | correct when |
|---|---|---|---|---|
| rank barrier (`moonep_context.py`: `sym_barrier`, `busy_wait_flag`) | process counter `_BAR_EPOCH`, one flag array per context | `sym_barrier` | flags are overwritten by faster peers; stale flags; several contexts share a counter | nobody returns before all have called; earlier puts have landed; every call returns |
| demand exchange (`moonep_plan.py`: `_exchange`) | counter `_EPOCH`, the matrix and ready flags in the heap | phase 0 of `moonep_plan` | one buffer per peer for all calls | all ranks plan from the same matrix |
| load balancing (`_greedy_all`) | tables `rem`, `order`, `loads`, `rhome` | R rounds, one block | books the receiver as full without counting | ends balanced; bookkeeping honest; one source per receiver; segments numbered without gaps |
| token placement (`_tables`, `_pfx`, `_assign`, `_relocate`) | the outputs `cu_seqlens`, `experts_to_copy`, `vtopk` | phases 1 and 2 | each rank, and each chunk of tokens, computes places alone | tokens reach their expert; slots fill exactly |
| plan kernel grid (`__call__`, `_plan_chunking`) | workspace tables | three phases, two grid barriers | more blocks than cores; work that does not divide | no stale read; work partitioned; the kernel ends |
| weight prefetch, gradient reduction (`prefetch_weight.py`, `reduce_grad.py`) | weight windows and gradient slots in the heap | push, pull, `finish_op` | a fast rank reuses the slot of a slow one | weights and gradients stay until read |
| pull pipeline (`_pull_seg`) | two halves of a scratch tile | get, flush, add | get into the half being consumed | tiles ready; each chunk added once |
| operator wrappers (`finish_op`, `sync_transport`, `check_pending_overflow`) | transport event, transport stream, pending overflow check | `moonep_plan`, `prefetch_weight`, `reduce_grad` | callers use several streams; one event is recorded again and again; a check is postponed | kernels run in call order; a bad layout is reported; no cycle of waits |
| heap layout (`create_weight_view`, `create_grad_slot_view`) | `window_slots`, `layout_groups`, `pull_slots_used` | view creation in any order | base of one area depends on numbers noted by calls for another | views apart, inside the heap, and read where written |
| ReplaySSM verify (`fused_recurrent_kda_replayssm.py`) | records `u`, `k`, decay; the checkpoint is only read | one launch per round | rows cut in five ways; inputs prefetched by a ring | every row of every candidate computed once, from its own inputs |
| ReplaySSM commit (`commit_recurrent_kda_replayssm.py`) | the checkpoint | one launch per round | two items share a ring and overlap; counts of 0 | the checkpoint is the state after the accepted text |
| Snapshot decoding (`fused_recurrent_kda_snapshot.py`) | a pool of state slots | one launch per round | initial slot chosen by the last call's count, among slots it overwrites | the state it starts from is that of the last accepted token |
| mega kernel, convolution (`mega_recurrent_kda_replayssm.py`) | `conv_state`, a few raw tokens per sequence | first phase of the launch | offset by the last count into rows the call overwrites | each window holds the last four accepted or candidate tokens |
| mega kernel, recurrence and output projection (same file) | flag counters, rows of the workspace | four variants of a loop | lanes run ahead of cubes; lanes without work; chunks that cut through slots | each chunk multiplied once and only when whole; no flag lost; the kernel ends |
| Stream-K matmul (`matmul_streamk.py`) | workspace of partial sums | cube path, global sync, vector reduction | parts counted in tiles and in slabs; buffers fitted to fewer parts than there are | whole products, each element once; buffers fit |

How the MoonEP parts interact: `moonep_plan` exchanges demand (phase 0),
balances and places tokens (phases 0 to 2), and leaves an overflow check pending.
`prefetch_weight` reads `experts_to_copy`, pushes home weights into the peers'
windows and ends in `finish_op`: the rank barrier, followed by the pending check,
or, with `async_finish=True`, only an event. `reduce_grad` aligns the ranks by a
rank barrier, pulls the gradients and ends in `finish_op` as well. Every operator
first makes its stream wait for the last one's event. Dispatch and combine of
tokens belong to `moe_ep`, outside these files, and are not counted on for
synchronisation.

How the KDA parts interact: on one stream, a round convolves the raw projections
of the candidates, verifies them against the checkpoint, and leaves records; the
caller accepts a prefix of each sequence, and commit replays its records into the
checkpoint. The next round's convolution reads the same count. Snapshot decoding
does without records and commit: it stores the state after each candidate and is
told the slot to go on from. The mega kernel does the convolution, the
recurrence and the projection of the output in one launch.

The remaining components (flags in other attention kernels, metadata planners,
the native package build, CI scripts, and those without state) are in section 7.

## 2. The modules

Every row names a module, the modules that instantiate it for TLC (`MC...`) and
those that hold its proofs.

| module | source | state and actions |
|---|---|---|
| `RankBarrier` | `sym_barrier`, what it promises | `at`, `inside`; `Arrive`, `Leave`: leave when all members have arrived |
| `MoonepBarrier`, `MCBarrier`, `MoonepBarrierProofs` | `sym_barrier`, `busy_wait_flag` | one action per kernel step: `SymBarrier` (take an epoch, launch), `PutFlag`, `Flush`, `PollFlag`, `Return`; `PutData` and `Land` are operators' puts and the transport. `script` is the program of barriers that all ranks run, over any groups |
| `MoonepExchange`, `MCExchange`, `MoonepExchangeProofs` | `_exchange` over a sequence of calls | `MoonepPlan`, `PutRowAndFlag`, `Flush`, `CopyOwnRow`, `PollReady`, `CopyRow` (row by row: a peer may write in between), `FinishSync` or `FinishAsync`. The closing barrier is an instance of `RankBarrier`; `script` says which calls it closes |
| `MoonepGreedy` | `_greedy_all` and warp helpers | `StartRound`, `IdleRound`, `MoveExpert`, `SkipExpert`, `EndRound`. The lanes of the warp act as one, since every write is lane 0's between two `syncthreads`. Proofs with those of `MoonepPlan` |
| `MoonepPlan`, `MCPlan`, `MoonepPlanProofs` | `_tables`, `_pfx`, `_assign` | extends `MoonepGreedy` with token lists; the phases that follow are functions of its tables: `ReplicasOn`, `CuSeqlens`, `Pcnt`, `AssignChunk`, `Vtopk` for all ranks |
| `MoonepRelocate`, `MCBlock` | the search in `_relocate` | one action per iteration of its fixed number. Proofs with those of `MoonepPlanGrid` |
| `MoonepPlanGrid`, `MCPlanGrid`, `MoonepPlanGridProofs` | `_PlanKernel.__call__`, `_plan_chunking`, `_pfx_block_count`, grid of `_moonep_plan_host` | block by block; `Schedule` gives a free core; `written` says which part of which table exists and who wrote it |
| `MoonepTrain`, `MCTrain`, `MoonepTrainProofs` | `prefetch_weight`, `reduce_grad`, `finish_op` on all ranks | a program (`prog`) is the sequence of kernels of one step, its window slots, its steps and its plans; slots hold the number of the step whose data they carry; the barrier is an instance of `RankBarrier` |
| `MoonepPull`, `MCBlock` | `_pull_seg` | `PostGet`, landing in any order before the flush, `AddTile`; `half` alternates. Proofs with those of `MoonepTrain` |
| `MoonepHost`, `MCHost`, `MoonepHostProofs` | the three wrappers, `finish_op`, `sync_transport_stream`, `check_pending_overflow` | host calls one after another on any stream, which go on behind the guard (`Guard`) or return or raise there (`Refuse`); streams are FIFO queues of kernels, event records and waits |
| `MoonepHeap`, `MCHeap`, `MoonepHostProofs` | the layout functions and the two `create_*_view` | `CreateWeightView`, `CreateGradSlotView`, `ReduceGradSources`; views are byte intervals |
| `SpecDecode` | what decoding with a recurrent state promises | `text`, `scores`; `Score` every candidate on top of the accepted text, `Accept` a prefix |
| `KdaSchedule` | `_commit_launch_blocks`, the row schedules of verify and commit | operators: the works of each lane, in small blocks, halves, pairs and mixtures |
| `KdaLanes` | what lanes and launches have in common | the lane records, the ring of inputs; rows remember whose they are and the tokens applied to them |
| `KdaReplay` | verify's `_run_recurrent_item`, commit's `execute_item`, `execute_pair` | `VerifyToken`, `CommitToken`, `CommitSkip`: one token of one item, with what is fetched meanwhile |
| `KdaSnapshot` | the snapshot kernel's `_run_recurrent_item` | `SnapshotToken`, and the caller's `Renumber` of the slots |
| `KdaConv` | the convolution in `_run_qkvg_task` | `Convolve`: history at the offset, windows, what is left in the slot |
| `KdaDecode`, `MCDecode`, `KdaDecodeProofs` | the rounds | composes the four above: `Conv`, `Verify`, `Snapshot`, `Accept`, `Commit` and the ends of the launches |
| `KdaBackend`, `MCBackend`, `CubeVectorProofs` | `execute` loops of the mega kernel's backend and their flag helpers | lanes: `Run`, `RunRaw`, `StoreGated`, `Publish`, `TakeAck`; cubes: `ProjectGates`, `OpenGates`, `TakeSlot`, `PassMeeting`, `Project`, `EndSlot`. Flags are counters per flag and waiter |
| `StreamKTiling`, `CubeVectorProofs` | the host's tiling and division | operators: sizes of a tile, parts of k, segments; the real arithmetic on the real buffer sizes |
| `StreamK`, `MCStreamK`, `CubeVectorProofs` | the kernel | cubes: `DpTile`, `SkTile` and their ends; vector units: `Reduce`; a sum is the set of intervals of k added |

How they compose: `MoonepBarrier` implements `RankBarrier` (property
`RefinesRankBarrier`), and `MoonepExchange` and `MoonepTrain` use `RankBarrier`.
`MoonepPlan` extends `MoonepGreedy`; the search that `MoonepPlan!SegmentAt` takes
as a `CHOOSE` is the one that `MoonepRelocate` shows to be computed. The matrix
that `MoonepExchange` shows to be common is `topk`'s demand in `MoonepPlan`.
`KdaDecode` extends `KdaConv`, `KdaReplay` and `KdaSnapshot`, which share
`KdaLanes` and `KdaSchedule`, and implements `SpecDecode` (property
`DecodeRefines`). `StreamK` extends `StreamKTiling`, and `CubeVectorProofs` has the
proofs of the two models in which cube and vector units share the work. `MCBlock` joins two loops of
one block that have nothing in common, the search of `MoonepRelocate` and the
pull of `MoonepPull`.

`PROJECT.json` maps every definition to the source lines it stands for.
Operators commented "Mutant" are not part of any specification: each is a
plausible mistake in the code that one property refutes.

## 3. The runs

Runs that must hold:

| run | asks | instance | distinct states |
|---|---|---|---|
| `barrier` | nobody early, earlier data has landed, the flags implement `RankBarrier`, every call returns | 3 ranks, 2 contexts over all ranks, 2 barriers in every order of contexts, data from rank 0 to rank 1 | 286k |
| `exchange` | one matrix for all ranks, lead of one call, every call ends | 2 ranks, 4 calls, each closed either way | 34k |
| `plan` | the rounds balance with honest books; the places of all tokens fit together | 4 ranks x 2 experts, 4 tokens per rank in chunks of 2, 12870 token lists | 165k |
| `plan_grid` | fresh reads, partition, termination | 14 shapes, 1 to 3 cores, 3 blocks at most | 4.5k |
| `block` | the search finds its segment; tiles ready, each chunk once | search: 8 segments, 4 rows, all monotone rows; pull: rows of 1-6 chunks, segments of 1-4, two rows | 10k |
| `train` | weights and gradients held | 3 ranks; three loops of the tests with one slot, 2 steps, all plans; layers in a row with two slots, 3 steps | 966k |
| `host` | order of kernels, layout vouched for, every call completes | 3 streams, 4 calls of all kinds, each of which may refuse | 127k |
| `heap` | views apart, in the heap, read where written | slots 1-3, 2 groups, bf16 and fp32, weights first | 188 |
| `kda_decode` | rows apart, rings in order, snapshots and replay agree, windows right, implements `SpecDecode` | 12 launches that between them reach every schedule, up to 3 rounds | 22.7k |
| `kda_backend` | each chunk once and whole, no flag lost, the kernel ends | 11 launches of the four variants | 54k |
| `stream_k` | whole products, each element once, buffers fit | 9 calls on 2 to 8 cores, buffer sizes of the device | 135k |

The run `train_reduce_default`, which TLC must find violated, is the finding of
section 6.

Why the bounds are enough for what can go wrong:

- The barrier and the exchange fail by a rank being overtaken: a later call
  overwrites what a slow rank has yet to read. Three ranks let a third party
  release the fast one while the slow one lags, and two barriers on two contexts
  let flags of one context be compared with the epochs of the other. Two ranks
  and four calls show a lead of one, the attempt at two, and each kind of
  closing before and after each other. For both modules the safety properties
  are also proved for all bounds (section 5), and so are those of the plan, the
  grid, the training loop and the loops of a block.
- The greedy loop needs a receiver that is filled from several experts, a source
  that serves several receivers and a receiver that becomes a source candidate:
  four ranks with two experts each have all three. `MCPlan` fixes half of the
  tokens to one of two backgrounds, that load one expert or the four experts of
  two ranks, and lets the other eight take every distribution over the eight
  experts. Placement needs an expert with a home, replicas and a rank that does
  not serve it, tokens on each of them, and a border of chunks inside a segment;
  two chunks per rank give that border.
- `train` needs a slow consumer, a fast home and a third rank; two steps reuse
  the gradient slot and the single window, and three steps reuse one of two
  windows.
- `host` needs an operator on a second stream and the event recorded again by a
  third, and one more call to wait for it: three streams and four calls. A call
  among them that refuses has moved the stream and recorded nothing.
- `plan_grid` needs shapes that divide among the blocks and shapes that do not,
  and fewer cores than blocks would be.
- `block` needs a row of every order of short and empty segments, and pulls with
  one segment, with several and with a tail. Both loops are also proved.
- `kda_decode` counts rows in units of 32: a state of 128 rows is `TILE = 4`, its
  half `VL = 2`, and blocks of few heads `SMALL_ROW_BLOCK = 1`. The limits of
  heads are 2 and 3 instead of 16 and 32, so that few heads reach the schedules
  of many; the formulas behind the limits depend only on the number of heads and
  lanes. `MCDecode` says which schedule each launch is for. Three rounds let a
  count of one round choose the history, the slot and the prefix from which the
  next but one is continued; sequences of three tokens go once round the ring of
  two.
- `kda_backend` has chunks as long as slots, longer, shorter and crossing them;
  a short last chunk; lanes and cores without a task; a head that ends inside a
  slot; gate tiles of one and two batches. Both its invariants are proved for all
  bounds.
- `stream_k` has no, one and two tiles left over, parts of k that are whole,
  short and single, windows of tiles with a higher last one, and both element
  sizes.

Bounds that are constants: `MaxRounds`, `Traffic` (barrier, exchange),
`Routings`, `Inputs` (greedy, plan), `ExpertRows`, `Rows` (block), `Shapes` (pull,
grid, decode with its number of rounds, backend), `Cores`, `MaxBlocks` (grid),
`MaxSteps`, `MaxLoop`, `Programs` (train), `Streams`, `MaxCalls`, `Kinds` (host),
`SlotCounts`, `GradSlotArgs`, `GroupCounts`, `ElemBytes`, `HeapSize` (heap),
`Calls` (stream_k).

Fairness. Liveness is checked where something must end: barriers, plan calls,
the kernel grid, host calls and the mega kernel's backend. Weak fairness is
assumed of each rank's program (a process runs its kernels in order and nothing
takes turns with it), of each channel (the transport delivers), of each block
that has a core or can get one (the device scheduler fills free cores), of each
stream's head item, and of each lane and cube of a launch of the mega kernel (its
grid has one block per core, so that all are resident at once). None is
assumed of the puts of other operators, and nothing is assumed strongly fair. The
spinning itself (`busy_wait_flag`) is a step that is enabled once the flag is
there; the code has no timeout, so a peer that dies hangs the group for ever, and
that is not a state of these models.

`CHECK_DEADLOCK FALSE` appears only in `kda_decode`, which stops after the rounds
of its launch. In all other modules the end of the program is a step of its own
(`Finished` and the like), so TLC reports every other stop as a deadlock.

## 4. What the models assume

- The transport (SymBuffer `put`, `get`, `flush`) is not in the repository. A put
  to a peer joins an ordered channel and lands later; `flush` to a peer returns
  when that channel is empty. The comments in `sym_barrier` rely on both.
- A copy out of a scratch tile in `_pull_seg` is complete before the next `get`
  is posted into it.
- Streams execute in order, and waiting for an event waits for its last record
  at the time of the wait, as in CUDA and its NPU counterpart.
- Single writer of a host process: operators are called from one thread.
- All ranks call the same operators in the same order with consistent arguments,
  as the docstrings require. In the run `heap` the caller creates its weight
  views first (`WeightsFirst`), leaves the `slots` argument of
  `create_grad_slot_view` to its default (`GradSlotArgs = {0}`), and uses one
  number of groups for all calls. Section 6 says what happens otherwise.
- `sync_transport`'s copy of a rank's own rows is left out; it runs on the same
  stream as the kernel and has one reader. When `prefetch_weight` raises behind it
  (`_publish_row_offsets`, `prefetch_weight.py:348`), copies are queued though no
  kernel is and no event is recorded; in `MoonepHost!Refuse` nothing is. They touch
  the rank's own rows only, and `CallOrder` is about kernels.
- `last_plan_shape` is looked at by `create_weight_view` and by `reduce_grad`, not by
  `prefetch_weight` itself. `MoonepHost!Call` has one guard for all of them, since a
  prefetch needs the views.
- A device reports at least one vector core, and the same number when the plan
  kernel is compiled and when it is launched (`MoonepPlanGrid!CoresAssumption`).
  `resident_blocks` caches the number per process to that end. For a report of 0
  it takes 16 blocks on trust; should a device have fewer cores then, the grid
  would not be resident, and `KernelEnds` says nothing of it.
- In `MoonepTrain` the three weight groups behave alike and are one, and a slot
  carries the number of the step, since a property about weights is about which
  step's they are.
- `MoonepHost!LayoutVouchedFor` is about the operators that look at the pending
  check (`Checking`): those that close with the barrier. The others never do,
  nor does an operator that refuses: `reduce_grad` on a single rank among them.
- An operator of `MoonepHost` refuses directly behind the guard or not at all: the
  code checks its arguments before its first launch.
- Epoch counters are unbounded naturals in the models; in the code they are
  32-bit and advance by one each call.
- The snapshot kernel is launched on at most 64 vector cores, as many as the
  platform reports (`fused_recurrent_kda_snapshot.py:140-148`), verify and commit
  on both lanes of each cube. `KdaSchedule!Launch` has the second form for all,
  so a snapshot launch has twice `aic` vector cores: an even number. Rows are
  dealt by the index of the block either way.
- KDA: a row of the state is the list of tokens applied to it. A token counts as
  applied only if its update, key and decay are that token's and the update was
  computed from the very state it is applied to; rounding is not modelled. The
  counts a caller passes are between 0 (1 with snapshots) and the length of the
  sequence, and `cu_seqlens` increases strictly, as the docs require.
- The DSL's `RingBuffer` has cursors for writing and reading that do not look at
  each other; the property `RingInOrder` is what makes that harmless. Copies into
  and out of UB are ordered by the DSL's own pipeline flags.
- Cross-core flags count, as the repository's DSL docs describe: an arrival adds
  one to the counter of whoever waits, a wait needs it positive and takes one.
  Among all cubes the last arrival raises the counter of each. In `KdaBackend`
  a row of the workspace stands for the rows of a (batch, head) task, and `G` and
  `zb` count batches. The delayed schedule deals gate tiles head by head
  (`mega_recurrent_kda_replayssm.py:4218-4224`); the variant with resident weights,
  which deals them batch by batch and multiplies a chunk in eight pieces
  (`:4314-4315`), has the same flags and is not modelled apart.
- Stream-K: a call is one of `op.run` with A as M x K and B as K x N, as the
  repository's test makes it. The wrapper `matmul_streamk` is outside the model
  (section 6).
- Stream-K: the stores of partial sums are complete when `global_sync_all`
  returns, and the DSL orders the pipelines within a core.

## 5. The proofs

All theorems hold for every value of the constants that satisfies the named
`ASSUME`s of the modules; TLC evaluates those assumptions in the runs.

### Rank barrier

`MoonepBarrierProofs`, for any number of ranks, contexts,
barriers and data:

- `TypeCorrect`: `Spec => []TypeOK`.
- `BarrierSafety`: if every group spans all ranks (`FullGroups`), then
  `Spec => []NoEarlyRelease`.
- `BarrierRefines`: under the same hypothesis `Spec => RefinesRankBarrier`: calling
  is `Arrive`, returning is `Leave`, and every other step is a stutter.
- `DataLands`: under the same hypothesis `Spec => []DataLandedOnReturn`.

The hypothesis is necessary. The epoch counter belongs to the process and flags
belong to a context: with a context on some of the ranks, whose barriers the
others do not count, the epochs of two processes part, and a flag of an earlier
barrier satisfies the comparison of a later one. Instances of this module with
such a group violate `NoEarlyRelease`.

`NoEarlyRelease` is not inductive: it says nothing of what a poller has already
accepted. `BarrierInv` adds that a process's epoch is its position in the program
(`EpochIsRound`), that no flag, in the heap or on its way, announces an epoch its
owner has not taken (`FlagsHonest`), that the peers a poller has ticked off have
called (`PolledHaveCalled`), and that nobody has returned from a barrier that
another has yet to call (`PassedHaveCalled`). `BarrierInvInductive` shows each
action preserve it. The last part carries the theorem: a poller that has finished
its loop has seen all peers at its own epoch, and epochs are positions. The same
part is the guard of `Leave` in `BarrierRefines`.

For data, `DataInv` follows a put from the channel into the heap: what is not in
the heap is in the channel (`InFlight`, `Landed`), data put before a call is in
the channel before the flag of that call (`DataBeforeFlags`), so a polled flag
means that the data of all earlier calls has landed (`PolledHaveLanded`), and so
does a return (`PassedHaveLanded`). `DataIsPut`, `FlagIsPut`, `PutLands` and
`FlagIsPolled` are the steps that disturb it.

### Demand exchange

`MoonepExchangeProofs`, for any number of ranks and calls and any sequence of
closings:

- `TypeCorrect`: `Spec => []TypeOK`.
- `PlansAgree`: `Spec => []ClosedCallsAgree`. A call that ends with the barrier is
  planned from the same matrix on all ranks, even between calls that do not.
- `LeadBounded`: `Spec => []LeadAtMostOne`, with no barrier needed at all.

The argument has two halves, which `ExchangeInv` joins. While rank `r` copies,
row `s` is at least as new as `r`'s call: a channel holds one row and its flag,
in this order (`ChannelsHoldOnePut`), so a flag is never ahead of its row
(`FlagsFollowRows`) and a polled flag vouches for the row
(`AwaitedRowsAreHere`). And it is not newer, if the call is closed: `s` begins its
next call only after leaving the barrier of this one, which `r` has not reached
(`BarriersClose`, `PassedHaveReached`). So the copy takes exactly the row of this
call (`CopiesAreRight`). `EndedCallsHaveBegun` bounds the lead: polling shows
that all peers have begun the call. There is one lemma per action
(`BeginKeepsInv` to `LandKeepsInv`), and `ExchangeInvariant` puts them together.
`BarrierOfThisCall` shows that the abstract barrier a rank arrives at is that of
its own call, although other calls have none.

### Two loops of a block

`MoonepPlanGridProofs` proves `SearchCorrect`: for any number of segments whose
ends do not decrease, and any place before the last of them, the search stays in
the row (`InBounds`) and ends on the first segment behind the place (`Found`).
The invariant is that the answer lies in `lo .. lo + span` and that
`span < 2^(iterations left)`; `HalfIsEnough` is the arithmetic of one iteration
and `MidIsSegment` covers the idle iterations after the answer is found. The
powers of two are a constant `Pow` with the recurrence as an assumption, which
TLC evaluates on the instance.

`MoonepTrainProofs` proves `PullReadsTiles` (`PullSpec => []TilesReady`) and
`PullAddsOnce` (`PullSpec => []EachChunkOnce`) for rows of any length and segments of
any size. `PullInv` says what each half of the scratch holds by the point the
loop has reached: which segment is on the wire (`WireInv`), which has been posted
(`PostedInv`), that the half being consumed has landed and nothing is posted
into it (`ConsumeInv`), and that the chunks added so far are exactly those of
the segments before (`AddedInv`). `Segments` and `GetsInRange` are the
arithmetic of the cut: the segments cover the row, and the last one is what is
left.

### Load balancing and placement

`MoonepPlanProofs`, for any number of ranks, experts per rank, rows per rank and
chunks, and any routing of the tokens. The theorems about the greedy loop:

- `GreedyTypes`: `PlanSpec => []TypeOK`; no count of rows falls below zero.
- `GreedyBooks`: `PlanSpec => []LoadsAreRows`. The code sets the load of a receiver
  to the capacity at the end of a round and never counts.
- `GreedyBalances`: `PlanSpec => []Balanced`. A fixed number of rounds is enough.
- `GreedyOneSource`, `GreedySegments`: `[]OneSourcePerReceiver` and
  `[]SegmentsNumbered`, which the phases behind the greedy rely on.

`GreedyInv` collects what they need of each other. The loads always add up to
`NumRanks * NumRows` (`LoadsTotal`), so if one rank is above the capacity another
is below. During a round (`Moving`) what has left the source has reached the
receiver, and what is still to be moved is what the receiver lacks; `TriesCount`
says that every try has used up one expert of the source, so `Epn` tries are
enough to move it all: the source holds only its own experts, and their rows
exceed the capacity. `Settled` keeps a rank that has once been filled at the
capacity, and `Progress` counts those that are there: one more in each round.
A rank that is above the capacity has never been a receiver, which is why no
rank is given two sources. Rows are added up over ranks and experts; `SumSame`
and its companions prove what is needed of those sums by the smallest set on
which they would fail.

The theorems about what the kernel makes of the tables:

- `PlanReaches`: `PlanSpec => []TokensReachTheirExpert`. Every token goes to a
  slot that holds the weights of its expert.
- `PlanFills`: `PlanSpec => []SlotsFillExactly`. All ranks together send a slot
  exactly as many tokens as its owner announces in `cu_seqlens`.

`PlanInv` adds to `GreedyInv` that moving rows neither loses nor makes any
(`DemandServed`): the rows of an expert on all ranks are the tokens routed to it.
Ranks number the tokens of an expert independently: `PlaceAt` is the number of a
token among those of its expert in the whole group, the base of its rank and chunk
plus the tokens of the chunk before it. `PlacesApart` and `PlacesFill` show that
the places of an expert are all different and are exactly `0 .. total - 1`; and
`SegmentAtIs` that the segments, cut where the running sum of `rem` steps from one
serving rank to the next, part this range without gap (`SegmentUnique`). The
kernel does not look a segment up for every token: it keeps a cursor for each
expert of a chunk and moves it on when its segment is used up. `VtopkIs` shows
that this gives the same as a fresh search for every token, with the invariant
`CursorRight` of the loop over the chunk: as long as the next place of an expert is
before `segEnd`, `cur` and `segEnd` are those of the segment with that place. Both
theorems hold in every state, not only at the end: what is placed is always cut by the
tables as they are.

### Kernel grid of the plan

`MoonepPlanGridProofs` proves `GridReadsFresh` (`Spec => []ReadsAreFresh`) and
`GridPartitions` (`Spec => []WorkIsPartitioned`) for every shape, any number of
cores and every order in which blocks get one. The theorems rest on the
assumption `Pow2Suffices`, that the powers of two of the model reach as far as the
shapes ask; the code doubles 1 until it does. `GridInv` says that each block has
written exactly the parts that its label and its turn of the loop stand for
(`WrittenExactly`, `WrittenBy`), which blocks run which phase (`Places`), and that
no block is behind a grid barrier which another is still before (`Synced`). A
part that is read has an owner, `OwnerOf`, found by quotient and remainder of its
index; its owner is behind the barrier the reader has passed, so the part is
there. The same owners give the partition.

### Training loop

`MoonepTrainProofs`, for any number of ranks, slots and steps and any plans:

- `TrainWeights`: if `WeightsParted` holds of all programs,
  `Spec => []WeightsHeld`.
- `TrainGradients`: if `GradientsParted` holds of all programs,
  `Spec => []GradientsHeld`.
- `TestLoopSafe`: if all programs are the training loop of
  `test_moonep_mem.py`, with the barriers that the defaults of the wrappers make,
  both hold: that loop meets both conditions.

The two conditions say where a program has its barriers: between a push and the
use of the weights, between the writing of a gradient and its pull, and between a
use or a pull and what overwrites it in the next step. They tell the loops apart
as the runs do: `LoopTrain` shows that the test's loop meets them, `LoopLayers`
that layers in a row do if and only if there is more than one slot, and
`LoopReduce` that a lone `reduce_grad` does with a barrier behind it and does not
without, which is the loop of the finding in section 6.

The argument is one count, `Phase`: how many barriers stand before a kernel in the
whole run of the program. A rank that runs it has left that many and every other
rank has reached as many (`AtCounts`, `Together`), so two kernels on two ranks
overlap only in the same phase. `WindowFilled`, `WindowKept` and `GradsWritten`
say what a slot may hold at that point; together they are `TrainInv`.

### Heap layout

`MoonepHostProofs` also proves `NoViewOverlaps` (`HeapSpec => []ViewsApart`), `ViewsFit`
(`HeapSpec => []ViewsInHeap`) and `ReduceFindsSlots` (`HeapSpec => []ReadsWhatWasWritten`)
for blocks, heaps and elements of any size, any numbers of slots and one number
of groups, if the caller keeps to one layout (`OneLayout`): weight views first,
the slots of the gradients left to the context, and the same groups in all
calls. `HeapInv` says why it matters: the base of the gradient slots is then the
same in all calls. Weight views have numbers below `window_slots * groups`
(`WeightsInv`, `ViewNumber`), and gradient slots were laid out for the slots that
the window still has (`SlotsInv`). Section 6 tells what happens without.

### Operator wrappers and streams

`MoonepHostProofs` proves `KernelsInOrder` (`Spec => []CallOrder`) and
`CheckedLayoutGood` (`Spec => []LayoutVouchedFor`) for any number of streams and
calls, with operators that refuse among them. `HostInv` has four parts:

- `CallInv`: how far the current call has got. What a wrapper still has to do is
  `WellFormed`: the guard first, and one record behind all launches;
- `OverflowInv`: a layout that nobody has looked at is pending, and looking is
  the last thing an operator of `Checking` does;
- `QueuesInv`: all that is on the streams is of calls up to the last record, but
  for the kernels of the current call while it launches on its own stream, and
  the kernels of one stream are in the order of their calls;
- `OrderInv`: as long as a kernel of call `i` is open on stream `t`, any later
  kernel on another stream stands behind a wait for an event of call `i` or
  later (`Held`), which has not fired because that event stands behind the
  kernel; and if the transport stream is another than `t`, its end is held too.

The last line is what makes the guard enough: it waits for one event only, and
whatever is launched on the transport stream next is held for all older kernels.
A refused call keeps it, since it takes the wait before it refuses. The lemmas
`AppendOrder` and `PopOrder` say that an item put on the transport stream and one
taken off the front of any stream keep `OrderInv`.

### Mega kernel's backend

`CubeVectorProofs` proves `NoFlagOvertaken` (`Spec => []FlagsTaken`): for any
number of cores, lanes, batches, heads and chunks and all four variants, no flag
is raised over a notice that has not been taken, and none is left raised.
`FlagsTaken` bounds counters without a reason; the reason is that every counter
is a difference of how far two sides have got. `BackendInv` says so:

- `LanesInv`: the notices of a lane are the slots it has published less those its
  cube has taken; the acknowledgements those taken less those the lane has
  received; and the two keep each other within one slot;
- `MeetInv`: a meeting of the cubes is described by one number for the whole
  grid, `met`, the meetings completed. Each cube has passed at most `met` and
  arrived at least `met` times, at most one apart; its arrivals in the counter
  are what it has beyond `met`, and its permissions what it lags behind. The
  number exists only in the invariant (`\E met, open`): `Gathering` shows that
  the arrival of the last cube raises it by one.

The variant `compact` has no acknowledgement, and its bound is another: each slot
has flags of its own, of which there are enough for three (`ShapesAssumption`,
which holds of the code: it takes this variant for sixteen batches of six heads
only, `mega_recurrent_kda_replayssm.py:4074`, and 48 lanes are through these in two
slots). The lemmas come in the
same two halves: `LaneStepKeeps` and `CubeStepKeeps` for a lane and its cube,
`MeetStep` for the cubes, then one lemma per action.

`ChunksAreWhole` (`Spec => []ProjectedWhole`) says what the flags are for: every
cube multiplies every chunk once and in order, and meets only rows that were
gated from inputs nobody had overwritten. Its invariant is `BackendInv` with
`WholeInv`:

- `RowsInv`: the rows of a lane's tasks are gated up to the slot it has opened,
  and untouched from there on; `HeldInv`: what it has fetched ahead, or keeps
  ungated, was read from untouched rows;
- `GatesInv`: a cube that has arrived at the meeting about a chunk's gates has
  computed its share of them;
- `DoneInv`: what a cube has multiplied are the chunks from the first one to where
  its slot and its place in it say (`Multiplied`).

Most of the proof is arithmetic: `RowsAreTasks` and `TaskOfRow` (tasks and rows
correspond one to one, also in a short last chunk), `TasksOfIs` and `TaskServed`
(every task belongs to exactly one lane and slot), `GateRowsCover` (the gate tiles
dealt to the cubes cover the chunk), `ReadyFacts` (the chunks announced with
consecutive slots follow each other and are all) and `PublishedTask` (all tasks of an
announced chunk were in this slot or an earlier one). With these, the bounds on
progress in `BackendInv` do the rest: a cube past the meeting of a slot knows
that every lane of the grid has opened it (`MetGated`), and a lane that was told
about gates knows that every cube has computed its own (`GatesOpen`).

Both rest on the assumption `ShapesFit`, which the source establishes: there are
lanes enough for those that get tasks, `_tile_rows` takes a divisor of the batches
where a short chunk is not allowed for (`mega_recurrent_kda_replayssm.py:3613`),
`heads` takes all batches as one group (`:3401`), the slots of `compact` are its
chunks (48 lanes, eight batches of six heads, `:1806`), and `delayed` is taken only
for batches that its windows divide (`:4433`), in gate tiles that divide them.

### Decoding with the KDA kernels

`KdaDecodeProofs`, for any number of sequences of any lengths, heads, cores and
rounds, any accepted counts, any limits of the schedules and any slots that the
caller gives to the convolution:

- `RowsAlwaysApart`, `RingAlwaysInOrder`: `Spec => []RowsApart` and
  `Spec => []RingInOrder`.
- `TypesAlwaysOK`, `SnapshotAlwaysAgrees`: `Spec => []TypeOK` and
  `Spec => []SnapshotAgrees`. Between rounds the checkpoint that commit has
  replayed and the slot that the snapshot kernel has stored are the same row.
- `KernelsDecode`: `Spec => DecodeRefines`, that is, the lanes of all kernels
  together implement `SpecDecode`.
- `WindowsAlwaysRight`: `Spec => []ConvWindow`.

They rest on `ScheduleAssumption` (a half is half of a head's rows, a small block
divides them, the limits are in order), which the constants of the kernels
satisfy, and on `ShapesAssumption`: at least one sequence, each with a token,
head and core, a cache slot for every sequence or for none, and no slot for two
of them unless it is that of padding. The docs require the
latter (`mega_recurrent_kda_replayssm.py:4841`).

The argument has five steps, and each is one part of the module.

1. The schedules. `Deals` says what it is to deal a state out: the works of a
   lane are of one or two items within their heads, and every row of every head
   is in one item of one work of one lane. Each of the ways to deal has a lemma of
   its own: blocks that lanes take in turn (`BlocksDeal`), whole heads and halves in
   the minimal split, and pairs. `MinimalIs` rewrites the minimal split, whose
   source goes by halves per lane, as runs of whole heads with a half here and
   there, and `MinimalRuns` shows the runs to be disjoint and complete.
   `KernelLists` joins them: what verify, snapshot and commit choose for a shape
   is a deal, whichever branch they take. `RowsApart` follows.
2. The lanes. `LaneAt` is the invariant of one lane: it is somewhere on its list
   (`OnList`), and its ring holds one input if one was fetched, and none
   otherwise (`RingOK`). `AheadMove` keeps it for the kernels that fetch one token
   ahead. `CommitMove` keeps it for commit, which fetches for the second item of
   a pair with the last token of the first and skips items of which nothing was
   accepted: `Fetched` says when something is there. `RingInOrder` follows.
3. What a row has behind it. `Served` counts the tokens of an item that a lane is
   through with, from where it is on its list; a step raises it by one for the
   item before the lane and for no other (`MoveOn`). Since a row has one place,
   `Done` gives the same count for rows; it is 0 when a kernel starts
   (`DoneStart`) and the number of tokens it has to serve when all lanes are idle
   (`DoneEnd`). The code has no such counter.
4. The data. For some texts `T`, one for every sequence, all stores are what
   their counts say (`DataInv`): a record and an output are those of their token
   on top of `T` (`NotedInv`); a checkpoint is the row behind `T`, or with the
   accepted prefix if commit is through with it (`CheckpointInv`); a slot is the
   row behind the token that it was stored for (`PoolInv`) and of its own
   head even if nothing has been stored yet (`PoolOwn`); and the tile of a lane amid
   an item is the row behind the tokens served (`TileInv`). The texts exist in the
   invariant only; they grow when commit ends (`CommitEndsKeeps`). `IInv` is the
   invariant, `DataAlways` the theorem. There is one lemma per action, each with
   what it writes (`VerifyStores`, `SnapshotStores`) apart from why that is right
   (`ScoreTile`).
5. The refinement. `MapIs` reads the mapping off the invariant: `Text` and the
   scores of `SpecDecode` are `T` and the candidates on top of it. Then the end of a
   scoring kernel is `Score`, the end of commit is `Accept` (`CommitAccepts`),
   and every other step is a stutter (`DecodingStays`).

The windows of the convolution need the same texts. `ConvTexts` adds to the
invariant that a slot holds the last three tokens of the prompt and the text, at
the offset that the accepted count selects, until the sequence is convolved, and
the run of its candidates afterwards (`HistoryIs`, `WindowsAre`). `ConvRestarts` is
the step where it could go wrong: what was at offset `a - 1` of the rows behind a
round of which `a` were accepted is the history of the next one. It holds
only for `a > 0`, which `ConvWindow` says too (section 6).

### Stream-K

`CubeVectorProofs`, for calls of `op.run` on matrices of any size, elements of two or
four bytes, any number of cores and every order in which cube and vector units work:

- `ProductsAlwaysWhole`: `StreamSpec => []ProductWhole`. Whatever is stored in C is
  whole, nothing is stored twice, and in the end nothing is missing.
- `BuffersAlwaysFit`: `FewCores => (StreamSpec => []BuffersFit)`. The buffers of a
  core are at least those of the device (`BuffersAssumption`), and two rows of 256
  partial sums fit into UB for every core and for the output: with 253952 bytes,
  up to 123 cores. The condition is sharp: with 124 cores, a tile of 256 by 256 and
  `k = 15872` the stage takes 254976 bytes. The kernel takes the number of cores
  from the platform and does not check it (section 6).

The argument:

1. The plan. `PlanFacts` says what the host's arithmetic achieves, and no later step
   looks into it (`Divided`, `Reserved`): the tiles cover C and none is empty, the
   parts of k cover its slabs and none is empty (`PartsOfK`), the segments cover a tile
   (`SegmentsCover`), the windows of rows add up (`WindowFacts`). The parts are counted
   in tiles, divided by the cores, rounded to slabs and counted again;
   that none is empty, so that no accumulator is read before it is
   reset, needs the last of these steps.
2. The buffers. A slab fits into L1 because of the loop that chose its length
   (`StepKaFacts`: what the loop ends with is 1, or at most a length that it found
   to fit). For UB the segments are fitted to two partial sums while all parts
   are held (`UBFits`). With two parts or more there are at least twice as many
   segments as parts, so either a segment has one row or two, which `FewCores`
   provides for, or all its parts and the output have no more than 193 rows
   (`StageFits`).
3. The tiles. The order in windows that turn at their ends meets every tile once
   (`SlidingInjective`, `TileFound`): `IndexForm` writes a number as window, column and
   row, `MainTile` and `TailTile` say which tile that is.
4. The sums. Slabs follow each other without gap (`SlabEdges`), so all of them, be
   they one sum or the union of the sums of the parts, are whole (`WholeAtOnce`,
   `WholeInParts`).
5. The invariant. `StreamInv` describes the state by what has been done: a cube is
   at a number of work that is its own modulo the cores (`CubesWork`), a vector
   unit likewise (`LanesWork`), every part done is in its slot (`PartsSummed`), and C
   is exactly the tiles and segments done. What a step adds is one number
   (`Turns`). The slot is computed by the cube from tile and part, and by the vector
   unit from segment and part; `PartSlots` shows that they mean the same one.
   `global_sync_all` is used in one place (`AllSummed`).

`StreamInvariant` is the theorem; TLC has checked `StreamInv` on the calls of `stream_k`.

### Only model-checked

Liveness under fairness, which the prover does not reach: `EveryBarrierReturns`,
`EveryPlanReturns`, `EveryCallCompletes` and the two properties `KernelEnds`. All other
properties of the runs are theorems.

## 6. Findings

The run `train_reduce_default`, in which TLC violates what the tests of the
repository say (`PROJECT.json` quotes them): `reduce_grad` hands its parameter
`barrier` to `finish_op` as `async_finish`. With the default `True` there is no
closing barrier, and a fast peer overwrites a gradient that a slow home has yet
to pull.

What the models show besides, without a run of their own. MoonEP:

- An asynchronous prefetch, joined by its event as documented, does not wait for
  the weights that other ranks push (`WeightsHeld` of `MoonepTrain`, with a
  program that prefetches asynchronously).
- A context on a sub-group lets the counters of processes drift apart, and an old
  flag releases a rank early (section 5).
- With no closing barrier a fast rank may change its row of the demand matrix
  while a slow one copies it, so the ranks plan from different matrices. This is
  why `ClosedCallsAgree` speaks of closed calls only.
- `LayerLoop` with one window slot in `MCTrain` violates `WeightsHeld`:
  consecutive prefetches overwrite weights in use. Two slots suffice.
- Operators that close without the barrier (`async_finish=True`, and
  `reduce_grad` by default) never make the postponed layout check.
- With `WeightsFirst = FALSE`, gradient slots created before a window of two
  slots overlap it (`ViewsApart`): their base was computed for one.
- Tokens of a rank that serves an expert do not always fill its own segment
  first; they reach the expert all the same (`TokensReachTheirExpert`).

KDA:

- When a round accepts nothing of a sequence, the next call takes its history at
  offset 0, as documented (`max(a - 1, 0)`). By then the slot holds two old rows
  and the rejected candidates, so the third token of the window is the first
  rejected one. `ConvWindow` therefore speaks of rounds that accepted something.
- Snapshot counts 0 and 1 choose the same slot, as documented: a rejection of
  everything cannot be told from the acceptance of one.
- `_commit_row_schedule`, said to describe the kernel's assignments for host
  tests (`commit_recurrent_kda_replayssm.py:121-122`), gives the
  minimal split for every number of heads above 32; the kernel runs
  `execute_paired` when it is even. Both partition the rows.
- `execute_pair` loads nothing for the second item when the first one's count is
  negative, and an empty sequence leaves an entry unread in verify's ring. The
  docs exclude both.
- The convolution prefetch of wide panels in the mega kernel
  (`_prefetch_n384_panel`) lacks the bound on the batch that its consumer has.
- The cube's acknowledgement to its lanes is raised from `PIPE.MTE3`, which the
  DSL's page on `cube_sync_block_arrive` does not list for a cube.

Stream-K:

- A docstring gives the workspace as `k_splits` times the columns of C; it is
  `k_splits` times the rows of its tiles.
- The branch for `depth_b1 == 2 * depth_a1` in the tiling and the one for more
  segments than rows of a tile are never taken, and the two ways of computing
  the parts of k give the same number.
- Tiles left over are cut along k also when k is short: a single part then goes
  through the workspace and the reduction.
- With 124 cores or more the stage of the reduction may need more than UB has
  (section 5, Stream-K). Nothing refuses such a device.
- Read in the source and not modelled: unless `transpose_b` is set, the wrapper
  `matmul_streamk` (`:746-770`) passes `b.t().contiguous()`, B as N x K, to a kernel
  that slices B as K x N (`:463`, `:486`), while its docstring promises
  `A[M, K] @ B[K, N]`. The test calls `op.run` directly with B as K x N, for which
  `ProductWhole` and `ProductsAlwaysWhole` hold; they say nothing of the wrapper.

## 7. What is not modelled

- MoonEP: `npu_blob.py` and `mem_stat.py`, which hold no protocol state; the
  vector scan of `_scan_peer`, abstracted to the rows it finds; caches of
  programs and workspaces, and checks of arguments other than those in `MoonepHost`;
  calls without rows (`num_tokens` or `top_k` of 0, `moonep_plan.py:948`), of which the code
  does not say what they should do; errors raised half way through a call.
- Mega kernel: the projections of its frontends and how they are dealt to the
  cores, the low-rank decay, beta and gates of the inputs; the renumbering of
  cores in `_execute_compact_s8`; prefetch of weights and splitting of columns
  within a cube; the variant with resident weights; the choice of a variant by
  shape.
- KDA kernels: normalisation, activation, layouts and data types.
- Stream-K: the wrapper `matmul_streamk`, L2 cache control, layouts, the
  pipelines within a core.
- Cross-core flags of the other attention kernels. They join pipeline stages of
  one core, with flags like those of `KdaBackend`. Planned.
- Metadata planners of attention kernels (pure functions). Planned.
- Native package build (`publish` by two moves) and CI scripts. Planned if
  they prove worth a module.
- Vector, matmul and attention samples on one core: numerics and addressing,
  synchronised by the DSL, no state across steps. They are most of the
  repository's lines, and a model of them would restate their formulas.
- Documents, catalogue, figures, networks: no behaviour.

## 8. The plan

Present: the MoonEP protocols, KDA decoding, the mega kernel's convolution and
backend, and Stream-K, each with runs before proofs. Next, in this order:

1. Cross-core flags in `flash_kda_staged.py`: cube and vector cores as
   processes, flag counters with their depth; deadlock, pairing of set and wait.
2. The frontends of the mega kernel: the dealing of projection tasks, and the
   renumbering of cores in `_execute_compact_s8`.
3. Wrappers: program and workspace caches when the number of blocks changes.
4. Metadata planners as operators: every block assigned once, balance.
5. `publish`: crash between the moves.
