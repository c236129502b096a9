----------------------------- MODULE KdaBackend -----------------------------
(***************************************************************************)
(* The second half of the fused KDA kernel, on a grid of AI cores.  The    *)
(* two vector units of a core (its lanes) run one (batch, head) task after *)
(* the other and leave the gated output in the task's row of the workspace *)
(* from which its query was read; the cube unit of every core multiplies   *)
(* its columns of the output weight with a chunk of rows as soon as all    *)
(* lanes of the grid have published them.  Lanes and cubes meet by flags   *)
(* with counters; nothing else orders them.                                *)
(*                                                                         *)
(* There are four variants ("kind"):                                       *)
(*   rows      chunks of G batches, a task per slot, inputs fetched ahead   *)
(*   heads     a chunk per head, summed up by the cubes head after head     *)
(*   compact   a chunk per slot, a pair of flags for each of them           *)
(*   delayed   the cubes first compute the gates of the chunk, while the    *)
(*             lanes run all its tasks and keep the ungated results         *)
(***************************************************************************)
EXTENDS Integers, Sequences, FiniteSets

CONSTANT Shapes   \* records [kind, B, n, G, cores, lanes, ragged, zb]

VARIABLES
  shape,   \* batches B, heads n, batches of a chunk G, AI cores, lanes that
           \* get tasks, is a short last chunk allowed for, batches of a gate tile
  vec,     \* per lane, its slot and where it is in it
  cube,    \* per core, its cube's slot, where it is in it and its next chunk
  row,     \* <<batch, head>>: what its row of the workspace holds
  gates,   \* the rows whose output gate has been computed
  held,    \* per lane, the inputs it has fetched, or its ungated results
  done,    \* per core, the chunks its cube has multiplied, with the rows it met
  raised,  \* [flag][lane]: arrivals of a lane not taken by the cube of its core
  told,    \* [flag][lane]: arrivals of the cube not taken by the lane
  at,      \* [flag][core]: arrivals of cubes that wait for the other cubes
  go       \* [flag][core]: the cube's counter of completed meetings

vars == <<shape, vec, cube, row, gates, held, done, raised, told, at, go>>

Cubes == 0 .. shape.cores - 1
Lanes == 0 .. 2 * shape.cores - 1
CoreOf(l) == l \div 2
Tasks == shape.B * shape.n
Least(a, b) == IF a < b THEN a ELSE b
Ceiling(a, b) == (a + b - 1) \div b

\* "compact" takes a pair of flags for every slot, and there are nine.
ASSUME ShapesAssumption ==
  \A s \in Shapes :
    /\ s.kind \in {"rows", "heads", "compact", "delayed"}
    /\ {s.B, s.n, s.G, s.cores, s.lanes, s.zb} \subseteq Nat \ {0}
    /\ s.kind = "compact" => Ceiling(s.B * s.n, s.lanes) <= 3

\* No task without a lane.  Only "rows" has chunks of fewer batches, and only
\* where they are allowed for; "heads" takes all batches at once, and the slots
\* of "compact" are its chunks.
ASSUME ShapesFit ==
  \A s \in Shapes :
    /\ s.lanes <= 2 * s.cores
    /\ s.kind = "rows" => s.ragged \/ s.B % s.G = 0
    /\ s.kind = "heads" => s.G = s.B
    /\ s.kind = "compact" => s.lanes = s.G * s.n
    /\ s.kind = "delayed" => s.B % s.G = 0 /\ s.G % s.zb = 0

-----------------------------------------------------------------------------
(* Tasks, rows and chunks.                                                 *)

GroupBatch(first) == Least(shape.G, shape.B - first)

\* _recurrent_item_index: within a chunk the tasks go through its batches
\* head by head.
RowOf(task) ==
  LET jobs   == shape.G * shape.n
      first  == (task \div jobs) * shape.G
      offset == task % jobs
  IN  <<first + (offset % GroupBatch(first)), offset \div GroupBatch(first)>>

ChunkTasks == IF shape.kind = "heads" THEN shape.B ELSE shape.G * shape.n

Chunks == IF shape.kind = "heads" THEN shape.n ELSE Ceiling(shape.B, shape.G)

ChunkRows(k) ==
  IF shape.kind = "heads" THEN (0 .. shape.B - 1) \X {k}
  ELSE (k * shape.G .. Least((k + 1) * shape.G, shape.B) - 1) \X (0 .. shape.n - 1)

Slots == IF shape.kind = "delayed" THEN Chunks ELSE Ceiling(Tasks, shape.lanes)

\* The tasks of a lane in a slot.
TasksOf(slot, l) ==
  IF shape.kind = "delayed"
  THEN {slot * ChunkTasks + i : i \in {j \in 0 .. ChunkTasks - 1 : j % shape.lanes = l}}
  ELSE {t \in {slot * shape.lanes + l} : l < shape.lanes /\ t < Tasks}

\* Mutant: a last chunk of fewer batches is never counted as published.
ReadyAfterFloor(slot) ==
  Least((slot + 1) * shape.lanes, Tasks) \div ChunkTasks

\* The chunks published before and after a slot.
ReadyBefore(slot) ==
  IF shape.kind \in {"compact", "delayed"} THEN slot
  ELSE (slot * shape.lanes) \div ChunkTasks

ReadyAfter(slot) ==
  LET after == Least((slot + 1) * shape.lanes, Tasks)
  IN  IF shape.kind \in {"compact", "delayed"} THEN slot + 1
      ELSE IF shape.ragged /\ after = Tasks THEN Ceiling(after, ChunkTasks)
      ELSE after \div ChunkTasks

-----------------------------------------------------------------------------
(* Flags: an identifier has a counter at each of those who wait for it.     *)

GridFlag == 0    \* cubes, before the gates are used
GateFlag == 1    \* cube to its lanes: the gates are there
AckFlag  == 5    \* cube to its lanes: the notice has been taken
Flags == 0 .. 8

\* Lanes to their cube: the rows of the slot are stored.
VectorFlag(slot) == IF shape.kind = "compact" THEN 3 + 2 * slot ELSE 3

\* Among the cubes: every core has had its lanes' notice.
CubeFlag(slot) == IF shape.kind = "compact" THEN 4 + 2 * slot ELSE 4

HasAck == shape.kind # "compact"

NoNotice(waiters) == [f \in Flags |-> [w \in waiters |-> 0]]

\* A cube arrives; the last one of the grid raises everybody's counter.
Meet(f, c) ==
  LET all == \A d \in Cubes \ {c} : at[f][d] > 0
  IN  /\ at' = [at EXCEPT ![f] = [d \in Cubes |->
                  @[d] + (IF d = c THEN 1 ELSE 0) - (IF all THEN 1 ELSE 0)]]
      /\ go' = [go EXCEPT ![f] = [d \in Cubes |-> @[d] + (IF all THEN 1 ELSE 0)]]

\* The cube tells both of its lanes.
Tell(f, c) ==
  [told EXCEPT ![f] = [l \in Lanes |-> @[l] + (IF CoreOf(l) = c THEN 1 ELSE 0)]]

-----------------------------------------------------------------------------
(* The lanes.                                                              *)

FetchesAhead == shape.kind = "rows"

Fetch(slot, l, r) == [t \in TasksOf(slot, l) |-> r[RowOf(t)]]

\* The output of a task, gated, goes where its query came from.
Gated(p, input) == IF input = "input" /\ p \in gates THEN "gated" ELSE "spoilt"

Stored(inputs) ==
  [p \in DOMAIN row |->
     IF \E t \in DOMAIN inputs : RowOf(t) = p
     THEN Gated(p, inputs[CHOOSE t \in DOMAIN inputs : RowOf(t) = p])
     ELSE row[p]]

\* run_recurrent_wave for the lane's task of the slot, if it has one; after
\* the last token the inputs of the next slot's task are fetched.
Run(l) ==
  /\ vec[l].pc = "run" /\ shape.kind # "delayed"
  /\ LET inputs == IF FetchesAhead THEN held[l] ELSE Fetch(vec[l].slot, l, row)
     IN  row' = Stored(inputs)
  /\ held' = IF FetchesAhead
             THEN [held EXCEPT ![l] = Fetch(vec[l].slot + 1, l, row')] ELSE held
  /\ vec' = [vec EXCEPT ![l].pc = "publish"]
  /\ UNCHANGED <<shape, cube, gates, done, raised, told, at, go>>

\* delayed: the tasks of the chunk, their results kept in UB.
RunRaw(l) ==
  /\ vec[l].pc = "run" /\ shape.kind = "delayed"
  /\ held' = [held EXCEPT ![l] = Fetch(vec[l].slot, l, row)]
  /\ vec' = [vec EXCEPT ![l].pc = "gate"]
  /\ UNCHANGED <<shape, cube, row, gates, done, raised, told, at, go>>

\* delayed: when the cube says the gates are there, gate and store.
StoreGated(l) ==
  /\ vec[l].pc = "gate"
  /\ told[GateFlag][l] > 0
  /\ told' = [told EXCEPT ![GateFlag][l] = @ - 1]
  /\ row' = Stored(held[l])
  /\ vec' = [vec EXCEPT ![l].pc = "publish"]
  /\ UNCHANGED <<shape, cube, gates, held, done, raised, at, go>>

AfterSlot(v) ==
  IF v.slot + 1 < Slots THEN [slot |-> v.slot + 1, pc |-> "run"]
  ELSE [slot |-> v.slot, pc |-> "ended"]

\* Mutant: a lane without a task in the slot publishes nothing.
PublishBusy(l) ==
  /\ vec[l].pc = "publish"
  /\ raised' = IF TasksOf(vec[l].slot, l) = {} THEN raised
               ELSE [raised EXCEPT ![VectorFlag(vec[l].slot)][l] = @ + 1]
  /\ vec' = [vec EXCEPT ![l] = IF HasAck THEN [@ EXCEPT !.pc = "ack"] ELSE AfterSlot(@)]
  /\ UNCHANGED <<shape, cube, row, gates, held, done, told, at, go>>

\* Also a lane that had nothing to do publishes.
Publish(l) ==
  /\ vec[l].pc = "publish"
  /\ raised' = [raised EXCEPT ![VectorFlag(vec[l].slot)][l] = @ + 1]
  /\ vec' = [vec EXCEPT ![l] = IF HasAck THEN [@ EXCEPT !.pc = "ack"] ELSE AfterSlot(@)]
  /\ UNCHANGED <<shape, cube, row, gates, held, done, told, at, go>>

\* Mutant: the lane goes on without waiting for the cube.
TakeAckAtOnce(l) ==
  /\ vec[l].pc = "ack"
  /\ vec' = [vec EXCEPT ![l] = AfterSlot(@)]
  /\ UNCHANGED <<shape, cube, row, gates, held, done, raised, told, at, go>>

TakeAck(l) ==
  /\ vec[l].pc = "ack"
  /\ told[AckFlag][l] > 0
  /\ told' = [told EXCEPT ![AckFlag][l] = @ - 1]
  /\ vec' = [vec EXCEPT ![l] = AfterSlot(@)]
  /\ UNCHANGED <<shape, cube, row, gates, held, done, raised, at, go>>

-----------------------------------------------------------------------------
(* The cubes.  Up to its next wait a cube is not held up by anybody.       *)

\* delayed: the gate tiles of the chunk are dealt out to the cubes, head by head;
\* then all meet.  (The resident variant deals them batch by batch.)
GateRows(slot, c) ==
  LET parts  == shape.G \div shape.zb
      mine   == {z \in 0 .. parts * shape.n - 1 : z % shape.cores = c}
      first(z) == slot * shape.G + (z % parts) * shape.zb
  IN  UNION {(first(z) .. first(z) + shape.zb - 1) \X {z \div parts} : z \in mine}

ProjectGates(c) ==
  /\ cube[c].pc = "gates"
  /\ gates' = gates \cup GateRows(cube[c].slot, c)
  /\ Meet(GridFlag, c)
  /\ cube' = [cube EXCEPT ![c].pc = "meetGates"]
  /\ UNCHANGED <<shape, vec, row, held, done, raised, told>>

OpenGates(c) ==
  /\ cube[c].pc = "meetGates"
  /\ go[GridFlag][c] > 0
  /\ go' = [go EXCEPT ![GridFlag][c] = @ - 1]
  /\ told' = Tell(GateFlag, c)
  /\ cube' = [cube EXCEPT ![c].pc = "take"]
  /\ UNCHANGED <<shape, vec, row, gates, held, done, raised, at>>

\* When both lanes of the core have arrived: acknowledge, then meet the cubes.
TakeSlot(c) ==
  LET f == VectorFlag(cube[c].slot)
  IN  /\ cube[c].pc = "take"
      /\ \A l \in Lanes : CoreOf(l) = c => raised[f][l] > 0
      /\ raised' = [raised EXCEPT ![f] = [l \in Lanes |->
                      @[l] - (IF CoreOf(l) = c THEN 1 ELSE 0)]]
      /\ told' = IF HasAck THEN Tell(AckFlag, c) ELSE told
      /\ Meet(CubeFlag(cube[c].slot), c)
      /\ cube' = [cube EXCEPT ![c].pc = "meet"]
      /\ UNCHANGED <<shape, vec, row, gates, held, done>>

PassMeeting(c) ==
  LET f == CubeFlag(cube[c].slot)
  IN  /\ cube[c].pc = "meet"
      /\ go[f][c] > 0
      /\ go' = [go EXCEPT ![f][c] = @ - 1]
      /\ cube' = [cube EXCEPT ![c].pc = "project",
                              ![c].chunk = ReadyBefore(cube[c].slot)]
      /\ UNCHANGED <<shape, vec, row, gates, held, done, raised, told, at>>

\* Multiply the next of the chunks published with the slot.
Project(c) ==
  /\ cube[c].pc = "project"
  /\ cube[c].chunk < ReadyAfter(cube[c].slot)
  /\ done' = [done EXCEPT ![c] =
       Append(@, [chunk |-> cube[c].chunk, met |-> {row[p] : p \in ChunkRows(cube[c].chunk)}])]
  /\ cube' = [cube EXCEPT ![c].chunk = @ + 1]
  /\ UNCHANGED <<shape, vec, row, gates, held, raised, told, at, go>>

FirstPc == IF shape.kind = "delayed" THEN "gates" ELSE "take"

EndSlot(c) ==
  /\ cube[c].pc = "project"
  /\ cube[c].chunk >= ReadyAfter(cube[c].slot)
  /\ cube' = IF cube[c].slot + 1 < Slots
             THEN [cube EXCEPT ![c].slot = cube[c].slot + 1, ![c].pc = FirstPc]
             ELSE [cube EXCEPT ![c].pc = "ended"]
  /\ UNCHANGED <<shape, vec, row, gates, held, done, raised, told, at, go>>

-----------------------------------------------------------------------------
AllRows == (0 .. shape.B - 1) \X (0 .. shape.n - 1)

Init ==
  /\ shape \in Shapes
  /\ vec = [l \in Lanes |-> [slot |-> 0, pc |-> "run"]]
  /\ cube = [c \in Cubes |-> [slot |-> 0, pc |-> FirstPc, chunk |-> 0]]
  /\ row = [p \in AllRows |-> "input"]
  /\ gates = IF shape.kind = "delayed" THEN {} ELSE AllRows
  /\ held = [l \in Lanes |-> IF FetchesAhead THEN Fetch(0, l, row) ELSE <<>>]
  /\ done = [c \in Cubes |-> <<>>]
  /\ raised = NoNotice(Lanes)
  /\ told = NoNotice(Lanes)
  /\ at = NoNotice(Cubes)
  /\ go = NoNotice(Cubes)

LaneStep(l) == Run(l) \/ RunRaw(l) \/ StoreGated(l) \/ Publish(l) \/ TakeAck(l)

CubeStep(c) ==
  \/ ProjectGates(c) \/ OpenGates(c) \/ TakeSlot(c)
  \/ PassMeeting(c) \/ Project(c) \/ EndSlot(c)

Ended == (\A l \in Lanes : vec[l].pc = "ended") /\ (\A c \in Cubes : cube[c].pc = "ended")

Finished == Ended /\ UNCHANGED vars

Next == (\E l \in Lanes : LaneStep(l)) \/ (\E c \in Cubes : CubeStep(c)) \/ Finished

Spec == Init /\ [][Next]_vars

MaxCores == CHOOSE m \in {s.cores : s \in Shapes} : \A s \in Shapes : s.cores <= m

\* The units of a launch are resident together and run by themselves.
FairSpec ==
  /\ Spec
  /\ \A l \in 0 .. 2 * MaxCores - 1 : WF_vars(l \in Lanes /\ LaneStep(l))
  /\ \A c \in 0 .. MaxCores - 1 : WF_vars(c \in Cubes /\ CubeStep(c))

-----------------------------------------------------------------------------
(* Every cube multiplies the chunks one after the other, each once, and     *)
(* meets in it only rows that were gated from the task's own inputs; at the *)
(* end it has had them all.  The sum over heads needs the order, too.       *)
ProjectedWhole ==
  \A c \in Cubes :
    /\ \A i \in DOMAIN done[c] : /\ done[c][i].chunk = i - 1
                                 /\ done[c][i].met = {"gated"}
    /\ cube[c].pc = "ended" => Len(done[c]) = Chunks

(* No flag is raised again before its last notice has been taken, although  *)
(* lanes run ahead of cubes that still multiply, and none is left raised    *)
(* when the kernel ends: the next phase finds its flags clear.              *)
FlagsTaken ==
  /\ \A f \in Flags : /\ \A l \in Lanes : raised[f][l] <= 1 /\ told[f][l] <= 1
                      /\ \A c \in Cubes : at[f][c] <= 1 /\ go[f][c] <= 1
  /\ Ended => /\ raised = NoNotice(Lanes) /\ told = NoNotice(Lanes)
              /\ at = NoNotice(Cubes) /\ go = NoNotice(Cubes)

(* The kernel ends: lanes and cubes never wait for each other in a circle,  *)
(* whether all lanes have a task in the last slot or not.                   *)
KernelEnds == <>Ended

-----------------------------------------------------------------------------
(* Why the flags are taken: their counters are differences of how far the   *)
(* two sides have got, and the sides keep each other within a slot.         *)

One(b) == IF b THEN 1 ELSE 0

\* Slots that a lane has gated, published and had acknowledged ...
Opened(l) == vec[l].slot + One(vec[l].pc \in {"publish", "ack", "ended"})
Published(l) == vec[l].slot + One(vec[l].pc \in {"ack", "ended"})
Acked(l) == vec[l].slot + One(vec[l].pc = "ended")

\* ... and a cube has arrived with and met in, before the gates and after the rows.
GridArrived(c) == cube[c].slot + One(cube[c].pc # "gates")
GridPassed(c) == cube[c].slot + One(cube[c].pc \notin {"gates", "meetGates"})
Taken(c) == cube[c].slot + One(cube[c].pc \in {"meet", "project", "ended"})
Passed(c) == cube[c].slot + One(cube[c].pc \in {"project", "ended"})

\* How often flag f has been raised in the first m slots.
VectorUses(f, m) ==
  IF shape.kind = "compact" THEN One(f \in {3, 5, 7} /\ f < 3 + 2 * m)
  ELSE IF f = 3 THEN m ELSE 0
CubeUses(f, m) ==
  IF shape.kind = "compact" THEN One(f \in {4, 6, 8} /\ f < 4 + 2 * m)
  ELSE IF f = 4 THEN m ELSE 0
AckUses(f, m) == IF HasAck /\ f = AckFlag THEN m ELSE 0
GateUses(f, m) == IF shape.kind = "delayed" /\ f = GateFlag THEN m ELSE 0
GridUses(f, m) == IF shape.kind = "delayed" /\ f = GridFlag THEN m ELSE 0

LanePcs == CASE shape.kind = "compact" -> {"run", "publish", "ended"}
             [] shape.kind = "delayed" -> {"run", "gate", "publish", "ack", "ended"}
             [] OTHER                  -> {"run", "publish", "ack", "ended"}

CubePcs == IF shape.kind = "delayed"
           THEN {"gates", "meetGates", "take", "meet", "project", "ended"}
           ELSE {"take", "meet", "project", "ended"}

CountersOK ==
  /\ shape \in Shapes
  /\ vec \in [Lanes -> [slot : 0 .. Slots - 1, pc : LanePcs]]
  /\ cube \in [Cubes -> [slot : 0 .. Slots - 1, pc : CubePcs, chunk : Int]]
  /\ raised \in [Flags -> [Lanes -> Int]] /\ told \in [Flags -> [Lanes -> Int]]
  /\ at \in [Flags -> [Cubes -> Int]] /\ go \in [Flags -> [Cubes -> Int]]
  /\ \A l \in Lanes : vec[l].pc = "ended" => vec[l].slot = Slots - 1
  /\ \A c \in Cubes : cube[c].pc = "ended" => cube[c].slot = Slots - 1

\* A cube and its lanes.
LanesInv ==
  \A l \in Lanes : LET c == CoreOf(l) IN
    /\ Taken(c) <= Published(l)
    /\ HasAck => Acked(l) <= Taken(c)
    /\ shape.kind = "delayed" => Opened(l) <= GridPassed(c)
    /\ \A f \in Flags :
         /\ raised[f][l] = VectorUses(f, Published(l)) - VectorUses(f, Taken(c))
         /\ told[f][l] = AckUses(f, Taken(c)) - AckUses(f, Acked(l))
                           + GateUses(f, GridPassed(c)) - GateUses(f, Opened(l))

\* The cubes, after "met" meetings about rows and "open" ones about gates.
MeetInv(met, open) ==
  \A c \in Cubes :
    /\ Passed(c) <= met /\ met <= Taken(c)
    /\ shape.kind = "delayed" => GridPassed(c) <= open /\ open <= GridArrived(c)
    /\ \A f \in Flags :
         /\ at[f][c] = CubeUses(f, Taken(c)) - CubeUses(f, met)
                         + GridUses(f, GridArrived(c)) - GridUses(f, open)
         /\ go[f][c] = CubeUses(f, met) - CubeUses(f, Passed(c))
                         + GridUses(f, open) - GridUses(f, GridPassed(c))

BackendInv == /\ CountersOK
              /\ LanesInv
              /\ \E met, open \in 0 .. Slots : MeetInv(met, open)
=============================================================================
