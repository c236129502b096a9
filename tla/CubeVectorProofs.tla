-------------------------- MODULE CubeVectorProofs --------------------------
(* Two kernels in which the cube units and the vector units of a device work *)
(* together.  The second half of the fused KDA kernel, for any launch, with  *)
(* any number of cores, lanes, batches, heads and chunks: no flag is         *)
(* overtaken, and every chunk is whole when a cube multiplies it.  And the   *)
(* Stream-K matmul, for matrices of any size and any number of cores: every  *)
(* product is whole, and the buffers of a core are large enough.             *)
EXTENDS KdaBackend, StreamK, FiniteSetTheorems, TLAPS


(* Products and quotients of positive numbers, rounded up.                   *)
LEMMA Quotients ==
    ASSUME NEW a \in Nat \ {0}, NEW b \in Nat \ {0}
    PROVE  a * b \in Nat \ {0} /\ Ceiling(a, b) \in Nat \ {0}
<1>1. a * b \in Nat \ {0}
  BY Z3
<1>2. (a + b - 1) \div b \in Nat \ {0}
  <2>1. a + b - 1 \in Nat /\ a + b - 1 >= b
    OBVIOUS
  <2>2. ASSUME NEW x \in Nat, x >= b PROVE x \div b \in Nat \ {0}
    BY <2>2, Z3
  <2> QED
    BY <2>1, <2>2
<1> QED
  BY <1>1, <1>2 DEF Ceiling

(* What is known of a launch.                                                *)
LEMMA LaunchFacts ==
    ASSUME shape \in Shapes
    PROVE  /\ shape.kind \in {"rows", "heads", "compact", "delayed"}
           /\ shape.cores \in Nat \ {0}
           /\ Slots \in Nat \ {0}
           /\ shape.kind = "compact" => Slots <= 3
           /\ \A l \in Lanes : CoreOf(l) \in Cubes
<1>1. /\ shape.kind \in {"rows", "heads", "compact", "delayed"}
      /\ {shape.B, shape.n, shape.G, shape.cores, shape.lanes, shape.zb}
            \subseteq Nat \ {0}
      /\ shape.kind = "compact" => Ceiling(shape.B * shape.n, shape.lanes) <= 3
  BY ShapesAssumption
<1>2. /\ shape.B \in Nat \ {0} /\ shape.n \in Nat \ {0} /\ shape.G \in Nat \ {0}
      /\ shape.cores \in Nat \ {0} /\ shape.lanes \in Nat \ {0}
  BY <1>1
<1>3. Tasks \in Nat \ {0}
  BY <1>2, Quotients DEF Tasks
<1>4. Ceiling(Tasks, shape.lanes) \in Nat \ {0}
      /\ Ceiling(shape.B, shape.G) \in Nat \ {0}
  BY <1>2, <1>3, Quotients
<1>5. Slots \in Nat \ {0}
  BY <1>2, <1>4 DEF Slots, Chunks
<1>6. shape.kind = "compact" => Slots <= 3
  BY <1>1 DEF Slots, Tasks
<1>7. ASSUME NEW l \in Lanes PROVE CoreOf(l) \in Cubes
  BY <1>2, <1>7 DEF Lanes, Cubes, CoreOf
<1> QED
  BY <1>1, <1>2, <1>5, <1>6, <1>7

(* The chunk at which a cube begins a slot is a number.                      *)
LEMMA ChunkNumber ==
    ASSUME shape \in Shapes, NEW s \in Nat PROVE ReadyBefore(s) \in Int
<1>1. /\ {shape.B, shape.n, shape.G, shape.cores, shape.lanes, shape.zb}
            \subseteq Nat \ {0}
  BY ShapesAssumption
<1>2. /\ shape.B \in Nat \ {0} /\ shape.n \in Nat \ {0} /\ shape.G \in Nat \ {0}
      /\ shape.lanes \in Nat \ {0}
  BY <1>1
<1>3. ChunkTasks \in Nat \ {0}
  BY <1>2, Quotients DEF ChunkTasks
<1>4. s * shape.lanes \in Nat
  BY <1>2
<1>5. ASSUME NEW x \in Nat, NEW y \in Nat \ {0} PROVE x \div y \in Int
  BY <1>5, Z3
<1> QED
  BY <1>3, <1>4, <1>5 DEF ReadyBefore

(* One more slot raises its flag once, and nothing else.                     *)
LEMMA UsesStep ==
    ASSUME shape \in Shapes, NEW f \in Flags, NEW m \in 0 .. Slots - 1
    PROVE  /\ VectorUses(f, m + 1) = VectorUses(f, m) + One(f = VectorFlag(m))
           /\ CubeUses(f, m + 1) = CubeUses(f, m) + One(f = CubeFlag(m))
           /\ VectorFlag(m) \in Flags /\ CubeFlag(m) \in Flags
<1>1. m \in Nat /\ (shape.kind = "compact" => m <= 2)
  BY LaunchFacts
<1>2. f \in 0 .. 8
  BY DEF Flags
<1>3. CASE shape.kind = "compact"
  <2>1. m \in {0, 1, 2} /\ f \in {0, 1, 2, 3, 4, 5, 6, 7, 8}
    BY <1>1, <1>2, <1>3
  <2> QED
    BY <1>3, <2>1 DEF VectorUses, CubeUses, VectorFlag, CubeFlag, One, Flags
<1>4. CASE shape.kind # "compact"
  BY <1>1, <1>2, <1>4 DEF VectorUses, CubeUses, VectorFlag, CubeFlag, One, Flags
<1> QED
  BY <1>3, <1>4

(* The counts are numbers that grow with the slots, by one at most for each. *)
LEMMA UsesGrow ==
    ASSUME NEW f \in Flags, NEW a \in Nat, NEW b \in Nat
    PROVE  /\ VectorUses(f, a) \in Nat /\ CubeUses(f, a) \in Nat
           /\ AckUses(f, a) \in Nat /\ GateUses(f, a) \in Nat
           /\ GridUses(f, a) \in Nat
           /\ a <= b => /\ VectorUses(f, a) <= VectorUses(f, b)
                        /\ CubeUses(f, a) <= CubeUses(f, b)
           /\ b <= a + 1 => /\ VectorUses(f, b) <= VectorUses(f, a) + 1
                            /\ CubeUses(f, b) <= CubeUses(f, a) + 1
           /\ shape.kind = "compact" => VectorUses(f, b) <= VectorUses(f, a) + 1
<1>1. f \in 0 .. 8
  BY DEF Flags
<1> QED
  BY <1>1 DEF VectorUses, CubeUses, AckUses, GateUses, GridUses, One

(* The meetings of the cubes in particular.                                  *)
LEMMA UsesAreNumbers ==
    ASSUME NEW f \in Flags, NEW m \in Nat
    PROVE  CubeUses(f, m) \in Int /\ GridUses(f, m) \in Int
BY UsesGrow
-----------------------------------------------------------------------------
(* Where lanes and cubes are, in numbers.                                    *)
LEMMA Progress ==
    ASSUME CountersOK
    PROVE  /\ shape \in Shapes /\ Slots \in Nat \ {0}
           /\ shape.kind \in {"rows", "heads", "compact", "delayed"}
           /\ \A l \in Lanes :
                 /\ CoreOf(l) \in Cubes
                 /\ vec[l].slot \in 0 .. Slots - 1 /\ vec[l].pc \in LanePcs
                 /\ Opened(l) \in 0 .. Slots /\ Published(l) \in 0 .. Slots
                 /\ Acked(l) \in 0 .. Slots
                 /\ Published(l) <= Opened(l) /\ Published(l) <= Acked(l) + 1
           /\ \A c \in Cubes :
                 /\ cube[c].slot \in 0 .. Slots - 1 /\ cube[c].pc \in CubePcs
                 /\ GridArrived(c) \in 0 .. Slots /\ GridPassed(c) \in 0 .. Slots
                 /\ Taken(c) \in 0 .. Slots /\ Passed(c) \in 0 .. Slots
                 /\ Taken(c) <= Passed(c) + 1 /\ GridPassed(c) <= Taken(c) + 1
                 /\ GridArrived(c) <= GridPassed(c) + 1
<1>1. shape \in Shapes /\ Slots \in Nat \ {0}
      /\ shape.kind \in {"rows", "heads", "compact", "delayed"}
  BY LaunchFacts DEF CountersOK
<1>2. ASSUME NEW l \in Lanes
      PROVE  /\ CoreOf(l) \in Cubes
             /\ vec[l].slot \in 0 .. Slots - 1 /\ vec[l].pc \in LanePcs
             /\ Opened(l) \in 0 .. Slots /\ Published(l) \in 0 .. Slots
             /\ Acked(l) \in 0 .. Slots
             /\ Published(l) <= Opened(l) /\ Published(l) <= Acked(l) + 1
  <2>1. vec[l] \in [slot : 0 .. Slots - 1, pc : LanePcs] /\ CoreOf(l) \in Cubes
    BY <1>1, LaunchFacts DEF CountersOK
  <2>2. vec[l].slot \in 0 .. Slots - 1 /\ vec[l].pc \in LanePcs
    BY <2>1
  <2> QED
    BY <1>1, <2>1, <2>2 DEF Opened, Published, Acked, One
<1>3. ASSUME NEW c \in Cubes
      PROVE  /\ cube[c].slot \in 0 .. Slots - 1 /\ cube[c].pc \in CubePcs
             /\ GridArrived(c) \in 0 .. Slots /\ GridPassed(c) \in 0 .. Slots
             /\ Taken(c) \in 0 .. Slots /\ Passed(c) \in 0 .. Slots
             /\ Taken(c) <= Passed(c) + 1 /\ GridPassed(c) <= Taken(c) + 1
             /\ GridArrived(c) <= GridPassed(c) + 1
  <2>1. cube[c] \in [slot : 0 .. Slots - 1, pc : CubePcs, chunk : Int]
    BY DEF CountersOK
  <2>2. cube[c].slot \in 0 .. Slots - 1 /\ cube[c].pc \in CubePcs
    BY <2>1
  <2> QED
    BY <1>1, <2>2 DEF GridArrived, GridPassed, Taken, Passed, One
<1> QED
  BY <1>1, <1>2, <1>3

(* The invariant bounds every counter, and clears it at the end.             *)
LEMMA InvBoundsFlags == ASSUME BackendInv PROVE FlagsTaken
<1>1. PICK met \in 0 .. Slots, open \in 0 .. Slots : MeetInv(met, open)
  BY DEF BackendInv
<1>2. CountersOK /\ LanesInv
  BY DEF BackendInv
<1>3. ASSUME NEW f \in Flags, NEW l \in Lanes
      PROVE  raised[f][l] <= 1 /\ told[f][l] <= 1
  <2> DEFINE c == CoreOf(l)
  <2>1. /\ c \in Cubes
        /\ Published(l) \in Nat /\ Acked(l) \in Nat /\ Opened(l) \in Nat
        /\ Taken(c) \in Nat /\ GridPassed(c) \in Nat
        /\ Published(l) <= Opened(l) /\ Published(l) <= Acked(l) + 1
        /\ GridPassed(c) <= Taken(c) + 1
    BY <1>2, Progress
  <2>2. /\ Taken(c) <= Published(l)
        /\ HasAck => Acked(l) <= Taken(c)
        /\ raised[f][l] = VectorUses(f, Published(l)) - VectorUses(f, Taken(c))
        /\ told[f][l] = AckUses(f, Taken(c)) - AckUses(f, Acked(l))
                          + GateUses(f, GridPassed(c)) - GateUses(f, Opened(l))
    BY <1>2 DEF LanesInv
  <2> HIDE DEF c
  <2>3. raised[f][l] <= 1
    <3>1. VectorUses(f, Published(l)) \in Nat /\ VectorUses(f, Taken(c)) \in Nat
      BY <2>1, UsesGrow
    <3>2. VectorUses(f, Published(l)) <= VectorUses(f, Taken(c)) + 1
      <4>1. CASE shape.kind = "compact"
        BY <2>1, <4>1, UsesGrow
      <4>2. CASE shape.kind # "compact"
        <5>1. Published(l) <= Taken(c) + 1
          BY <2>1, <2>2, <4>2 DEF HasAck
        <5> QED
          BY <2>1, <5>1, UsesGrow
      <4> QED
        BY <4>1, <4>2
    <3> QED
      BY <2>2, <3>1, <3>2
  <2>4. told[f][l] <= 1
    BY <2>1, <2>2 DEF AckUses, GateUses, AckFlag, GateFlag, HasAck
  <2> QED
    BY <2>3, <2>4
<1>4. ASSUME NEW f \in Flags, NEW c \in Cubes PROVE at[f][c] <= 1 /\ go[f][c] <= 1
  <2>1. /\ Taken(c) \in Nat /\ Passed(c) \in Nat
        /\ GridArrived(c) \in Nat /\ GridPassed(c) \in Nat
        /\ Taken(c) <= Passed(c) + 1 /\ GridArrived(c) <= GridPassed(c) + 1
        /\ met \in Nat /\ open \in Nat
    BY <1>2, Progress
  <2>2. /\ Passed(c) <= met /\ met <= Taken(c)
        /\ shape.kind = "delayed" => GridPassed(c) <= open /\ open <= GridArrived(c)
        /\ at[f][c] = CubeUses(f, Taken(c)) - CubeUses(f, met)
                        + GridUses(f, GridArrived(c)) - GridUses(f, open)
        /\ go[f][c] = CubeUses(f, met) - CubeUses(f, Passed(c))
                        + GridUses(f, open) - GridUses(f, GridPassed(c))
    BY <1>1 DEF MeetInv
  <2>3. /\ CubeUses(f, Taken(c)) <= CubeUses(f, met) + 1
        /\ CubeUses(f, met) <= CubeUses(f, Passed(c)) + 1
        /\ CubeUses(f, Taken(c)) \in Nat /\ CubeUses(f, met) \in Nat
        /\ CubeUses(f, Passed(c)) \in Nat
    <3>1. Taken(c) <= met + 1 /\ met <= Passed(c) + 1
      BY <2>1, <2>2
    <3>2. CubeUses(f, Taken(c)) <= CubeUses(f, met) + 1
      BY <2>1, <3>1, UsesGrow
    <3>3. CubeUses(f, met) <= CubeUses(f, Passed(c)) + 1
      BY <2>1, <3>1, UsesGrow
    <3>4. /\ CubeUses(f, Taken(c)) \in Nat /\ CubeUses(f, met) \in Nat
          /\ CubeUses(f, Passed(c)) \in Nat
      BY <2>1, UsesGrow
    <3> QED
      BY <3>2, <3>3, <3>4
  <2>4. CASE shape.kind = "delayed" /\ f = GridFlag
    <3>1. /\ CubeUses(f, Taken(c)) = 0 /\ CubeUses(f, met) = 0
          /\ CubeUses(f, Passed(c)) = 0
      BY <2>4 DEF CubeUses, GridFlag
    <3> QED
      BY <2>1, <2>2, <2>4, <3>1 DEF GridUses
  <2>5. CASE ~(shape.kind = "delayed" /\ f = GridFlag)
    <3>1. \A m : GridUses(f, m) = 0
      BY <2>5 DEF GridUses
    <3> QED
      BY <2>2, <2>3, <3>1
  <2> QED
    BY <2>4, <2>5
<1>5. ASSUME Ended
      PROVE  /\ raised = NoNotice(Lanes) /\ told = NoNotice(Lanes)
             /\ at = NoNotice(Cubes) /\ go = NoNotice(Cubes)
  <2>1. ASSUME NEW l \in Lanes
        PROVE  Published(l) = Slots /\ Acked(l) = Slots /\ Opened(l) = Slots
    <3>1. vec[l].pc = "ended" /\ vec[l].slot = Slots - 1 /\ Slots \in Nat
      BY <1>2, <1>5, Progress DEF Ended, CountersOK
    <3> QED
      BY <3>1 DEF Published, Acked, Opened, One
  <2>2. ASSUME NEW c \in Cubes
        PROVE  /\ Taken(c) = Slots /\ Passed(c) = Slots
               /\ GridArrived(c) = Slots /\ GridPassed(c) = Slots
    <3>1. cube[c].pc = "ended" /\ cube[c].slot = Slots - 1 /\ Slots \in Nat
      BY <1>2, <1>5, Progress DEF Ended, CountersOK
    <3> QED
      BY <3>1 DEF Taken, Passed, GridArrived, GridPassed, One
  <2>3. ASSUME NEW f \in Flags, NEW l \in Lanes
        PROVE  raised[f][l] = 0 /\ told[f][l] = 0
    <3>1. CoreOf(l) \in Cubes
      BY <1>2, Progress
    <3>2. /\ raised[f][l] = VectorUses(f, Slots) - VectorUses(f, Slots)
          /\ told[f][l] = AckUses(f, Slots) - AckUses(f, Slots)
                            + GateUses(f, Slots) - GateUses(f, Slots)
      BY <1>2, <2>1, <2>2, <3>1 DEF LanesInv
    <3>3. /\ VectorUses(f, Slots) \in Nat /\ AckUses(f, Slots) \in Nat
          /\ GateUses(f, Slots) \in Nat
      BY <1>2, Progress, UsesGrow
    <3> QED
      BY <3>2, <3>3
  <2>4. ASSUME NEW f \in Flags, NEW c \in Cubes
        PROVE  at[f][c] = 0 /\ go[f][c] = 0
    <3>1. met = Slots /\ (shape.kind = "delayed" => open = Slots)
      <4>1. /\ Passed(c) <= met /\ met <= Taken(c)
            /\ shape.kind = "delayed" =>
                  GridPassed(c) <= open /\ open <= GridArrived(c)
        BY <1>1 DEF MeetInv
      <4>2. Slots \in Nat /\ met \in Nat /\ open \in Nat
        BY <1>2, Progress
      <4>3. /\ Slots <= met /\ met <= Slots
            /\ shape.kind = "delayed" => Slots <= open /\ open <= Slots
        BY <2>2, <4>1
      <4> QED
        BY <4>2, <4>3
    <3>2. /\ at[f][c] = CubeUses(f, Slots) - CubeUses(f, Slots)
                          + GridUses(f, Slots) - GridUses(f, open)
          /\ go[f][c] = CubeUses(f, Slots) - CubeUses(f, Slots)
                          + GridUses(f, open) - GridUses(f, Slots)
      BY <1>1, <2>2, <3>1 DEF MeetInv
    <3>3. CubeUses(f, Slots) \in Nat /\ GridUses(f, Slots) \in Nat
          /\ GridUses(f, open) = GridUses(f, Slots)
      BY <1>2, <3>1, Progress, UsesGrow DEF GridUses
    <3> QED
      BY <3>2, <3>3
  <2> QED
    BY <1>2, <2>3, <2>4 DEF CountersOK, NoNotice
<1> QED
  BY <1>3, <1>4, <1>5 DEF FlagsTaken
-----------------------------------------------------------------------------
(* A step of a lane leaves the cubes alone, and the other lanes.             *)
LEMMA LaneStepKeeps ==
    ASSUME BackendInv, NEW l \in Lanes,
           UNCHANGED <<shape, cube, at, go>>,
           NEW v \in [slot : 0 .. Slots - 1, pc : LanePcs],
           v.pc = "ended" => v.slot = Slots - 1,
           vec' = [vec EXCEPT ![l] = v],
           raised' \in [Flags -> [Lanes -> Int]],
           told' \in [Flags -> [Lanes -> Int]],
           \A f \in Flags : \A x \in Lanes \ {l} :
              raised'[f][x] = raised[f][x] /\ told'[f][x] = told[f][x],
           Taken(CoreOf(l)) <= Published(l)',
           HasAck => Acked(l)' <= Taken(CoreOf(l)),
           shape.kind = "delayed" => Opened(l)' <= GridPassed(CoreOf(l)),
           \A f \in Flags :
              /\ raised'[f][l] - raised[f][l]
                   = VectorUses(f, Published(l)') - VectorUses(f, Published(l))
              /\ told'[f][l] - told[f][l]
                   = AckUses(f, Acked(l)) - AckUses(f, Acked(l)')
                       + GateUses(f, Opened(l)) - GateUses(f, Opened(l)')
    PROVE  BackendInv'
<1>1. /\ Lanes' = Lanes /\ Cubes' = Cubes /\ Slots' = Slots
      /\ LanePcs' = LanePcs /\ CubePcs' = CubePcs /\ HasAck' = HasAck
      /\ \A x : CoreOf(x)' = CoreOf(x)
      /\ \A f, m : /\ VectorUses(f, m)' = VectorUses(f, m)
                   /\ CubeUses(f, m)' = CubeUses(f, m)
                   /\ AckUses(f, m)' = AckUses(f, m)
                   /\ GateUses(f, m)' = GateUses(f, m)
                   /\ GridUses(f, m)' = GridUses(f, m)
      /\ \A c : /\ Taken(c)' = Taken(c) /\ Passed(c)' = Passed(c)
                /\ GridArrived(c)' = GridArrived(c)
                /\ GridPassed(c)' = GridPassed(c)
  BY DEF Lanes, Cubes, Slots, Chunks, Tasks, Ceiling, LanePcs, CubePcs, HasAck,
         CoreOf, VectorUses, CubeUses, AckUses, GateUses, GridUses, Taken,
         Passed, GridArrived, GridPassed
<1>2. CountersOK
  BY DEF BackendInv
<1>3. CountersOK'
  BY <1>1, <1>2 DEF CountersOK
<1>4. LanesInv'
  <2> SUFFICES ASSUME NEW x \in Lanes
               PROVE  LET c == CoreOf(x) IN
                      /\ Taken(c) <= Published(x)'
                      /\ HasAck => Acked(x)' <= Taken(c)
                      /\ shape.kind = "delayed" => Opened(x)' <= GridPassed(c)
                      /\ \A f \in Flags :
                           /\ raised'[f][x] = VectorUses(f, Published(x)')
                                                - VectorUses(f, Taken(c))
                           /\ told'[f][x] = AckUses(f, Taken(c))
                                              - AckUses(f, Acked(x)')
                                              + GateUses(f, GridPassed(c))
                                              - GateUses(f, Opened(x)')
    BY <1>1 DEF LanesInv
  <2>1. LanesInv
    BY DEF BackendInv
  <2>2. CASE x # l
    <3>1. /\ Published(x)' = Published(x) /\ Acked(x)' = Acked(x)
          /\ Opened(x)' = Opened(x)
      BY <1>2, <2>2 DEF Published, Acked, Opened, CountersOK
    <3>2. \A f \in Flags : raised'[f][x] = raised[f][x] /\ told'[f][x] = told[f][x]
      BY <2>2
    <3> QED
      BY <2>1, <3>1, <3>2 DEF LanesInv
  <2>3. CASE x = l
    <3> DEFINE c == CoreOf(l)
    <3>1. /\ c \in Cubes /\ Taken(c) \in Nat /\ GridPassed(c) \in Nat
          /\ Published(l) \in Nat /\ Acked(l) \in Nat /\ Opened(l) \in Nat
      BY <1>2, Progress
    <3>2. /\ vec'[l] = v /\ Slots \in Nat
          /\ v.slot \in Nat
      BY <1>2, Progress DEF CountersOK
    <3>3. /\ Published(l)' \in Nat /\ Acked(l)' \in Nat /\ Opened(l)' \in Nat
      BY <3>2 DEF Published, Acked, Opened, One
    <3>4. ASSUME NEW f \in Flags
          PROVE  /\ raised'[f][l] = VectorUses(f, Published(l)')
                                      - VectorUses(f, Taken(c))
                 /\ told'[f][l] = AckUses(f, Taken(c)) - AckUses(f, Acked(l)')
                                    + GateUses(f, GridPassed(c))
                                    - GateUses(f, Opened(l)')
      <4>1. /\ raised[f][l] = VectorUses(f, Published(l)) - VectorUses(f, Taken(c))
            /\ told[f][l] = AckUses(f, Taken(c)) - AckUses(f, Acked(l))
                              + GateUses(f, GridPassed(c)) - GateUses(f, Opened(l))
        BY <2>1 DEF LanesInv
      <4>2. /\ VectorUses(f, Published(l)) \in Int
            /\ VectorUses(f, Published(l)') \in Int
            /\ VectorUses(f, Taken(c)) \in Int
            /\ AckUses(f, Taken(c)) \in Int /\ AckUses(f, Acked(l)) \in Int
            /\ AckUses(f, Acked(l)') \in Int
            /\ GateUses(f, GridPassed(c)) \in Int
            /\ GateUses(f, Opened(l)) \in Int /\ GateUses(f, Opened(l)') \in Int
            /\ raised'[f][l] \in Int /\ told'[f][l] \in Int
            /\ raised[f][l] \in Int /\ told[f][l] \in Int
        <5>1. /\ VectorUses(f, Published(l)) \in Int
              /\ AckUses(f, Acked(l)) \in Int /\ GateUses(f, Opened(l)) \in Int
          BY <3>1, UsesGrow
        <5>2. /\ VectorUses(f, Taken(c)) \in Int /\ AckUses(f, Taken(c)) \in Int
              /\ GateUses(f, GridPassed(c)) \in Int
          <6> HIDE DEF c
          <6> QED
            BY <3>1, UsesGrow
        <5>3. /\ VectorUses(f, Published(l)') \in Int
              /\ AckUses(f, Acked(l)') \in Int
              /\ GateUses(f, Opened(l)') \in Int
          BY <3>3, UsesGrow
        <5>4. /\ raised'[f][l] \in Int /\ told'[f][l] \in Int
              /\ raised[f][l] \in Int /\ told[f][l] \in Int
          BY <1>2 DEF CountersOK
        <5> QED
          BY <5>1, <5>2, <5>3, <5>4
      <4>3. raised'[f][l] = VectorUses(f, Published(l)') - VectorUses(f, Taken(c))
        <5> DEFINE r == raised[f][l]     r2 == raised'[f][l]
                   p == VectorUses(f, Published(l))
                   p2 == VectorUses(f, Published(l)')
                   t == VectorUses(f, Taken(c))
        <5>1. r2 - r = p2 - p /\ r = p - t
          BY <4>1
        <5>2. r \in Int /\ r2 \in Int /\ p \in Int /\ p2 \in Int /\ t \in Int
          BY <4>2
        <5> HIDE DEF r, r2, p, p2, t
        <5>3. r2 = p2 - t
          BY <5>1, <5>2
        <5> QED
          BY <5>3 DEF r2, p2, t
      <4>4. told'[f][l] = AckUses(f, Taken(c)) - AckUses(f, Acked(l)')
                            + GateUses(f, GridPassed(c)) - GateUses(f, Opened(l)')
        <5> DEFINE r == told[f][l]           r2 == told'[f][l]
                   a == AckUses(f, Acked(l))   a2 == AckUses(f, Acked(l)')
                   g == GateUses(f, Opened(l)) g2 == GateUses(f, Opened(l)')
                   t == AckUses(f, Taken(c))   o == GateUses(f, GridPassed(c))
        <5>1. r2 - r = a - a2 + g - g2 /\ r = t - a + o - g
          BY <4>1
        <5>2. /\ r \in Int /\ r2 \in Int /\ a \in Int /\ a2 \in Int
              /\ g \in Int /\ g2 \in Int /\ t \in Int /\ o \in Int
          BY <4>2
        <5> HIDE DEF r, r2, a, a2, g, g2, t, o
        <5>3. r2 = t - a2 + o - g2
          BY <5>1, <5>2
        <5> QED
          BY <5>3 DEF r2, a2, g2, t, o
      <4> QED
        BY <4>3, <4>4
    <3> QED
      BY <2>3, <3>4
  <2> QED
    BY <2>2, <2>3
<1>5. ASSUME NEW met \in 0 .. Slots, NEW open \in 0 .. Slots, MeetInv(met, open)
      PROVE  MeetInv(met, open)'
  BY <1>1, <1>5 DEF MeetInv
<1> QED
  BY <1>1, <1>3, <1>4, <1>5 DEF BackendInv

(* The end of a slot, for a lane.                                            *)
LEMMA SlotEnds ==
    ASSUME CountersOK, NEW l \in Lanes, vec'[l] = AfterSlot(vec[l])
    PROVE  /\ AfterSlot(vec[l]) \in [slot : 0 .. Slots - 1, pc : LanePcs]
           /\ AfterSlot(vec[l]).pc = "ended" => AfterSlot(vec[l]).slot = Slots - 1
           /\ Opened(l)' = vec[l].slot + 1 /\ Published(l)' = vec[l].slot + 1
           /\ Acked(l)' = vec[l].slot + 1
<1>1. /\ Slots \in Nat \ {0} /\ vec[l].slot \in 0 .. Slots - 1
      /\ {"run", "ended"} \subseteq LanePcs
  <2>1. {"run", "ended"} \subseteq LanePcs
    BY Progress DEF LanePcs
  <2> QED
    BY <2>1, Progress
<1>2. CASE vec[l].slot + 1 < Slots
  <2>1. AfterSlot(vec[l]) = [slot |-> vec[l].slot + 1, pc |-> "run"]
    BY <1>2 DEF AfterSlot
  <2> QED
    BY <1>1, <1>2, <2>1 DEF Opened, Published, Acked, One
<1>3. CASE ~(vec[l].slot + 1 < Slots)
  <2>1. AfterSlot(vec[l]) = [slot |-> vec[l].slot, pc |-> "ended"]
    BY <1>3 DEF AfterSlot
  <2> QED
    BY <1>1, <1>3, <2>1 DEF Opened, Published, Acked, One
<1> QED
  BY <1>2, <1>3

(* The steps of the lanes keep the invariant.                                *)
LEMMA LaneKeeps ==
    ASSUME BackendInv, NEW l \in Lanes, LaneStep(l)
    PROVE  BackendInv'
<1> DEFINE c == CoreOf(l)
<1>1. CountersOK /\ LanesInv
  BY DEF BackendInv
<1>2. /\ vec \in [Lanes -> [slot : 0 .. Slots - 1, pc : LanePcs]]
      /\ vec[l] \in [slot : 0 .. Slots - 1, pc : LanePcs]
      /\ vec[l].slot \in Nat /\ "publish" \in LanePcs
      /\ shape.kind = "delayed" => "gate" \in LanePcs
      /\ HasAck => "ack" \in LanePcs
      /\ vec[l].pc = "gate" => shape.kind = "delayed"
      /\ vec[l].pc = "ack" => HasAck
  <2>1. /\ shape.kind \in {"rows", "heads", "compact", "delayed"}
        /\ vec[l].pc \in LanePcs
    BY <1>1, Progress
  <2>2. /\ "publish" \in LanePcs
        /\ shape.kind = "delayed" => "gate" \in LanePcs
        /\ HasAck => "ack" \in LanePcs
        /\ vec[l].pc = "gate" => shape.kind = "delayed"
        /\ vec[l].pc = "ack" => HasAck
    BY <2>1 DEF LanePcs, HasAck
  <2> QED
    BY <1>1, <2>2, Progress DEF CountersOK
<1>3. /\ c \in Cubes /\ Taken(c) \in Nat /\ GridPassed(c) \in Nat
      /\ Published(l) \in Nat /\ Acked(l) \in Nat /\ Opened(l) \in Nat
  BY <1>1, Progress
<1>4. /\ Taken(c) <= Published(l)
      /\ HasAck => Acked(l) <= Taken(c)
      /\ shape.kind = "delayed" => Opened(l) <= GridPassed(c)
      /\ \A f \in Flags :
           told[f][l] = AckUses(f, Taken(c)) - AckUses(f, Acked(l))
                          + GateUses(f, GridPassed(c)) - GateUses(f, Opened(l))
  BY <1>1 DEF LanesInv
<1>5. /\ raised \in [Flags -> [Lanes -> Int]]
      /\ told \in [Flags -> [Lanes -> Int]]
  BY <1>1 DEF CountersOK
<1>6. GateFlag \in Flags /\ AckFlag \in Flags
  BY DEF GateFlag, AckFlag, Flags
<1>7. \A f \in Flags : \A m \in Nat :
         /\ VectorUses(f, m) \in Int /\ AckUses(f, m) \in Int /\ GateUses(f, m) \in Int
  BY UsesGrow
<1> HIDE DEF c
<1>8. CASE Run(l)
  <2> DEFINE v == [vec[l] EXCEPT !.pc = "publish"]
  <2>1. /\ vec' = [vec EXCEPT ![l] = v] /\ vec[l].pc = "run" /\ shape.kind # "delayed"
        /\ raised' = raised /\ told' = told /\ UNCHANGED <<shape, cube, at, go>>
    BY <1>8 DEF Run
  <2>2. /\ v \in [slot : 0 .. Slots - 1, pc : LanePcs] /\ v.pc = "publish"
        /\ v.slot = vec[l].slot /\ vec'[l] = v
    BY <1>2, <2>1
  <2>3. Published(l)' = Published(l) /\ Acked(l)' = Acked(l)
        /\ Opened(l)' \in Nat
    BY <1>2, <2>1, <2>2 DEF Published, Acked, Opened, One
  <2>4. \A f \in Flags : \A m : GateUses(f, m) = 0
    BY <2>1 DEF GateUses
  <2> HIDE DEF v
  <2>5. \A f \in Flags :
           /\ raised'[f][l] - raised[f][l]
                = VectorUses(f, Published(l)') - VectorUses(f, Published(l))
           /\ told'[f][l] - told[f][l]
                = AckUses(f, Acked(l)) - AckUses(f, Acked(l)')
                    + GateUses(f, Opened(l)) - GateUses(f, Opened(l)')
    BY <1>3, <1>5, <1>7, <2>1, <2>3, <2>4
  <2> QED
    BY <1>4, <1>5, <2>1, <2>2, <2>3, <2>5, LaneStepKeeps DEF c
<1>9. CASE RunRaw(l)
  <2> DEFINE v == [vec[l] EXCEPT !.pc = "gate"]
  <2>1. /\ vec' = [vec EXCEPT ![l] = v] /\ vec[l].pc = "run" /\ shape.kind = "delayed"
        /\ raised' = raised /\ told' = told /\ UNCHANGED <<shape, cube, at, go>>
    BY <1>9 DEF RunRaw
  <2>2. /\ v \in [slot : 0 .. Slots - 1, pc : LanePcs] /\ v.pc = "gate"
        /\ v.slot = vec[l].slot /\ vec'[l] = v
    BY <1>2, <2>1
  <2>3. /\ Published(l)' = Published(l) /\ Acked(l)' = Acked(l)
        /\ Opened(l)' = Opened(l)
    BY <1>2, <2>1, <2>2 DEF Published, Acked, Opened, One
  <2> HIDE DEF v
  <2>4. \A f \in Flags :
           /\ raised'[f][l] - raised[f][l]
                = VectorUses(f, Published(l)') - VectorUses(f, Published(l))
           /\ told'[f][l] - told[f][l]
                = AckUses(f, Acked(l)) - AckUses(f, Acked(l)')
                    + GateUses(f, Opened(l)) - GateUses(f, Opened(l)')
    BY <1>3, <1>5, <1>7, <2>1, <2>3
  <2> QED
    BY <1>4, <1>5, <2>1, <2>2, <2>3, <2>4, LaneStepKeeps DEF c
<1>10. CASE StoreGated(l)
  <2> DEFINE v == [vec[l] EXCEPT !.pc = "publish"]
  <2>1. /\ vec' = [vec EXCEPT ![l] = v] /\ vec[l].pc = "gate"
        /\ told[GateFlag][l] > 0
        /\ told' = [told EXCEPT ![GateFlag][l] = @ - 1]
        /\ raised' = raised /\ UNCHANGED <<shape, cube, at, go>>
    BY <1>10 DEF StoreGated
  <2>2. /\ v \in [slot : 0 .. Slots - 1, pc : LanePcs] /\ v.pc = "publish"
        /\ v.slot = vec[l].slot /\ vec'[l] = v /\ shape.kind = "delayed"
    BY <1>2, <2>1
  <2>3. /\ Published(l)' = Published(l) /\ Acked(l)' = Acked(l)
        /\ Opened(l)' = Opened(l) + 1
    BY <1>2, <2>1, <2>2 DEF Published, Acked, Opened, One
  <2> HIDE DEF v
  <2>4. Opened(l)' <= GridPassed(c)
    <3>1. AckUses(GateFlag, Taken(c)) = 0 /\ AckUses(GateFlag, Acked(l)) = 0
      BY DEF AckUses, AckFlag, GateFlag
    <3>2. GateUses(GateFlag, GridPassed(c)) = GridPassed(c)
          /\ GateUses(GateFlag, Opened(l)) = Opened(l)
      BY <2>2 DEF GateUses
    <3> QED
      BY <1>3, <1>4, <1>6, <2>1, <2>3, <3>1, <3>2
  <2>5. told' \in [Flags -> [Lanes -> Int]]
    BY <1>5, <1>6, <2>1
  <2>6. ASSUME NEW f \in Flags
        PROVE  /\ raised'[f][l] - raised[f][l]
                    = VectorUses(f, Published(l)') - VectorUses(f, Published(l))
               /\ told'[f][l] - told[f][l]
                    = AckUses(f, Acked(l)) - AckUses(f, Acked(l)')
                        + GateUses(f, Opened(l)) - GateUses(f, Opened(l)')
    <3>1. raised'[f][l] - raised[f][l] = 0 /\ told[f][l] \in Int
      BY <1>5, <2>1
    <3>2. VectorUses(f, Published(l)) \in Int /\ AckUses(f, Acked(l)) \in Int
      BY <1>3, <1>7
    <3>3. GateUses(f, Opened(l)) - GateUses(f, Opened(l)')
             = IF f = GateFlag THEN -1 ELSE 0
      BY <1>3, <2>2, <2>3 DEF GateUses
    <3>4. told'[f][l] - told[f][l] = IF f = GateFlag THEN -1 ELSE 0
      BY <1>5, <2>1, <3>1
    <3> QED
      BY <2>3, <3>1, <3>2, <3>3, <3>4
  <2>7. \A f \in Flags : \A x \in Lanes \ {l} :
           raised'[f][x] = raised[f][x] /\ told'[f][x] = told[f][x]
    BY <1>5, <2>1
  <2>8. /\ UNCHANGED <<shape, cube, at, go>> /\ vec' = [vec EXCEPT ![l] = v]
        /\ v \in [slot : 0 .. Slots - 1, pc : LanePcs] /\ v.pc # "ended"
        /\ raised' \in [Flags -> [Lanes -> Int]]
        /\ Taken(c) <= Published(l)' /\ (HasAck => Acked(l)' <= Taken(c))
    BY <1>4, <1>5, <2>1, <2>2, <2>3
  <2> QED
    BY <2>4, <2>5, <2>6, <2>7, <2>8, LaneStepKeeps DEF c
<1>11. CASE Publish(l)
  <2> DEFINE v == IF HasAck THEN [vec[l] EXCEPT !.pc = "ack"] ELSE AfterSlot(vec[l])
             w == VectorFlag(vec[l].slot)
  <2>1. /\ vec' = [vec EXCEPT ![l] = v] /\ vec[l].pc = "publish"
        /\ raised' = [raised EXCEPT ![w][l] = @ + 1]
        /\ told' = told /\ UNCHANGED <<shape, cube, at, go>>
    BY <1>11 DEF Publish
  <2>2. vec'[l] = v
    BY <1>2, <2>1
  <2>3. /\ v \in [slot : 0 .. Slots - 1, pc : LanePcs]
        /\ v.pc = "ended" => v.slot = Slots - 1
        /\ Published(l)' = Published(l) + 1 /\ Opened(l)' = Opened(l)
        /\ Acked(l)' \in Nat /\ (HasAck => Acked(l)' = Acked(l))
        /\ Published(l) = vec[l].slot
    <3>1. CASE HasAck
      <4>1. v = [vec[l] EXCEPT !.pc = "ack"]
        BY <3>1
      <4>2. /\ v \in [slot : 0 .. Slots - 1, pc : LanePcs] /\ v.pc = "ack"
            /\ v.slot = vec[l].slot
        BY <1>2, <3>1, <4>1
      <4> HIDE DEF v
      <4> QED
        BY <1>2, <2>1, <2>2, <4>2 DEF Published, Acked, Opened, One
    <3>2. CASE ~HasAck
      <4>1. v = AfterSlot(vec[l])
        BY <3>2
      <4> HIDE DEF v
      <4> QED
        BY <1>1, <1>2, <2>1, <2>2, <3>2, <4>1, SlotEnds
           DEF Published, Opened, One
    <3> QED
      BY <3>1, <3>2
  <2>4. \A f \in Flags :
           /\ VectorUses(f, vec[l].slot + 1) = VectorUses(f, vec[l].slot) + One(f = w)
           /\ w \in Flags
    <3>1. shape \in Shapes /\ vec[l].slot \in 0 .. Slots - 1
      BY <1>1, Progress
    <3> QED
      BY <3>1, UsesStep
  <2>5. w \in Flags
    BY <1>6, <2>4
  <2> HIDE DEF v, w
  <2>6. raised' \in [Flags -> [Lanes -> Int]]
    BY <1>5, <2>1, <2>5
  <2>7. ASSUME NEW f \in Flags
        PROVE  /\ raised'[f][l] - raised[f][l]
                    = VectorUses(f, Published(l)') - VectorUses(f, Published(l))
               /\ told'[f][l] - told[f][l]
                    = AckUses(f, Acked(l)) - AckUses(f, Acked(l)')
                        + GateUses(f, Opened(l)) - GateUses(f, Opened(l)')
    <3>1. raised'[f][l] - raised[f][l] = One(f = w)
      BY <1>5, <2>1, <2>5 DEF One
    <3>2. VectorUses(f, Published(l)') = VectorUses(f, Published(l)) + One(f = w)
      BY <2>3, <2>4
    <3>3. VectorUses(f, Published(l)) \in Int /\ One(f = w) \in Int
      BY <1>3, <1>7 DEF One
    <3>4. VectorUses(f, Published(l)') - VectorUses(f, Published(l)) = One(f = w)
      BY <3>2, <3>3
    <3>5. AckUses(f, Acked(l)') = AckUses(f, Acked(l))
      BY <2>3 DEF AckUses
    <3>6. AckUses(f, Acked(l)) \in Int /\ GateUses(f, Opened(l)) \in Int
          /\ told[f][l] \in Int
      BY <1>3, <1>5, <1>7
    <3> QED
      BY <2>1, <2>3, <3>1, <3>4, <3>5, <3>6
  <2>8. \A f \in Flags : \A x \in Lanes \ {l} :
           raised'[f][x] = raised[f][x] /\ told'[f][x] = told[f][x]
    BY <1>5, <2>1
  <2>9. /\ Taken(c) <= Published(l)'
        /\ HasAck => Acked(l)' <= Taken(c)
        /\ shape.kind = "delayed" => Opened(l)' <= GridPassed(c)
    BY <1>3, <1>4, <2>3
  <2> QED
    BY <1>5, <2>1, <2>3, <2>6, <2>7, <2>8, <2>9, LaneStepKeeps DEF c
<1>12. CASE TakeAck(l)
  <2> DEFINE v == AfterSlot(vec[l])
  <2>1. /\ vec' = [vec EXCEPT ![l] = v] /\ vec[l].pc = "ack"
        /\ told[AckFlag][l] > 0
        /\ told' = [told EXCEPT ![AckFlag][l] = @ - 1]
        /\ raised' = raised /\ UNCHANGED <<shape, cube, at, go>>
    BY <1>12 DEF TakeAck
  <2>2. vec'[l] = v /\ HasAck
    BY <1>2, <2>1
  <2>3. /\ v \in [slot : 0 .. Slots - 1, pc : LanePcs]
        /\ v.pc = "ended" => v.slot = Slots - 1
        /\ Published(l)' = Published(l) /\ Opened(l)' = Opened(l)
        /\ Acked(l)' = Acked(l) + 1
    BY <1>1, <1>2, <2>1, <2>2, SlotEnds DEF Published, Opened, Acked, One
  <2> HIDE DEF v
  <2>4. Acked(l)' <= Taken(c)
    <3>1. GateUses(AckFlag, GridPassed(c)) = 0 /\ GateUses(AckFlag, Opened(l)) = 0
      BY DEF GateUses, AckFlag, GateFlag
    <3>2. AckUses(AckFlag, Taken(c)) = Taken(c) /\ AckUses(AckFlag, Acked(l)) = Acked(l)
      BY <2>2 DEF AckUses
    <3> QED
      BY <1>3, <1>4, <1>6, <2>1, <2>3, <3>1, <3>2
  <2>5. told' \in [Flags -> [Lanes -> Int]]
    BY <1>5, <1>6, <2>1
  <2>6. ASSUME NEW f \in Flags
        PROVE  /\ raised'[f][l] - raised[f][l]
                    = VectorUses(f, Published(l)') - VectorUses(f, Published(l))
               /\ told'[f][l] - told[f][l]
                    = AckUses(f, Acked(l)) - AckUses(f, Acked(l)')
                        + GateUses(f, Opened(l)) - GateUses(f, Opened(l)')
    <3>1. raised'[f][l] - raised[f][l] = 0 /\ told[f][l] \in Int
      BY <1>5, <2>1
    <3>2. VectorUses(f, Published(l)) \in Int /\ GateUses(f, Opened(l)) \in Int
      BY <1>3, <1>7
    <3>3. AckUses(f, Acked(l)) - AckUses(f, Acked(l)')
             = IF f = AckFlag THEN -1 ELSE 0
      BY <1>3, <2>2, <2>3 DEF AckUses
    <3>4. told'[f][l] - told[f][l] = IF f = AckFlag THEN -1 ELSE 0
      BY <1>5, <2>1, <3>1
    <3> QED
      BY <2>3, <3>1, <3>2, <3>3, <3>4
  <2>7. \A f \in Flags : \A x \in Lanes \ {l} :
           raised'[f][x] = raised[f][x] /\ told'[f][x] = told[f][x]
    BY <1>5, <2>1
  <2>8. /\ Taken(c) <= Published(l)'
        /\ shape.kind = "delayed" => Opened(l)' <= GridPassed(c)
    BY <1>4, <2>3
  <2> QED
    BY <1>5, <2>1, <2>3, <2>4, <2>5, <2>6, <2>7, <2>8, LaneStepKeeps DEF c
<1> QED
  BY <1>8, <1>9, <1>10, <1>11, <1>12 DEF LaneStep
-----------------------------------------------------------------------------
(* A step of a cube leaves the lanes where they are, and the other cubes.    *)
LEMMA CubeStepKeeps ==
    ASSUME BackendInv, NEW c \in Cubes, UNCHANGED <<shape, vec>>,
           NEW v \in [slot : 0 .. Slots - 1, pc : CubePcs, chunk : Int],
           v.pc = "ended" => v.slot = Slots - 1,
           cube' = [cube EXCEPT ![c] = v],
           raised' \in [Flags -> [Lanes -> Int]],
           told' \in [Flags -> [Lanes -> Int]],
           at' \in [Flags -> [Cubes -> Int]], go' \in [Flags -> [Cubes -> Int]],
           \A x \in Lanes : CoreOf(x) # c => \A f \in Flags :
              raised'[f][x] = raised[f][x] /\ told'[f][x] = told[f][x],
           \A x \in Lanes : CoreOf(x) = c =>
              /\ Taken(c)' <= Published(x)
              /\ HasAck => Acked(x) <= Taken(c)'
              /\ shape.kind = "delayed" => Opened(x) <= GridPassed(c)'
              /\ \A f \in Flags :
                   /\ raised'[f][x] - raised[f][x]
                        = VectorUses(f, Taken(c)) - VectorUses(f, Taken(c)')
                   /\ told'[f][x] - told[f][x]
                        = AckUses(f, Taken(c)') - AckUses(f, Taken(c))
                            + GateUses(f, GridPassed(c)')
                            - GateUses(f, GridPassed(c)),
           NEW met \in 0 .. Slots, NEW open \in 0 .. Slots, MeetInv(met, open)'
    PROVE  BackendInv'
<1>1. /\ Lanes' = Lanes /\ Cubes' = Cubes /\ Slots' = Slots
      /\ LanePcs' = LanePcs /\ CubePcs' = CubePcs /\ HasAck' = HasAck
      /\ \A x : CoreOf(x)' = CoreOf(x)
      /\ \A f, m : /\ VectorUses(f, m)' = VectorUses(f, m)
                   /\ AckUses(f, m)' = AckUses(f, m)
                   /\ GateUses(f, m)' = GateUses(f, m)
      /\ \A x : /\ Published(x)' = Published(x) /\ Acked(x)' = Acked(x)
                /\ Opened(x)' = Opened(x)
  BY DEF Lanes, Cubes, Slots, Chunks, Tasks, Ceiling, LanePcs, CubePcs, HasAck,
         CoreOf, VectorUses, AckUses, GateUses, Published, Acked, Opened
<1>2. CountersOK /\ LanesInv
  BY DEF BackendInv
<1>3. CountersOK'
  BY <1>1, <1>2 DEF CountersOK
<1>4. LanesInv'
  <2> SUFFICES ASSUME NEW x \in Lanes, NEW d \in Cubes, d = CoreOf(x)
               PROVE  /\ Taken(d)' <= Published(x)
                      /\ HasAck => Acked(x) <= Taken(d)'
                      /\ shape.kind = "delayed" => Opened(x) <= GridPassed(d)'
                      /\ \A f \in Flags :
                           /\ raised'[f][x] = VectorUses(f, Published(x))
                                                - VectorUses(f, Taken(d)')
                           /\ told'[f][x] = AckUses(f, Taken(d)')
                                              - AckUses(f, Acked(x))
                                              + GateUses(f, GridPassed(d)')
                                              - GateUses(f, Opened(x))
    <3>1. \A x \in Lanes : CoreOf(x) \in Cubes
      BY <1>2, Progress
    <3> QED
      BY <1>1, <3>1 DEF LanesInv
  <2>1. /\ Taken(d) <= Published(x)
        /\ HasAck => Acked(x) <= Taken(d)
        /\ shape.kind = "delayed" => Opened(x) <= GridPassed(d)
        /\ \A f \in Flags :
             /\ raised[f][x] = VectorUses(f, Published(x)) - VectorUses(f, Taken(d))
             /\ told[f][x] = AckUses(f, Taken(d)) - AckUses(f, Acked(x))
                               + GateUses(f, GridPassed(d)) - GateUses(f, Opened(x))
    BY <1>2 DEF LanesInv
  <2>2. CASE d # c
    <3>1. Taken(d)' = Taken(d) /\ GridPassed(d)' = GridPassed(d)
      BY <1>2, <2>2 DEF Taken, GridPassed, CountersOK
    <3>2. \A f \in Flags : raised'[f][x] = raised[f][x] /\ told'[f][x] = told[f][x]
      BY <2>2
    <3> QED
      BY <2>1, <3>1, <3>2
  <2>3. CASE d = c
    <3>1. /\ Taken(c) \in Nat /\ GridPassed(c) \in Nat
          /\ Published(x) \in Nat /\ Acked(x) \in Nat /\ Opened(x) \in Nat
      BY <1>2, Progress
    <3>2. cube'[c] = v /\ Slots \in Nat /\ v.slot \in Nat
      BY <1>2, Progress DEF CountersOK
    <3>3. Taken(c)' \in Nat /\ GridPassed(c)' \in Nat
      BY <3>2 DEF Taken, GridPassed, One
    <3>4. ASSUME NEW f \in Flags
          PROVE  /\ raised'[f][x] = VectorUses(f, Published(x))
                                      - VectorUses(f, Taken(c)')
                 /\ told'[f][x] = AckUses(f, Taken(c)') - AckUses(f, Acked(x))
                                    + GateUses(f, GridPassed(c)')
                                    - GateUses(f, Opened(x))
      <4>1. /\ VectorUses(f, Published(x)) \in Int /\ VectorUses(f, Taken(c)) \in Int
            /\ AckUses(f, Acked(x)) \in Int /\ AckUses(f, Taken(c)) \in Int
            /\ GateUses(f, Opened(x)) \in Int /\ GateUses(f, GridPassed(c)) \in Int
        BY <3>1, UsesGrow
      <4>2. /\ VectorUses(f, Taken(c)') \in Int /\ AckUses(f, Taken(c)') \in Int
            /\ GateUses(f, GridPassed(c)') \in Int
        BY <3>3, UsesGrow
      <4>3. /\ raised'[f][x] \in Int /\ told'[f][x] \in Int
            /\ raised[f][x] \in Int /\ told[f][x] \in Int
        BY <1>2 DEF CountersOK
      <4>4. raised'[f][x] = VectorUses(f, Published(x)) - VectorUses(f, Taken(c)')
        <5> DEFINE r == raised[f][x]           r2 == raised'[f][x]
                   p == VectorUses(f, Published(x))
                   t == VectorUses(f, Taken(c))  t2 == VectorUses(f, Taken(c)')
        <5>1. r2 - r = t - t2 /\ r = p - t
          BY <2>1, <2>3
        <5>2. r \in Int /\ r2 \in Int /\ p \in Int /\ t \in Int /\ t2 \in Int
          BY <4>1, <4>2, <4>3
        <5> HIDE DEF r, r2, p, t, t2
        <5>3. r2 = p - t2
          BY <5>1, <5>2
        <5> QED
          BY <5>3 DEF r2, p, t2
      <4>5. told'[f][x] = AckUses(f, Taken(c)') - AckUses(f, Acked(x))
                            + GateUses(f, GridPassed(c)') - GateUses(f, Opened(x))
        <5> DEFINE r == told[f][x]               r2 == told'[f][x]
                   t == AckUses(f, Taken(c))     t2 == AckUses(f, Taken(c)')
                   o == GateUses(f, GridPassed(c)) o2 == GateUses(f, GridPassed(c)')
                   a == AckUses(f, Acked(x))     g == GateUses(f, Opened(x))
        <5>1. r2 - r = t2 - t + o2 - o /\ r = t - a + o - g
          BY <2>1, <2>3
        <5>2. /\ r \in Int /\ r2 \in Int /\ t \in Int /\ t2 \in Int
              /\ o \in Int /\ o2 \in Int /\ a \in Int /\ g \in Int
          BY <4>1, <4>2, <4>3
        <5>3. r2 = t2 - a + o2 - g
          <6> DEFINE n == t + o  n2 == t2 + o2  b == a + g
          <6>1. n \in Int /\ n2 \in Int /\ b \in Int
            BY <5>2
          <6>2. t2 - t + o2 - o = n2 - n /\ t - a + o - g = n - b /\ t2 - a + o2 - g = n2 - b
            <7> HIDE DEF t, t2, o, o2, a, g
            <7> QED
              BY <5>2
          <6>3. r2 - r = n2 - n /\ r = n - b
            <7> HIDE DEF r, r2, t, t2, o, o2, a, g, n, n2, b
            <7> QED
              BY <5>1, <6>2
          <6> HIDE DEF r, r2, t, t2, o, o2, a, g, n, n2, b
          <6>4. r2 = n2 - b
            BY <5>2, <6>1, <6>3
          <6> QED
            BY <6>2, <6>4
        <5> QED
          BY <5>3 DEF r2, t2, o2, a, g
      <4> QED
        BY <4>4, <4>5
    <3> QED
      BY <2>3, <3>4
  <2> QED
    BY <2>2, <2>3
<1> QED
  BY <1>1, <1>3, <1>4 DEF BackendInv

(* How often flag f has been taken through by all, of both kinds of meeting. *)
Meetings(f, met, open) == CubeUses(f, met) + GridUses(f, open)

(* A step of cube c that brings the meetings from met and open to met2 and   *)
(* open2, in the counters of the cubes.                                      *)
CubeMoves(c, met, open, met2, open2) ==
  /\ UNCHANGED shape
  /\ cube'[c].slot \in Nat /\ \A d \in Cubes \ {c} : cube'[d] = cube[d]
  /\ met <= met2 /\ open <= open2
  /\ \A d \in Cubes \ {c} :
       /\ met2 <= Taken(d)
       /\ shape.kind = "delayed" => open2 <= GridArrived(d)
  /\ Passed(c)' <= met2 /\ met2 <= Taken(c)'
  /\ shape.kind = "delayed" => GridPassed(c)' <= open2 /\ open2 <= GridArrived(c)'
  /\ at' \in [Flags -> [Cubes -> Int]] /\ go' \in [Flags -> [Cubes -> Int]]
  /\ \A f \in Flags :
       LET more == Meetings(f, met2, open2) - Meetings(f, met, open) IN
       /\ \A d \in Cubes \ {c} : at[f][d] - at'[f][d] = more /\ go'[f][d] - go[f][d] = more
       /\ at'[f][c] - at[f][c] = Meetings(f, Taken(c)', GridArrived(c)')
                                   - Meetings(f, Taken(c), GridArrived(c)) - more
       /\ go'[f][c] - go[f][c] = more - (Meetings(f, Passed(c)', GridPassed(c)')
                                           - Meetings(f, Passed(c), GridPassed(c)))

(* Such a step keeps what is known of the meetings.                          *)
LEMMA MeetStep ==
    ASSUME CountersOK, NEW c \in Cubes,
           NEW met \in 0 .. Slots, NEW open \in 0 .. Slots, MeetInv(met, open),
           NEW met2 \in 0 .. Slots, NEW open2 \in 0 .. Slots,
           CubeMoves(c, met, open, met2, open2)
    PROVE  MeetInv(met2, open2)'
<1>1. /\ Cubes' = Cubes /\ shape' = shape
      /\ \A f, m : /\ CubeUses(f, m)' = CubeUses(f, m)
                   /\ GridUses(f, m)' = GridUses(f, m)
  BY DEF CubeMoves, Cubes, CubeUses, GridUses
<1>2. SUFFICES ASSUME NEW d \in Cubes, NEW f \in Flags
      PROVE  /\ Passed(d)' <= met2 /\ met2 <= Taken(d)'
             /\ shape.kind = "delayed" =>
                   GridPassed(d)' <= open2 /\ open2 <= GridArrived(d)'
             /\ at'[f][d] = CubeUses(f, Taken(d)') - CubeUses(f, met2)
                              + GridUses(f, GridArrived(d)') - GridUses(f, open2)
             /\ go'[f][d] = CubeUses(f, met2) - CubeUses(f, Passed(d)')
                              + GridUses(f, open2) - GridUses(f, GridPassed(d)')
  <2>1. GridFlag \in Flags
    BY DEF GridFlag, Flags
  <2> QED
    BY <1>1, <1>2, <2>1 DEF MeetInv
<1>3. /\ Passed(d) <= met /\ met <= Taken(d)
      /\ shape.kind = "delayed" => GridPassed(d) <= open /\ open <= GridArrived(d)
      /\ at[f][d] = CubeUses(f, Taken(d)) - CubeUses(f, met)
                      + GridUses(f, GridArrived(d)) - GridUses(f, open)
      /\ go[f][d] = CubeUses(f, met) - CubeUses(f, Passed(d))
                      + GridUses(f, open) - GridUses(f, GridPassed(d))
  BY DEF MeetInv
<1>4. /\ Taken(d) \in Nat /\ Passed(d) \in Nat
      /\ GridArrived(d) \in Nat /\ GridPassed(d) \in Nat
      /\ met \in Nat /\ met2 \in Nat /\ open \in Nat /\ open2 \in Nat
      /\ Slots \in Nat
  BY Progress
<1>5. /\ at[f][d] \in Int /\ go[f][d] \in Int
      /\ at'[f][d] \in Int /\ go'[f][d] \in Int
  BY DEF CountersOK, CubeMoves
<1>6. ASSUME NEW m \in Nat PROVE CubeUses(f, m) \in Int /\ GridUses(f, m) \in Int
  BY UsesAreNumbers
<1> DEFINE a == at[f][d]    a2 == at'[f][d]    g == go[f][d]    g2 == go'[f][d]
           m == CubeUses(f, met)         m2 == CubeUses(f, met2)
           o == GridUses(f, open)        o2 == GridUses(f, open2)
           t == CubeUses(f, Taken(d))    t2 == CubeUses(f, Taken(d)')
           p == CubeUses(f, Passed(d))   p2 == CubeUses(f, Passed(d)')
           r == GridUses(f, GridArrived(d))  r2 == GridUses(f, GridArrived(d)')
           q == GridUses(f, GridPassed(d))   q2 == GridUses(f, GridPassed(d)')
<1>7. /\ a \in Int /\ a2 \in Int /\ g \in Int /\ g2 \in Int
      /\ m \in Int /\ m2 \in Int /\ o \in Int /\ o2 \in Int
      /\ t \in Int /\ p \in Int /\ r \in Int /\ q \in Int
      /\ a = t - m + r - o /\ g = m - p + o - q
  BY <1>3, <1>4, <1>5, <1>6
<1>8. /\ Meetings(f, met2, open2) = m2 + o2 /\ Meetings(f, met, open) = m + o
      /\ Meetings(f, Taken(d), GridArrived(d)) = t + r
      /\ Meetings(f, Passed(d), GridPassed(d)) = p + q
      /\ Meetings(f, Taken(d)', GridArrived(d)') = t2 + r2
      /\ Meetings(f, Passed(d)', GridPassed(d)') = p2 + q2
  BY DEF Meetings
<1>9. CASE d # c
  <2>1. /\ Passed(d)' = Passed(d) /\ Taken(d)' = Taken(d)
        /\ GridArrived(d)' = GridArrived(d) /\ GridPassed(d)' = GridPassed(d)
    BY <1>9 DEF CubeMoves, Passed, Taken, GridArrived, GridPassed
  <2>2. a - a2 = m2 + o2 - (m + o) /\ g2 - g = m2 + o2 - (m + o)
    <3>1. /\ a - a2 = Meetings(f, met2, open2) - Meetings(f, met, open)
          /\ g2 - g = Meetings(f, met2, open2) - Meetings(f, met, open)
      BY <1>9 DEF CubeMoves
    <3> HIDE DEF a, a2, g, g2, m, m2, o, o2, t, t2, p, p2, r, r2, q, q2
    <3> QED
      BY <1>7, <1>8, <3>1
  <2>3. t2 = t /\ p2 = p /\ r2 = r /\ q2 = q
    BY <2>1
  <2>4. /\ Passed(d)' <= met2 /\ met2 <= Taken(d)'
        /\ shape.kind = "delayed" =>
              GridPassed(d)' <= open2 /\ open2 <= GridArrived(d)'
    <3>1. /\ met <= met2 /\ open <= open2 /\ met2 <= Taken(d)
          /\ shape.kind = "delayed" => open2 <= GridArrived(d)
      BY <1>9 DEF CubeMoves
    <3>2. Passed(d) <= met2 /\ met2 <= Taken(d)
      BY <1>3, <1>4, <3>1
    <3>3. shape.kind = "delayed" => GridPassed(d) <= open2 /\ open2 <= GridArrived(d)
      BY <1>3, <1>4, <3>1
    <3> QED
      BY <2>1, <3>2, <3>3
  <2>5. a2 = t2 - m2 + r2 - o2 /\ g2 = m2 - p2 + o2 - q2
    <3> HIDE DEF a, a2, g, g2, m, m2, o, o2, t, t2, p, p2, r, r2, q, q2
    <3> QED
      BY <1>7, <2>2, <2>3
  <2> QED
    BY <2>4, <2>5
<1>10. CASE d = c
  <2>2. /\ Passed(d)' \in Nat /\ Taken(d)' \in Nat
        /\ GridArrived(d)' \in Nat /\ GridPassed(d)' \in Nat
    BY <1>10 DEF CubeMoves, Passed, Taken, GridArrived, GridPassed, One
  <2>3. t2 \in Int /\ p2 \in Int /\ r2 \in Int /\ q2 \in Int
    BY <1>6, <2>2
  <2>4. /\ a2 - a = t2 + r2 - (t + r) - (m2 + o2 - (m + o))
        /\ g2 - g = m2 + o2 - (m + o) - (p2 + q2 - (p + q))
    <3>1. /\ a2 - a = Meetings(f, Taken(d)', GridArrived(d)')
                         - Meetings(f, Taken(d), GridArrived(d))
                         - (Meetings(f, met2, open2) - Meetings(f, met, open))
          /\ g2 - g = Meetings(f, met2, open2) - Meetings(f, met, open)
                         - (Meetings(f, Passed(d)', GridPassed(d)')
                              - Meetings(f, Passed(d), GridPassed(d)))
      BY <1>10 DEF CubeMoves
    <3> HIDE DEF a, a2, g, g2, m, m2, o, o2, t, t2, p, p2, r, r2, q, q2
    <3> QED
      BY <1>7, <1>8, <2>3, <3>1
  <2>5. a2 = t2 - m2 + r2 - o2 /\ g2 = m2 - p2 + o2 - q2
    <3> HIDE DEF a, a2, g, g2, m, m2, o, o2, t, t2, p, p2, r, r2, q, q2
    <3> QED
      BY <1>7, <2>3, <2>4
  <2> QED
    BY <1>10, <2>5 DEF CubeMoves
<1> QED
  BY <1>9, <1>10

(* What is known of a cube and its counters.                                 *)
LEMMA CubeFacts ==
    ASSUME BackendInv, NEW c \in Cubes
    PROVE  /\ CountersOK /\ LanesInv
           /\ raised \in [Flags -> [Lanes -> Int]] /\ told \in [Flags -> [Lanes -> Int]]
           /\ at \in [Flags -> [Cubes -> Int]] /\ go \in [Flags -> [Cubes -> Int]]
           /\ cube \in [Cubes -> [slot : 0 .. Slots - 1, pc : CubePcs, chunk : Int]]
           /\ cube[c] \in [slot : 0 .. Slots - 1, pc : CubePcs, chunk : Int]
           /\ cube[c].slot \in Nat /\ Slots \in Nat
           /\ {"take", "meet", "project", "ended"} \subseteq CubePcs
           /\ shape.kind = "delayed" => {"gates", "meetGates"} \subseteq CubePcs
           /\ cube[c].pc \in {"gates", "meetGates"} => shape.kind = "delayed"
           /\ Taken(c) \in Nat /\ Passed(c) \in Nat
           /\ GridArrived(c) \in Nat /\ GridPassed(c) \in Nat
<1>1. CountersOK /\ LanesInv
  BY DEF BackendInv
<1>2. /\ cube[c] \in [slot : 0 .. Slots - 1, pc : CubePcs, chunk : Int]
      /\ cube[c].pc \in CubePcs /\ cube[c].slot \in Nat
  BY <1>1, Progress DEF CountersOK
<1>3. /\ {"take", "meet", "project", "ended"} \subseteq CubePcs
      /\ shape.kind = "delayed" => {"gates", "meetGates"} \subseteq CubePcs
      /\ cube[c].pc \in {"gates", "meetGates"} => shape.kind = "delayed"
  BY <1>2 DEF CubePcs
<1> QED
  BY <1>1, <1>2, <1>3, Progress DEF CountersOK

(* What is known of the meetings.                                            *)
LEMMA MeetFacts ==
    ASSUME CountersOK, NEW met \in 0 .. Slots, NEW open \in 0 .. Slots,
           MeetInv(met, open)
    PROVE  /\ met \in Nat /\ open \in Nat
           /\ \A d \in Cubes :
                /\ Passed(d) <= met /\ met <= Taken(d)
                /\ shape.kind = "delayed" =>
                     GridPassed(d) <= open /\ open <= GridArrived(d)
           /\ \A f \in Flags : Meetings(f, met, open) \in Int
<1>1. met \in Nat /\ open \in Nat
  BY Progress
<1>2. GridFlag \in Flags
  BY DEF GridFlag, Flags
<1>3. \A d \in Cubes :
        /\ Passed(d) <= met /\ met <= Taken(d)
        /\ shape.kind = "delayed" => GridPassed(d) <= open /\ open <= GridArrived(d)
  BY <1>2 DEF MeetInv
<1>4. ASSUME NEW f \in Flags PROVE Meetings(f, met, open) \in Int
  BY <1>1, UsesAreNumbers DEF Meetings
<1> QED
  BY <1>1, <1>3, <1>4

(* A step of a cube that its lanes do not see.                               *)
LEMMA LanesUnseen ==
    ASSUME BackendInv, NEW c \in Cubes,
           UNCHANGED <<shape, vec, raised, told>>,
           NEW v \in [slot : 0 .. Slots - 1, pc : CubePcs, chunk : Int],
           v.pc = "ended" => v.slot = Slots - 1,
           cube' = [cube EXCEPT ![c] = v],
           at' \in [Flags -> [Cubes -> Int]], go' \in [Flags -> [Cubes -> Int]],
           Taken(c)' = Taken(c),
           shape.kind = "delayed" => GridPassed(c)' = GridPassed(c),
           NEW met \in 0 .. Slots, NEW open \in 0 .. Slots, MeetInv(met, open)'
    PROVE  BackendInv'
<1>1. \A x \in Lanes : CoreOf(x) = c =>
         /\ Taken(c)' <= Published(x)
         /\ HasAck => Acked(x) <= Taken(c)'
         /\ shape.kind = "delayed" => Opened(x) <= GridPassed(c)'
  BY DEF LanesInv, BackendInv
<1>2. ASSUME NEW x \in Lanes, CoreOf(x) = c, NEW f \in Flags
      PROVE  /\ raised'[f][x] - raised[f][x]
                  = VectorUses(f, Taken(c)) - VectorUses(f, Taken(c)')
             /\ told'[f][x] - told[f][x]
                  = AckUses(f, Taken(c)') - AckUses(f, Taken(c))
                      + GateUses(f, GridPassed(c)') - GateUses(f, GridPassed(c))
  <2>1. /\ VectorUses(f, Taken(c)) \in Int /\ AckUses(f, Taken(c)) \in Int
        /\ GateUses(f, GridPassed(c)) \in Int
    BY CubeFacts, UsesGrow
  <2>2. GateUses(f, GridPassed(c)') = GateUses(f, GridPassed(c))
    BY DEF GateUses
  <2>3. raised[f][x] \in Int /\ told[f][x] \in Int
    BY CubeFacts
  <2> QED
    BY <2>1, <2>2, <2>3
<1> QED
  BY <1>1, <1>2, CubeFacts, CubeStepKeeps

(* A step of a cube that neither arrives, nor takes, nor tells.              *)
LEMMA QuietStep ==
    ASSUME BackendInv, NEW c \in Cubes,
           UNCHANGED <<shape, vec, raised, told, at, go>>,
           NEW v \in [slot : 0 .. Slots - 1, pc : CubePcs, chunk : Int],
           v.pc = "ended" => v.slot = Slots - 1,
           cube' = [cube EXCEPT ![c] = v],
           Taken(c)' = Taken(c), Passed(c)' = Passed(c),
           shape.kind = "delayed" => /\ GridArrived(c)' = GridArrived(c)
                                     /\ GridPassed(c)' = GridPassed(c)
    PROVE  BackendInv'
<1>1. PICK met \in 0 .. Slots, open \in 0 .. Slots : MeetInv(met, open)
  BY DEF BackendInv
<1>2. CubeMoves(c, met, open, met, open)
  <2>1. ASSUME NEW f \in Flags
        PROVE  /\ Meetings(f, Taken(c)', GridArrived(c)')
                    = Meetings(f, Taken(c), GridArrived(c))
               /\ Meetings(f, Passed(c)', GridPassed(c)')
                    = Meetings(f, Passed(c), GridPassed(c))
    BY DEF Meetings, GridUses
  <2>2. ASSUME NEW f \in Flags
        PROVE  /\ Meetings(f, met, open) \in Int
               /\ Meetings(f, Taken(c), GridArrived(c)) \in Int
               /\ Meetings(f, Passed(c), GridPassed(c)) \in Int
    <3>1. Meetings(f, met, open) \in Int
      BY <1>1, CubeFacts, MeetFacts
    <3> QED
      BY <3>1, CubeFacts, UsesAreNumbers DEF Meetings
  <2>3. ASSUME NEW f \in Flags
        PROVE  LET more == Meetings(f, met, open) - Meetings(f, met, open) IN
               /\ \A d \in Cubes \ {c} :
                    at[f][d] - at'[f][d] = more /\ go'[f][d] - go[f][d] = more
               /\ at'[f][c] - at[f][c]
                    = Meetings(f, Taken(c)', GridArrived(c)')
                        - Meetings(f, Taken(c), GridArrived(c)) - more
               /\ go'[f][c] - go[f][c]
                    = more - (Meetings(f, Passed(c)', GridPassed(c)')
                               - Meetings(f, Passed(c), GridPassed(c)))
    BY CubeFacts, <2>1, <2>2
  <2>4. cube'[c].slot \in Nat /\ \A d \in Cubes \ {c} : cube'[d] = cube[d]
    BY CubeFacts
  <2>5. /\ met <= met /\ open <= open
        /\ \A d \in Cubes :
             /\ Passed(d) <= met /\ met <= Taken(d)
             /\ shape.kind = "delayed" =>
                  GridPassed(d) <= open /\ open <= GridArrived(d)
    BY <1>1, CubeFacts, MeetFacts
  <2>6. at' \in [Flags -> [Cubes -> Int]] /\ go' \in [Flags -> [Cubes -> Int]]
    BY CubeFacts
  <2> QED
    BY <2>3, <2>4, <2>5, <2>6 DEF CubeMoves
<1>3. MeetInv(met, open)'
  BY <1>1, <1>2, CubeFacts, MeetStep
<1>4. at' \in [Flags -> [Cubes -> Int]] /\ go' \in [Flags -> [Cubes -> Int]]
  BY CubeFacts
<1> QED
  BY <1>3, <1>4, LanesUnseen

(* A cube multiplies a chunk, or has none left in the slot.                  *)
LEMMA ProjectKeeps ==
    ASSUME BackendInv, NEW c \in Cubes, Project(c)
    PROVE  BackendInv'
<1> DEFINE v == [cube[c] EXCEPT !.chunk = @ + 1]
<1>1. /\ cube' = [cube EXCEPT ![c] = v] /\ cube[c].pc = "project"
      /\ UNCHANGED <<shape, vec, raised, told, at, go>>
  BY DEF Project
<1>2. cube[c] \in [slot : 0 .. Slots - 1, pc : CubePcs, chunk : Int]
      /\ cube[c].chunk \in Int
  BY CubeFacts
<1>3. /\ v \in [slot : 0 .. Slots - 1, pc : CubePcs, chunk : Int]
      /\ v.pc = "project" /\ v.slot = cube[c].slot
  BY <1>1, <1>2
<1>4. cube'[c] = v
  BY <1>1, CubeFacts
<1> HIDE DEF v
<1>5. /\ Taken(c)' = Taken(c) /\ Passed(c)' = Passed(c)
      /\ GridArrived(c)' = GridArrived(c) /\ GridPassed(c)' = GridPassed(c)
  BY <1>1, <1>3, <1>4 DEF Taken, Passed, GridArrived, GridPassed
<1> QED
  BY <1>1, <1>3, <1>5, QuietStep

(* ... and goes on to the next slot, or is through.                          *)
LEMMA EndSlotKeeps ==
    ASSUME BackendInv, NEW c \in Cubes, EndSlot(c)
    PROVE  BackendInv'
<1>1. cube[c].pc = "project" /\ UNCHANGED <<shape, vec, raised, told, at, go>>
  BY DEF EndSlot
<1>2. /\ cube[c] \in [slot : 0 .. Slots - 1, pc : CubePcs, chunk : Int]
      /\ cube[c].slot \in 0 .. Slots - 1 /\ Slots \in Nat
      /\ FirstPc \in CubePcs /\ "ended" \in CubePcs
      /\ FirstPc \in {"gates", "take"} /\ (shape.kind = "delayed" => FirstPc = "gates")
  BY CubeFacts DEF FirstPc
<1>3. CASE cube[c].slot + 1 < Slots
  <2> DEFINE v == [cube[c] EXCEPT !.slot = cube[c].slot + 1, !.pc = FirstPc]
  <2>1. cube' = [cube EXCEPT ![c] = v]
    BY <1>3, CubeFacts DEF EndSlot
  <2>2. /\ v \in [slot : 0 .. Slots - 1, pc : CubePcs, chunk : Int]
        /\ v.pc = FirstPc /\ v.slot = cube[c].slot + 1
    <3>1. cube[c].slot + 1 \in 0 .. Slots - 1
      BY <1>2, <1>3
    <3> QED
      BY <1>2, <3>1
  <2>3. cube'[c] = v
    BY <2>1, CubeFacts
  <2> HIDE DEF v
  <2>4. /\ Taken(c)' = Taken(c) /\ Passed(c)' = Passed(c)
        /\ shape.kind = "delayed" => /\ GridArrived(c)' = GridArrived(c)
                                     /\ GridPassed(c)' = GridPassed(c)
    BY <1>1, <1>2, <2>2, <2>3 DEF Taken, Passed, GridArrived, GridPassed, One
  <2>5. v.pc = "ended" => v.slot = Slots - 1
    BY <1>2, <2>2
  <2> QED
    BY <1>1, <2>1, <2>2, <2>4, <2>5, QuietStep
<1>4. CASE ~(cube[c].slot + 1 < Slots)
  <2> DEFINE v == [cube[c] EXCEPT !.pc = "ended"]
  <2>1. cube' = [cube EXCEPT ![c] = v]
    BY <1>4, CubeFacts DEF EndSlot
  <2>2. /\ v \in [slot : 0 .. Slots - 1, pc : CubePcs, chunk : Int]
        /\ v.pc = "ended" /\ v.slot = cube[c].slot /\ v.slot = Slots - 1
    BY <1>2, <1>4
  <2>3. cube'[c] = v
    BY <2>1, CubeFacts
  <2> HIDE DEF v
  <2>4. /\ Taken(c)' = Taken(c) /\ Passed(c)' = Passed(c)
        /\ GridArrived(c)' = GridArrived(c) /\ GridPassed(c)' = GridPassed(c)
    BY <1>1, <2>2, <2>3 DEF Taken, Passed, GridArrived, GridPassed, One
  <2> QED
    BY <1>1, <2>1, <2>2, <2>4, QuietStep
<1> QED
  BY <1>3, <1>4

(* A cube goes on from a meeting: one notice fewer, and one meeting behind.  *)
LEMMA PassKeeps ==
    ASSUME BackendInv, NEW c \in Cubes, PassMeeting(c)
    PROVE  BackendInv'
<1> DEFINE w == CubeFlag(cube[c].slot)
           v == [cube[c] EXCEPT !.pc = "project", !.chunk = ReadyBefore(cube[c].slot)]
<1>1. /\ cube' = [cube EXCEPT ![c] = v] /\ cube[c].pc = "meet"
      /\ go[w][c] > 0 /\ go' = [go EXCEPT ![w][c] = @ - 1]
      /\ UNCHANGED <<shape, vec, raised, told, at>>
  BY CubeFacts DEF PassMeeting
<1>2. /\ cube[c] \in [slot : 0 .. Slots - 1, pc : CubePcs, chunk : Int]
      /\ cube[c].slot \in Nat /\ "project" \in CubePcs
      /\ ReadyBefore(cube[c].slot) \in Int
  BY CubeFacts, Progress, ChunkNumber
<1>3. /\ v \in [slot : 0 .. Slots - 1, pc : CubePcs, chunk : Int]
      /\ v.pc = "project" /\ v.slot = cube[c].slot
  BY <1>2
<1>4. cube'[c] = v
  BY <1>1, CubeFacts
<1>5. /\ w \in Flags /\ w # GridFlag
      /\ \A f \in Flags : CubeUses(f, cube[c].slot + 1)
                            = CubeUses(f, cube[c].slot) + One(f = w)
  <2>1. shape \in Shapes /\ cube[c].slot \in 0 .. Slots - 1
    BY CubeFacts, Progress
  <2>2. GridFlag \in Flags
    BY DEF GridFlag, Flags
  <2>3. w # GridFlag
    BY <1>2 DEF CubeFlag, GridFlag
  <2> QED
    BY <2>1, <2>2, <2>3, UsesStep
<1> HIDE DEF v, w
<1>6. /\ Taken(c)' = Taken(c) /\ Passed(c) = cube[c].slot
      /\ Passed(c)' = cube[c].slot + 1 /\ Taken(c) = cube[c].slot + 1
      /\ GridArrived(c)' = GridArrived(c) /\ GridPassed(c)' = GridPassed(c)
  BY <1>1, <1>2, <1>3, <1>4 DEF Taken, Passed, GridArrived, GridPassed, One
<1>7. PICK met \in 0 .. Slots, open \in 0 .. Slots : MeetInv(met, open)
  BY DEF BackendInv
<1>8. /\ met \in Nat /\ open \in Nat
      /\ \A d \in Cubes :
           /\ Passed(d) <= met /\ met <= Taken(d)
           /\ shape.kind = "delayed" => GridPassed(d) <= open /\ open <= GridArrived(d)
      /\ \A f \in Flags : Meetings(f, met, open) \in Int
  BY <1>7, CubeFacts, MeetFacts
<1>9. Passed(c)' <= met
  <2>1. go[w][c] = CubeUses(w, met) - CubeUses(w, Passed(c))
                     + GridUses(w, open) - GridUses(w, GridPassed(c))
    BY <1>5, <1>7 DEF MeetInv
  <2>2. GridUses(w, open) = 0 /\ GridUses(w, GridPassed(c)) = 0
    BY <1>5 DEF GridUses
  <2>3. CubeUses(w, met) \in Int /\ CubeUses(w, Passed(c)) \in Int
    BY <1>5, <1>8, CubeFacts, UsesAreNumbers
  <2>4. met # Passed(c)
    BY <1>1, <2>1, <2>2, <2>3
  <2> QED
    BY <1>2, <1>6, <1>8, <2>4
<1>10. CubeMoves(c, met, open, met, open)
  <2>1. at' \in [Flags -> [Cubes -> Int]] /\ go' \in [Flags -> [Cubes -> Int]]
    BY <1>1, <1>5, CubeFacts
  <2>2. ASSUME NEW f \in Flags
        PROVE  LET more == Meetings(f, met, open) - Meetings(f, met, open) IN
               /\ \A d \in Cubes \ {c} :
                    at[f][d] - at'[f][d] = more /\ go'[f][d] - go[f][d] = more
               /\ at'[f][c] - at[f][c]
                    = Meetings(f, Taken(c)', GridArrived(c)')
                        - Meetings(f, Taken(c), GridArrived(c)) - more
               /\ go'[f][c] - go[f][c]
                    = more - (Meetings(f, Passed(c)', GridPassed(c)')
                               - Meetings(f, Passed(c), GridPassed(c)))
    <3>1. Meetings(f, Passed(c)', GridPassed(c)')
            = Meetings(f, Passed(c), GridPassed(c)) + One(f = w)
      <4>1. /\ CubeUses(f, Passed(c)) \in Int /\ GridUses(f, GridPassed(c)) \in Int
            /\ One(f = w) \in Int
        BY CubeFacts, UsesAreNumbers DEF One
      <4>2. CubeUses(f, Passed(c)') = CubeUses(f, Passed(c)) + One(f = w)
        BY <1>5, <1>6
      <4> QED
        BY <1>6, <4>1, <4>2 DEF Meetings
    <3>2. /\ Meetings(f, met, open) \in Int
          /\ Meetings(f, Taken(c), GridArrived(c)) \in Int
          /\ Meetings(f, Passed(c), GridPassed(c)) \in Int
      BY <1>8, CubeFacts, UsesAreNumbers DEF Meetings
    <3>3. \A d \in Cubes : at[f][d] \in Int /\ go[f][d] \in Int
      BY CubeFacts
    <3>4. \A d \in Cubes \ {c} : at'[f][d] = at[f][d] /\ go'[f][d] = go[f][d]
      BY <1>1, <1>5, CubeFacts
    <3>5. at'[f][c] = at[f][c] /\ go'[f][c] - go[f][c] = 0 - One(f = w)
      BY <1>1, <1>5, <3>3, CubeFacts DEF One
    <3>6. Meetings(f, Taken(c)', GridArrived(c)') = Meetings(f, Taken(c), GridArrived(c))
      BY <1>6
    <3>7. One(f = w) \in Int
      BY DEF One
    <3> QED
      BY <3>1, <3>2, <3>3, <3>4, <3>5, <3>6, <3>7
  <2>3. cube'[c].slot \in Nat /\ \A d \in Cubes \ {c} : cube'[d] = cube[d]
    BY <1>1, <1>2, <1>3, <1>4, CubeFacts
  <2> QED
    BY <1>1, <1>6, <1>8, <1>9, <2>1, <2>2, <2>3 DEF CubeMoves
<1>11. MeetInv(met, open)'
  BY <1>7, <1>10, CubeFacts, MeetStep
<1>12. at' \in [Flags -> [Cubes -> Int]] /\ go' \in [Flags -> [Cubes -> Int]]
  BY <1>10 DEF CubeMoves
<1> QED
  BY <1>1, <1>3, <1>6, <1>11, <1>12, LanesUnseen

(* The gates of the chunk are there: the cube tells its lanes.               *)
LEMMA OpenKeeps ==
    ASSUME BackendInv, NEW c \in Cubes, OpenGates(c)
    PROVE  BackendInv'
<1> DEFINE v == [cube[c] EXCEPT !.pc = "take"]
<1>1. /\ cube' = [cube EXCEPT ![c] = v] /\ cube[c].pc = "meetGates"
      /\ go[GridFlag][c] > 0 /\ go' = [go EXCEPT ![GridFlag][c] = @ - 1]
      /\ told' = Tell(GateFlag, c)
      /\ UNCHANGED <<shape, vec, raised, at>>
  BY DEF OpenGates
<1>2. /\ cube[c] \in [slot : 0 .. Slots - 1, pc : CubePcs, chunk : Int]
      /\ cube[c].slot \in Nat /\ "take" \in CubePcs /\ shape.kind = "delayed"
  BY <1>1, CubeFacts
<1>3. /\ v \in [slot : 0 .. Slots - 1, pc : CubePcs, chunk : Int]
      /\ v.pc = "take" /\ v.slot = cube[c].slot
  BY <1>2
<1>4. cube'[c] = v
  BY <1>1, CubeFacts
<1> HIDE DEF v
<1>5. /\ Taken(c)' = Taken(c) /\ Passed(c)' = Passed(c)
      /\ GridArrived(c)' = GridArrived(c)
      /\ GridPassed(c)' = GridPassed(c) + 1
  BY <1>1, <1>2, <1>3, <1>4 DEF Taken, Passed, GridArrived, GridPassed, One
<1>6. GridFlag \in Flags /\ GateFlag \in Flags
  BY DEF GridFlag, GateFlag, Flags
<1>7. PICK met \in 0 .. Slots, open \in 0 .. Slots : MeetInv(met, open)
  BY DEF BackendInv
<1>8. /\ met \in Nat /\ open \in Nat
      /\ \A d \in Cubes :
           /\ Passed(d) <= met /\ met <= Taken(d)
           /\ shape.kind = "delayed" => GridPassed(d) <= open /\ open <= GridArrived(d)
      /\ \A f \in Flags : Meetings(f, met, open) \in Int
  BY <1>7, CubeFacts, MeetFacts
<1>9. GridPassed(c)' <= open
  <2>1. go[GridFlag][c] = CubeUses(GridFlag, met) - CubeUses(GridFlag, Passed(c))
                            + GridUses(GridFlag, open) - GridUses(GridFlag, GridPassed(c))
    BY <1>6, <1>7 DEF MeetInv
  <2>2. CubeUses(GridFlag, met) = 0 /\ CubeUses(GridFlag, Passed(c)) = 0
    BY <1>2 DEF CubeUses, GridFlag
  <2>3. /\ GridUses(GridFlag, open) = open
        /\ GridUses(GridFlag, GridPassed(c)) = GridPassed(c)
    BY <1>2 DEF GridUses
  <2>4. GridPassed(c) \in Nat
    BY CubeFacts
  <2> QED
    BY <1>1, <1>5, <1>8, <2>1, <2>2, <2>3, <2>4
<1>10. CubeMoves(c, met, open, met, open)
  <2>1. at' \in [Flags -> [Cubes -> Int]] /\ go' \in [Flags -> [Cubes -> Int]]
    BY <1>1, <1>6, CubeFacts
  <2>2. ASSUME NEW f \in Flags
        PROVE  LET more == Meetings(f, met, open) - Meetings(f, met, open) IN
               /\ \A d \in Cubes \ {c} :
                    at[f][d] - at'[f][d] = more /\ go'[f][d] - go[f][d] = more
               /\ at'[f][c] - at[f][c]
                    = Meetings(f, Taken(c)', GridArrived(c)')
                        - Meetings(f, Taken(c), GridArrived(c)) - more
               /\ go'[f][c] - go[f][c]
                    = more - (Meetings(f, Passed(c)', GridPassed(c)')
                               - Meetings(f, Passed(c), GridPassed(c)))
    <3>1. Meetings(f, Passed(c)', GridPassed(c)')
            = Meetings(f, Passed(c), GridPassed(c)) + One(f = GridFlag)
      <4>1. CubeUses(f, Passed(c)) \in Int /\ GridPassed(c) \in Nat
        BY CubeFacts, UsesAreNumbers
      <4>2. CubeUses(f, Passed(c)') = CubeUses(f, Passed(c))
        BY <1>5
      <4>3. /\ GridUses(f, GridPassed(c)) \in Int /\ One(f = GridFlag) \in Int
            /\ GridUses(f, GridPassed(c)')
                 = GridUses(f, GridPassed(c)) + One(f = GridFlag)
        BY <1>2, <1>5, <4>1 DEF GridUses, One
      <4> QED
        BY <4>1, <4>2, <4>3 DEF Meetings
    <3>2. /\ Meetings(f, met, open) \in Int
          /\ Meetings(f, Taken(c), GridArrived(c)) \in Int
          /\ Meetings(f, Passed(c), GridPassed(c)) \in Int
      BY <1>8, CubeFacts, UsesAreNumbers DEF Meetings
    <3>3. \A d \in Cubes : at[f][d] \in Int /\ go[f][d] \in Int
      BY CubeFacts
    <3>4. \A d \in Cubes \ {c} : at'[f][d] = at[f][d] /\ go'[f][d] = go[f][d]
      BY <1>1, <1>6, CubeFacts
    <3>5. at'[f][c] = at[f][c] /\ go'[f][c] - go[f][c] = 0 - One(f = GridFlag)
      BY <1>1, <1>6, <3>3, CubeFacts DEF One
    <3>6. Meetings(f, Taken(c)', GridArrived(c)') = Meetings(f, Taken(c), GridArrived(c))
      BY <1>5
    <3>7. One(f = GridFlag) \in Int
      BY DEF One
    <3> QED
      BY <3>1, <3>2, <3>3, <3>4, <3>5, <3>6, <3>7
  <2>3. cube'[c].slot \in Nat /\ \A d \in Cubes \ {c} : cube'[d] = cube[d]
    BY <1>1, <1>2, <1>3, <1>4, CubeFacts
  <2> QED
    BY <1>1, <1>5, <1>8, <1>9, <2>1, <2>2, <2>3 DEF CubeMoves
<1>11. MeetInv(met, open)'
  BY <1>7, <1>10, CubeFacts, MeetStep
<1>12. at' \in [Flags -> [Cubes -> Int]] /\ go' \in [Flags -> [Cubes -> Int]]
  BY <1>10 DEF CubeMoves
<1>13. told' \in [Flags -> [Lanes -> Int]]
  BY <1>1, <1>6, CubeFacts DEF Tell
<1>14. ASSUME NEW x \in Lanes, NEW f \in Flags
       PROVE  told'[f][x] = told[f][x] + One(f = GateFlag /\ CoreOf(x) = c)
              /\ told[f][x] \in Int /\ raised[f][x] \in Int
  BY <1>1, <1>6, CubeFacts DEF Tell, One
<1>15. \A x \in Lanes : CoreOf(x) # c => \A f \in Flags :
          raised'[f][x] = raised[f][x] /\ told'[f][x] = told[f][x]
  BY <1>1, <1>14 DEF One
<1>16. ASSUME NEW x \in Lanes, CoreOf(x) = c
       PROVE  /\ Taken(c)' <= Published(x)
              /\ HasAck => Acked(x) <= Taken(c)'
              /\ shape.kind = "delayed" => Opened(x) <= GridPassed(c)'
  <2>1. /\ Taken(c) <= Published(x)
        /\ HasAck => Acked(x) <= Taken(c)
        /\ shape.kind = "delayed" => Opened(x) <= GridPassed(c)
    BY <1>16 DEF LanesInv, BackendInv
  <2>2. Opened(x) \in Nat /\ GridPassed(c) \in Nat
    BY CubeFacts, Progress
  <2> QED
    BY <1>5, <2>1, <2>2
<1>17. ASSUME NEW x \in Lanes, CoreOf(x) = c, NEW f \in Flags
       PROVE  /\ raised'[f][x] - raised[f][x]
                   = VectorUses(f, Taken(c)) - VectorUses(f, Taken(c)')
              /\ told'[f][x] - told[f][x]
                   = AckUses(f, Taken(c)') - AckUses(f, Taken(c))
                       + GateUses(f, GridPassed(c)') - GateUses(f, GridPassed(c))
  <2>1. VectorUses(f, Taken(c)) \in Int /\ AckUses(f, Taken(c)) \in Int
    BY CubeFacts, UsesGrow
  <2>2. GridPassed(c) \in Nat
    BY CubeFacts
  <2>3. GateUses(f, GridPassed(c)') - GateUses(f, GridPassed(c)) = One(f = GateFlag)
    BY <1>2, <1>5, <2>2 DEF GateUses, One
  <2>4. /\ told'[f][x] - told[f][x] = One(f = GateFlag)
        /\ raised'[f][x] - raised[f][x] = 0
    BY <1>1, <1>14, <1>17 DEF One
  <2>5. GateUses(f, GridPassed(c)') \in Int /\ GateUses(f, GridPassed(c)) \in Int
    BY <1>2, <1>5, <2>2 DEF GateUses
  <2> QED
    BY <1>5, <2>1, <2>3, <2>4, <2>5
<1> QED
  BY <1>1, <1>3, <1>11, <1>12, <1>13, <1>15, <1>16, <1>17, CubeFacts, CubeStepKeeps

(* An arrival at a meeting: it is over when all the others have arrived.     *)
LEMMA Gathering ==
    ASSUME CountersOK, NEW c \in Cubes, NEW w \in Flags, Meet(w, c)
    PROVE  \E k \in {0, 1} :
             /\ k = 1 => \A d \in Cubes \ {c} : at[w][d] > 0
             /\ at' \in [Flags -> [Cubes -> Int]] /\ go' \in [Flags -> [Cubes -> Int]]
             /\ \A f \in Flags : \A d \in Cubes :
                  /\ at'[f][d] - at[f][d] = One(f = w /\ d = c) - (IF f = w THEN k ELSE 0)
                  /\ go'[f][d] - go[f][d] = IF f = w THEN k ELSE 0
<1> DEFINE all == \A d \in Cubes \ {c} : at[w][d] > 0
           k == IF all THEN 1 ELSE 0
<1>1. at \in [Flags -> [Cubes -> Int]] /\ go \in [Flags -> [Cubes -> Int]]
  BY DEF CountersOK
<1>2. /\ at' = [at EXCEPT ![w] = [d \in Cubes |->
                  at[w][d] + (IF d = c THEN 1 ELSE 0) - (IF all THEN 1 ELSE 0)]]
      /\ go' = [go EXCEPT ![w] = [d \in Cubes |->
                  go[w][d] + (IF all THEN 1 ELSE 0)]]
  BY DEF Meet
<1>3. k \in {0, 1} /\ (k = 1 => all)
  OBVIOUS
<1>4. (IF all THEN 1 ELSE 0) = k
  OBVIOUS
<1> HIDE DEF k
<1>5. /\ at' = [at EXCEPT ![w] = [d \in Cubes |->
                  at[w][d] + (IF d = c THEN 1 ELSE 0) - k]]
      /\ go' = [go EXCEPT ![w] = [d \in Cubes |-> go[w][d] + k]]
  BY <1>2, <1>4
<1>6. /\ at' \in [Flags -> [Cubes -> Int]] /\ go' \in [Flags -> [Cubes -> Int]]
  BY <1>1, <1>3, <1>5
<1>7. ASSUME NEW f \in Flags, NEW d \in Cubes
      PROVE  /\ at'[f][d] - at[f][d] = One(f = w /\ d = c) - (IF f = w THEN k ELSE 0)
             /\ go'[f][d] - go[f][d] = IF f = w THEN k ELSE 0
  <2>1. at[f][d] \in Int /\ go[f][d] \in Int
    BY <1>1
  <2>2. CASE f = w
    BY <1>1, <1>3, <1>5, <2>1, <2>2 DEF One
  <2>3. CASE f # w
    <3>1. at'[f][d] = at[f][d] /\ go'[f][d] = go[f][d]
      BY <1>1, <1>5, <2>3
    <3> QED
      BY <2>1, <2>3, <3>1 DEF One
  <2> QED
    BY <2>2, <2>3
<1> QED
  BY <1>3, <1>6, <1>7

(* The gates of the chunk are computed: the cube arrives before they open.   *)
LEMMA GatesKeep ==
    ASSUME BackendInv, NEW c \in Cubes, ProjectGates(c)
    PROVE  BackendInv'
<1> DEFINE v == [cube[c] EXCEPT !.pc = "meetGates"]
<1>1. /\ cube' = [cube EXCEPT ![c] = v] /\ cube[c].pc = "gates"
      /\ Meet(GridFlag, c) /\ UNCHANGED <<shape, vec, raised, told>>
  BY DEF ProjectGates
<1>2. /\ cube[c] \in [slot : 0 .. Slots - 1, pc : CubePcs, chunk : Int]
      /\ cube[c].slot \in 0 .. Slots - 1 /\ "meetGates" \in CubePcs
      /\ shape.kind = "delayed"
  BY <1>1, CubeFacts
<1>3. /\ v \in [slot : 0 .. Slots - 1, pc : CubePcs, chunk : Int]
      /\ v.pc = "meetGates" /\ v.slot = cube[c].slot
  BY <1>2
<1>4. cube'[c] = v
  BY <1>1, CubeFacts
<1> HIDE DEF v
<1>5. /\ Taken(c)' = Taken(c) /\ Passed(c)' = Passed(c)
      /\ GridPassed(c)' = GridPassed(c) /\ GridPassed(c) = cube[c].slot
      /\ GridArrived(c) = cube[c].slot /\ GridArrived(c)' = cube[c].slot + 1
  BY <1>1, <1>2, <1>3, <1>4 DEF Taken, Passed, GridArrived, GridPassed, One
<1>6. GridFlag \in Flags
  BY DEF GridFlag, Flags
<1>7. PICK met \in 0 .. Slots, open \in 0 .. Slots : MeetInv(met, open)
  BY DEF BackendInv
<1>8. /\ met \in Nat /\ open \in Nat
      /\ \A d \in Cubes :
           /\ Passed(d) <= met /\ met <= Taken(d)
           /\ shape.kind = "delayed" => GridPassed(d) <= open /\ open <= GridArrived(d)
      /\ \A f \in Flags : Meetings(f, met, open) \in Int
  BY <1>7, CubeFacts, MeetFacts
<1>9. PICK k \in {0, 1} :
        /\ k = 1 => \A d \in Cubes \ {c} : at[GridFlag][d] > 0
        /\ at' \in [Flags -> [Cubes -> Int]] /\ go' \in [Flags -> [Cubes -> Int]]
        /\ \A f \in Flags : \A d \in Cubes :
             /\ at'[f][d] - at[f][d]
                  = One(f = GridFlag /\ d = c) - (IF f = GridFlag THEN k ELSE 0)
             /\ go'[f][d] - go[f][d] = IF f = GridFlag THEN k ELSE 0
  BY <1>1, <1>6, CubeFacts, Gathering
<1>10. open = cube[c].slot /\ open + k \in 0 .. Slots
  <2>1. cube[c].slot <= open /\ open <= cube[c].slot /\ Slots \in Nat
    BY <1>2, <1>5, <1>8, CubeFacts
  <2>2. open = cube[c].slot
    BY <1>2, <1>8, <2>1
  <2> QED
    BY <1>2, <2>1, <2>2
<1>11. ASSUME NEW d \in Cubes \ {c} PROVE open + k <= GridArrived(d)
  <2>1. GridArrived(d) \in Nat /\ open <= GridArrived(d)
    BY <1>2, <1>8, CubeFacts
  <2>2. CASE k = 1
    <3>1. at[GridFlag][d] > 0
      BY <1>9, <2>2
    <3>2. at[GridFlag][d] = CubeUses(GridFlag, Taken(d)) - CubeUses(GridFlag, met)
                              + GridUses(GridFlag, GridArrived(d))
                              - GridUses(GridFlag, open)
      BY <1>6, <1>7 DEF MeetInv
    <3>3. CubeUses(GridFlag, Taken(d)) = 0 /\ CubeUses(GridFlag, met) = 0
      BY <1>2 DEF CubeUses, GridFlag
    <3>4. /\ GridUses(GridFlag, GridArrived(d)) = GridArrived(d)
          /\ GridUses(GridFlag, open) = open
      BY <1>2 DEF GridUses
    <3> QED
      BY <1>8, <2>1, <2>2, <3>1, <3>2, <3>3, <3>4
  <2>3. CASE k = 0
    BY <1>8, <2>1, <2>3
  <2> QED
    BY <1>9, <2>2, <2>3
<1>12. CubeMoves(c, met, open, met, open + k)
  <2>1. ASSUME NEW f \in Flags
        PROVE  LET more == Meetings(f, met, open + k) - Meetings(f, met, open) IN
               /\ \A d \in Cubes \ {c} :
                    at[f][d] - at'[f][d] = more /\ go'[f][d] - go[f][d] = more
               /\ at'[f][c] - at[f][c]
                    = Meetings(f, Taken(c)', GridArrived(c)')
                        - Meetings(f, Taken(c), GridArrived(c)) - more
               /\ go'[f][c] - go[f][c]
                    = more - (Meetings(f, Passed(c)', GridPassed(c)')
                               - Meetings(f, Passed(c), GridPassed(c)))
    <3> DEFINE j == IF f = GridFlag THEN k ELSE 0
               i == IF f = GridFlag THEN 1 ELSE 0
    <3>1. Meetings(f, met, open + k) - Meetings(f, met, open) = j
      <4>1. CubeUses(f, met) \in Int
        BY <1>8, UsesAreNumbers
      <4>2. GridUses(f, open + k) = GridUses(f, open) + j /\ GridUses(f, open) \in Int
        BY <1>2, <1>8, <1>9 DEF GridUses
      <4>3. j \in Int
        BY <1>9
      <4> HIDE DEF j
      <4> QED
        BY <4>1, <4>2, <4>3 DEF Meetings
    <3>2. Meetings(f, Taken(c)', GridArrived(c)')
            - Meetings(f, Taken(c), GridArrived(c)) = i
      <4>1. CubeUses(f, Taken(c)) \in Int
        BY CubeFacts, UsesAreNumbers
      <4>2. /\ GridUses(f, GridArrived(c)') = GridUses(f, GridArrived(c)) + i
            /\ GridUses(f, GridArrived(c)) \in Int
        BY <1>2, <1>5 DEF GridUses
      <4>3. i \in Int
        OBVIOUS
      <4> HIDE DEF i
      <4> QED
        BY <1>5, <4>1, <4>2, <4>3 DEF Meetings
    <3>3. Meetings(f, Passed(c)', GridPassed(c)')
            - Meetings(f, Passed(c), GridPassed(c)) = 0
      <4>1. Meetings(f, Passed(c), GridPassed(c)) \in Int
        BY CubeFacts, UsesAreNumbers DEF Meetings
      <4> QED
        BY <1>5, <4>1
    <3>4. ASSUME NEW d \in Cubes
          PROVE  /\ at'[f][d] - at[f][d] = (IF d = c THEN i ELSE 0) - j
                 /\ go'[f][d] - go[f][d] = j
                 /\ at'[f][d] \in Int /\ at[f][d] \in Int
      BY <1>9, CubeFacts DEF One
    <3>5. j \in Int /\ i \in Int
      BY <1>9
    <3> HIDE DEF i, j
    <3>6. ASSUME NEW d \in Cubes \ {c} PROVE at[f][d] - at'[f][d] = j
      BY <3>4, <3>5
    <3> QED
      BY <3>1, <3>2, <3>3, <3>4, <3>5, <3>6
  <2>2. cube'[c].slot \in Nat /\ \A d \in Cubes \ {c} : cube'[d] = cube[d]
    BY <1>1, <1>2, <1>3, <1>4, CubeFacts
  <2>3. /\ met <= met /\ open <= open + k
        /\ GridPassed(c)' <= open + k /\ open + k <= GridArrived(c)'
    BY <1>2, <1>5, <1>8, <1>9, <1>10
  <2>4. Passed(c)' <= met /\ met <= Taken(c)' /\ \A d \in Cubes : met <= Taken(d)
    BY <1>5, <1>8
  <2> QED
    BY <1>1, <1>9, <1>11, <2>1, <2>2, <2>3, <2>4 DEF CubeMoves
<1>13. MeetInv(met, open + k)'
  BY <1>7, <1>10, <1>12, CubeFacts, MeetStep
<1>14. at' \in [Flags -> [Cubes -> Int]] /\ go' \in [Flags -> [Cubes -> Int]]
  BY <1>9
<1> QED
  BY <1>1, <1>3, <1>5, <1>10, <1>13, <1>14, LanesUnseen

(* A cube takes its lanes' notices, acknowledges them and arrives.           *)
LEMMA TakeKeeps ==
    ASSUME BackendInv, NEW c \in Cubes, TakeSlot(c)
    PROVE  BackendInv'
<1> DEFINE v == [cube[c] EXCEPT !.pc = "meet"]
           n == VectorFlag(cube[c].slot)
           w == CubeFlag(cube[c].slot)
<1>1. /\ cube' = [cube EXCEPT ![c] = v] /\ cube[c].pc = "take"
      /\ \A x \in Lanes : CoreOf(x) = c => raised[n][x] > 0
      /\ raised' = [raised EXCEPT ![n] = [x \in Lanes |->
                      raised[n][x] - (IF CoreOf(x) = c THEN 1 ELSE 0)]]
      /\ told' = IF HasAck THEN Tell(AckFlag, c) ELSE told
      /\ Meet(w, c) /\ UNCHANGED <<shape, vec>>
  BY DEF TakeSlot
<1>2. /\ cube[c] \in [slot : 0 .. Slots - 1, pc : CubePcs, chunk : Int]
      /\ cube[c].slot \in 0 .. Slots - 1 /\ "meet" \in CubePcs
  BY CubeFacts
<1>3. /\ v \in [slot : 0 .. Slots - 1, pc : CubePcs, chunk : Int]
      /\ v.pc = "meet" /\ v.slot = cube[c].slot
  BY <1>2
<1>4. cube'[c] = v
  BY <1>1, CubeFacts
<1>5. /\ n \in Flags /\ w \in Flags /\ w # GridFlag /\ AckFlag \in Flags
      /\ \A f \in Flags :
           /\ VectorUses(f, cube[c].slot + 1)
                = VectorUses(f, cube[c].slot) + One(f = n)
           /\ CubeUses(f, cube[c].slot + 1) = CubeUses(f, cube[c].slot) + One(f = w)
  <2>1. shape \in Shapes
    BY CubeFacts, Progress
  <2>2. AckFlag \in Flags
    BY DEF AckFlag, Flags
  <2>3. w # GridFlag
    BY <1>2 DEF CubeFlag, GridFlag
  <2> QED
    BY <1>2, <2>1, <2>2, <2>3, UsesStep
<1> HIDE DEF v, n, w
<1>6. /\ Taken(c) = cube[c].slot /\ Taken(c)' = cube[c].slot + 1
      /\ Passed(c)' = Passed(c) /\ Passed(c) = cube[c].slot
      /\ GridArrived(c)' = GridArrived(c) /\ GridPassed(c)' = GridPassed(c)
  BY <1>1, <1>2, <1>3, <1>4 DEF Taken, Passed, GridArrived, GridPassed, One
<1>7. PICK met \in 0 .. Slots, open \in 0 .. Slots : MeetInv(met, open)
  BY DEF BackendInv
<1>8. /\ met \in Nat /\ open \in Nat
      /\ \A d \in Cubes :
           /\ Passed(d) <= met /\ met <= Taken(d)
           /\ shape.kind = "delayed" => GridPassed(d) <= open /\ open <= GridArrived(d)
      /\ \A f \in Flags : Meetings(f, met, open) \in Int
  BY <1>7, CubeFacts, MeetFacts
<1>9. PICK k \in {0, 1} :
        /\ k = 1 => \A d \in Cubes \ {c} : at[w][d] > 0
        /\ at' \in [Flags -> [Cubes -> Int]] /\ go' \in [Flags -> [Cubes -> Int]]
        /\ \A f \in Flags : \A d \in Cubes :
             /\ at'[f][d] - at[f][d]
                  = One(f = w /\ d = c) - (IF f = w THEN k ELSE 0)
             /\ go'[f][d] - go[f][d] = IF f = w THEN k ELSE 0
  BY <1>1, <1>5, CubeFacts, Gathering
<1>10. met = cube[c].slot /\ met + k \in 0 .. Slots
  <2>1. cube[c].slot <= met /\ met <= cube[c].slot /\ Slots \in Nat
    BY <1>2, <1>6, <1>8, CubeFacts
  <2>2. met = cube[c].slot
    BY <1>2, <1>8, <2>1
  <2> QED
    BY <1>2, <2>1, <2>2
<1>11. ASSUME NEW d \in Cubes \ {c} PROVE met + k <= Taken(d)
  <2>1. Taken(d) \in Nat /\ met <= Taken(d)
    BY <1>8, CubeFacts
  <2>2. CASE k = 1
    <3>1. at[w][d] > 0
      BY <1>9, <2>2
    <3>2. at[w][d] = CubeUses(w, Taken(d)) - CubeUses(w, met)
                       + GridUses(w, GridArrived(d)) - GridUses(w, open)
      BY <1>5, <1>7 DEF MeetInv
    <3>3. GridUses(w, GridArrived(d)) = 0 /\ GridUses(w, open) = 0
      BY <1>5 DEF GridUses
    <3>4. CubeUses(w, Taken(d)) \in Int /\ CubeUses(w, met) \in Int
      BY <1>5, <1>8, <2>1, UsesAreNumbers
    <3>5. Taken(d) # met
      BY <3>1, <3>2, <3>3, <3>4
    <3> QED
      BY <1>8, <2>1, <2>2, <3>5
  <2>3. CASE k = 0
    BY <1>8, <2>1, <2>3
  <2> QED
    BY <1>9, <2>2, <2>3
<1>12. CubeMoves(c, met, open, met + k, open)
  <2>1. ASSUME NEW f \in Flags
        PROVE  LET more == Meetings(f, met + k, open) - Meetings(f, met, open) IN
               /\ \A d \in Cubes \ {c} :
                    at[f][d] - at'[f][d] = more /\ go'[f][d] - go[f][d] = more
               /\ at'[f][c] - at[f][c]
                    = Meetings(f, Taken(c)', GridArrived(c)')
                        - Meetings(f, Taken(c), GridArrived(c)) - more
               /\ go'[f][c] - go[f][c]
                    = more - (Meetings(f, Passed(c)', GridPassed(c)')
                               - Meetings(f, Passed(c), GridPassed(c)))
    <3> DEFINE j == IF f = w THEN k ELSE 0
               i == IF f = w THEN 1 ELSE 0
    <3>1. i = One(f = w) /\ i \in Int /\ j \in Int
      BY <1>9 DEF One
    <3>2. Meetings(f, met + k, open) - Meetings(f, met, open) = j
      <4>1. GridUses(f, open) \in Int /\ CubeUses(f, met) \in Int
        BY <1>8, UsesAreNumbers
      <4>2. CubeUses(f, met + k) = CubeUses(f, met) + j
        <5>1. CASE k = 0
          BY <1>8, <4>1, <5>1
        <5>2. CASE k = 1
          <6>1. j = i
            BY <5>2
          <6> HIDE DEF i, j
          <6> QED
            BY <1>5, <1>10, <3>1, <5>2, <6>1
        <5> QED
          BY <1>9, <5>1, <5>2
      <4> HIDE DEF i, j
      <4> QED
        BY <3>1, <4>1, <4>2 DEF Meetings
    <3>3. Meetings(f, Taken(c)', GridArrived(c)')
            - Meetings(f, Taken(c), GridArrived(c)) = i
      <4>1. CubeUses(f, Taken(c)) \in Int /\ GridUses(f, GridArrived(c)) \in Int
        BY CubeFacts, UsesAreNumbers
      <4> HIDE DEF i, j
      <4>2. CubeUses(f, Taken(c)') = CubeUses(f, Taken(c)) + i
        BY <1>5, <1>6, <3>1
      <4> QED
        BY <1>6, <3>1, <4>1, <4>2 DEF Meetings
    <3>4. Meetings(f, Passed(c)', GridPassed(c)')
            - Meetings(f, Passed(c), GridPassed(c)) = 0
      <4>1. Meetings(f, Passed(c), GridPassed(c)) \in Int
        BY CubeFacts, UsesAreNumbers DEF Meetings
      <4> QED
        BY <1>6, <4>1
    <3>5. ASSUME NEW d \in Cubes
          PROVE  /\ at'[f][d] - at[f][d] = (IF d = c THEN i ELSE 0) - j
                 /\ go'[f][d] - go[f][d] = j
                 /\ at'[f][d] \in Int /\ at[f][d] \in Int
      BY <1>9, CubeFacts DEF One
    <3> HIDE DEF i, j
    <3>6. ASSUME NEW d \in Cubes \ {c} PROVE at[f][d] - at'[f][d] = j
      BY <3>1, <3>5
    <3> QED
      BY <3>1, <3>2, <3>3, <3>4, <3>5, <3>6
  <2>2. cube'[c].slot \in Nat /\ \A d \in Cubes \ {c} : cube'[d] = cube[d]
    BY <1>1, <1>2, <1>3, <1>4, CubeFacts
  <2>3. /\ met <= met + k /\ open <= open
        /\ Passed(c)' <= met + k /\ met + k <= Taken(c)'
    BY <1>2, <1>6, <1>8, <1>9, <1>10
  <2>4. \A d \in Cubes : shape.kind = "delayed" =>
           GridPassed(d) <= open /\ open <= GridArrived(d)
    BY <1>8
  <2> QED
    BY <1>1, <1>6, <1>9, <1>11, <2>1, <2>2, <2>3, <2>4 DEF CubeMoves
<1>13. MeetInv(met + k, open)'
  BY <1>7, <1>10, <1>12, CubeFacts, MeetStep
<1>14. ASSUME NEW x \in Lanes, NEW f \in Flags
       PROVE  /\ raised'[f][x] = raised[f][x] - One(f = n /\ CoreOf(x) = c)
              /\ told'[f][x] = told[f][x] + One(HasAck /\ f = AckFlag /\ CoreOf(x) = c)
              /\ told[f][x] \in Int /\ raised[f][x] \in Int
  BY <1>1, <1>5, CubeFacts DEF Tell, One
<1>15. /\ raised' \in [Flags -> [Lanes -> Int]] /\ told' \in [Flags -> [Lanes -> Int]]
  <2>1. raised' \in [Flags -> [Lanes -> Int]]
    BY <1>1, <1>5, CubeFacts
  <2>2. Tell(AckFlag, c) \in [Flags -> [Lanes -> Int]]
    BY <1>5, CubeFacts DEF Tell
  <2>3. told' \in [Flags -> [Lanes -> Int]]
    BY <1>1, <2>2, CubeFacts
  <2> QED
    BY <2>1, <2>3
<1>16. \A x \in Lanes : CoreOf(x) # c => \A f \in Flags :
          raised'[f][x] = raised[f][x] /\ told'[f][x] = told[f][x]
  BY <1>14 DEF One
<1>17. ASSUME NEW x \in Lanes, CoreOf(x) = c
       PROVE  /\ Taken(c)' <= Published(x)
              /\ HasAck => Acked(x) <= Taken(c)'
              /\ shape.kind = "delayed" => Opened(x) <= GridPassed(c)'
  <2>1. /\ Taken(c) <= Published(x)
        /\ HasAck => Acked(x) <= Taken(c)
        /\ shape.kind = "delayed" => Opened(x) <= GridPassed(c)
        /\ raised[n][x] = VectorUses(n, Published(x)) - VectorUses(n, Taken(c))
    BY <1>5, <1>17 DEF LanesInv, BackendInv
  <2>2. Published(x) \in Nat /\ Acked(x) \in Nat /\ Taken(c) \in Nat
    BY CubeFacts, Progress
  <2>3. Published(x) # Taken(c)
    <3>1. raised[n][x] > 0
      BY <1>1, <1>17
    <3>2. VectorUses(n, Taken(c)) \in Int
      BY <1>5, <2>2, UsesGrow
    <3> QED
      BY <2>1, <3>1, <3>2
  <2> QED
    BY <1>6, <2>1, <2>2, <2>3
<1>18. ASSUME NEW x \in Lanes, CoreOf(x) = c, NEW f \in Flags
       PROVE  /\ raised'[f][x] - raised[f][x]
                   = VectorUses(f, Taken(c)) - VectorUses(f, Taken(c)')
              /\ told'[f][x] - told[f][x]
                   = AckUses(f, Taken(c)') - AckUses(f, Taken(c))
                       + GateUses(f, GridPassed(c)') - GateUses(f, GridPassed(c))
  <2>1. VectorUses(f, Taken(c)) \in Int /\ GateUses(f, GridPassed(c)) \in Int
    BY CubeFacts, UsesGrow
  <2>2. raised'[f][x] - raised[f][x] = 0 - One(f = n)
    BY <1>14, <1>18 DEF One
  <2>3. told'[f][x] - told[f][x] = One(HasAck /\ f = AckFlag)
    BY <1>14, <1>18 DEF One
  <2>4. VectorUses(f, Taken(c)) - VectorUses(f, Taken(c)') = 0 - One(f = n)
    <3>1. VectorUses(f, Taken(c)') = VectorUses(f, Taken(c)) + One(f = n)
      BY <1>5, <1>6
    <3>2. One(f = n) \in Int
      BY DEF One
    <3> QED
      BY <2>1, <3>1, <3>2
  <2>5. /\ AckUses(f, Taken(c)') - AckUses(f, Taken(c)) = One(HasAck /\ f = AckFlag)
        /\ One(HasAck /\ f = AckFlag) \in Int
    BY <1>2, <1>6 DEF AckUses, One
  <2>6. AckUses(f, Taken(c)') \in Int /\ AckUses(f, Taken(c)) \in Int
    BY <1>2, <1>6 DEF AckUses
  <2>7. GateUses(f, GridPassed(c)') = GateUses(f, GridPassed(c))
    BY <1>6
  <2> QED
    BY <2>1, <2>2, <2>3, <2>4, <2>5, <2>6, <2>7
<1>19. at' \in [Flags -> [Cubes -> Int]] /\ go' \in [Flags -> [Cubes -> Int]]
  BY <1>9
<1>20. UNCHANGED <<shape, vec>>
  BY <1>1
<1> QED
  BY <1>1, <1>3, <1>10, <1>13, <1>15, <1>16, <1>17, <1>18, <1>19, <1>20, CubeStepKeeps
-----------------------------------------------------------------------------
(* The invariant holds in the initial state ...                              *)
LEMMA InitInv == ASSUME Init PROVE BackendInv
<1>1. /\ shape \in Shapes /\ Slots \in Nat \ {0}
      /\ shape.kind \in {"rows", "heads", "compact", "delayed"}
      /\ \A l \in Lanes : CoreOf(l) \in Cubes
  BY LaunchFacts DEF Init
<1>2. /\ vec = [l \in Lanes |-> [slot |-> 0, pc |-> "run"]]
      /\ cube = [c \in Cubes |-> [slot |-> 0, pc |-> FirstPc, chunk |-> 0]]
      /\ raised = NoNotice(Lanes) /\ told = NoNotice(Lanes)
      /\ at = NoNotice(Cubes) /\ go = NoNotice(Cubes)
  BY DEF Init
<1>3. "run" \in LanePcs /\ FirstPc \in CubePcs /\ FirstPc \in {"gates", "take"}
      /\ (shape.kind = "delayed" => FirstPc = "gates")
  BY <1>1 DEF LanePcs, CubePcs, FirstPc
<1>4. ASSUME NEW l \in Lanes
      PROVE Opened(l) = 0 /\ Published(l) = 0 /\ Acked(l) = 0
  BY <1>2 DEF Opened, Published, Acked, One
<1>5. ASSUME NEW c \in Cubes
      PROVE  /\ Taken(c) = 0 /\ Passed(c) = 0
             /\ shape.kind = "delayed" => GridArrived(c) = 0 /\ GridPassed(c) = 0
  BY <1>2, <1>3 DEF Taken, Passed, GridArrived, GridPassed, One
<1>6. CountersOK
  BY <1>1, <1>2, <1>3 DEF CountersOK, NoNotice
<1>7. ASSUME NEW f \in Flags, NEW a, NEW b
      PROVE  /\ VectorUses(f, 0) \in Nat /\ CubeUses(f, 0) \in Nat
             /\ AckUses(f, 0) = 0
             /\ shape.kind # "delayed" => GateUses(f, a) = 0 /\ GridUses(f, a) = 0
             /\ GateUses(f, 0) = 0 /\ GridUses(f, 0) = 0
  <2>1. VectorUses(f, 0) \in Nat /\ CubeUses(f, 0) \in Nat
    BY UsesGrow
  <2> QED
    BY <2>1 DEF AckUses, GateUses, GridUses
<1>8. LanesInv
  <2> SUFFICES ASSUME NEW l \in Lanes, NEW c \in Cubes, c = CoreOf(l)
               PROVE  /\ Taken(c) <= Published(l)
                      /\ HasAck => Acked(l) <= Taken(c)
                      /\ shape.kind = "delayed" => Opened(l) <= GridPassed(c)
                      /\ \A f \in Flags :
                           /\ raised[f][l] = VectorUses(f, Published(l))
                                               - VectorUses(f, Taken(c))
                           /\ told[f][l] = AckUses(f, Taken(c)) - AckUses(f, Acked(l))
                                             + GateUses(f, GridPassed(c))
                                             - GateUses(f, Opened(l))
    BY <1>1 DEF LanesInv
  <2>1. \A f \in Flags : raised[f][l] = 0 /\ told[f][l] = 0
    BY <1>2 DEF NoNotice
  <2> QED
    BY <1>4, <1>5, <1>7, <2>1
<1>9. MeetInv(0, 0)
  <2>1. \A f \in Flags : \A c \in Cubes : at[f][c] = 0 /\ go[f][c] = 0
    BY <1>2 DEF NoNotice
  <2> QED
    BY <1>5, <1>7, <2>1 DEF MeetInv
<1> QED
  BY <1>1, <1>6, <1>8, <1>9 DEF BackendInv

(* ... and every step of a lane or a cube keeps it.                          *)
LEMMA BackendInvInductive == ASSUME BackendInv, [Next]_vars PROVE BackendInv'
<1>1. ASSUME NEW l \in Lanes, LaneStep(l) PROVE BackendInv'
  BY <1>1, LaneKeeps
<1>2. ASSUME NEW c \in Cubes, CubeStep(c) PROVE BackendInv'
  BY <1>2, GatesKeep, OpenKeeps, TakeKeeps, PassKeeps, ProjectKeeps, EndSlotKeeps
     DEF CubeStep
<1>3. CASE UNCHANGED vars
  <2>1. UNCHANGED <<shape, vec, cube, raised, told, at, go>>
    BY <1>3 DEF vars
  <2>2. /\ Lanes' = Lanes /\ Cubes' = Cubes /\ Slots' = Slots
        /\ LanePcs' = LanePcs /\ CubePcs' = CubePcs /\ HasAck' = HasAck
        /\ \A x : /\ CoreOf(x)' = CoreOf(x) /\ Opened(x)' = Opened(x)
                  /\ Published(x)' = Published(x) /\ Acked(x)' = Acked(x)
                  /\ Taken(x)' = Taken(x) /\ Passed(x)' = Passed(x)
                  /\ GridArrived(x)' = GridArrived(x)
                  /\ GridPassed(x)' = GridPassed(x)
        /\ \A f, m : /\ VectorUses(f, m)' = VectorUses(f, m)
                     /\ CubeUses(f, m)' = CubeUses(f, m)
                     /\ AckUses(f, m)' = AckUses(f, m)
                     /\ GateUses(f, m)' = GateUses(f, m)
                     /\ GridUses(f, m)' = GridUses(f, m)
    BY <2>1 DEF Lanes, Cubes, Slots, Chunks, Tasks, Ceiling, LanePcs, CubePcs,
       HasAck, CoreOf, VectorUses, CubeUses, AckUses, GateUses, GridUses, Opened,
       Published, Acked, Taken, Passed, GridArrived, GridPassed
  <2>3. CountersOK'
    BY <2>1, <2>2 DEF CountersOK, BackendInv
  <2>4. LanesInv'
    BY <2>1, <2>2 DEF LanesInv, BackendInv
  <2>5. ASSUME NEW met, NEW open, MeetInv(met, open) PROVE MeetInv(met, open)'
    BY <2>1, <2>2, <2>5 DEF MeetInv
  <2> QED
    BY <2>2, <2>3, <2>4, <2>5 DEF BackendInv
<1> QED
  BY <1>1, <1>2, <1>3 DEF Next, Finished

(* No notice between lanes and cubes, or among the cubes, is ever overtaken  *)
(* by the next one with its flag, and none is left when a launch ends: for   *)
(* every number of cores, lanes, batches, heads and chunks.                  *)
THEOREM NoFlagOvertaken == Spec => []FlagsTaken
<1>1. BackendInv => FlagsTaken
  BY InvBoundsFlags
<1>2. Init => BackendInv
  BY InitInv
<1>3. BackendInv /\ [Next]_vars => BackendInv'
  BY BackendInvInductive
<1> QED
  BY <1>1, <1>2, <1>3, PTL DEF Spec
-----------------------------------------------------------------------------
(* What the chunks hold.  First the arithmetic of tasks, rows, slots and     *)
(* chunks.                                                                   *)

\* Quotient and remainder.
LEMMA DivMod ==
    ASSUME NEW m \in Nat, NEW d \in Nat \ {0}
    PROVE  /\ m \div d \in Nat /\ m % d \in 0 .. d - 1
           /\ m = d * (m \div d) + (m % d)
OBVIOUS

\* A product grows with its factor, and only with it.
LEMMA TimesGrows ==
    ASSUME NEW d \in Nat \ {0}, NEW a \in Nat, NEW b \in Nat
    PROVE  /\ d * a \in Nat /\ d * b \in Nat
           /\ a < b => d * a + d <= d * b
           /\ a <= b => d * a <= d * b
           /\ d * a < d * b => a < b
<1>1. d * a \in Nat /\ d * b \in Nat
  OBVIOUS
<1>2. ASSUME NEW x \in Nat, NEW y \in Nat, x < y PROVE d * x + d <= d * y
  <2>1. PICK k \in Nat : y = x + 1 + k
    <3>1. y - x - 1 \in Nat /\ y = x + 1 + (y - x - 1)
      BY <1>2
    <3> QED
      BY <3>1
  <2>2. d * y = d * x + d + d * k /\ d * k \in Nat /\ d * x \in Nat
    BY <2>1
  <2> QED
    BY <2>2
<1>3. a < b => d * a + d <= d * b
  BY <1>2
<1>4. a <= b => d * a <= d * b
  BY <1>1, <1>3
<1>5. d * a < d * b => a < b
  <2>1. b < a => d * b + d <= d * a
    BY <1>2
  <2> QED
    BY <1>1, <2>1
<1> QED
  BY <1>1, <1>3, <1>4, <1>5

\* A number that is given by its quotient and remainder.
LEMMA DivIs ==
    ASSUME NEW d \in Nat \ {0}, NEW q \in Nat, NEW r \in 0 .. d - 1
    PROVE  /\ d * q + r \in Nat
           /\ (d * q + r) \div d = q /\ (d * q + r) % d = r
<1> DEFINE m == d * q + r
<1>1. m \in Nat
  BY TimesGrows
<1>2. /\ m \div d \in Nat /\ m % d \in 0 .. d - 1
      /\ m = d * (m \div d) + (m % d)
  BY <1>1, DivMod
<1>3. m = d * q + r
  OBVIOUS
<1> HIDE DEF m
<1> DEFINE x == m \div d    s == m % d
<1>4. x \in Nat /\ s \in 0 .. d - 1 /\ m = d * x + s
  BY <1>2
<1> HIDE DEF x, s
<1>5. /\ d * q \in Nat /\ d * x \in Nat
      /\ q < x => d * q + d <= d * x
      /\ x < q => d * x + d <= d * q
  BY <1>4, TimesGrows
<1>6. x = q
  BY <1>3, <1>4, <1>5
<1>7. s = r
  BY <1>3, <1>4, <1>5, <1>6
<1> QED
  BY <1>1, <1>6, <1>7 DEF m, x, s

\* Rounding up.
LEMMA CeilIs ==
    ASSUME NEW a \in Nat \ {0}, NEW d \in Nat \ {0}
    PROVE  /\ Ceiling(a, d) \in Nat \ {0}
           /\ d * (Ceiling(a, d) - 1) < a /\ a <= d * Ceiling(a, d)
           /\ \A k \in Nat \ {0} :
                 d * (k - 1) < a /\ a <= d * k => Ceiling(a, d) = k
<1> DEFINE m == a + d - 1    c == m \div d
<1>1. m \in Nat /\ c = Ceiling(a, d)
  BY DEF Ceiling
<1>2. Ceiling(a, d) \in Nat \ {0}
  BY Quotients
<1>3. c \in Nat \ {0} /\ m % d \in 0 .. d - 1 /\ m = d * c + (m % d)
  BY <1>1, <1>2, DivMod
<1>4. m = a + d - 1
  OBVIOUS
<1> HIDE DEF c, m
<1>5. d * (c - 1) = d * c - d /\ d * c \in Nat
  BY <1>3
<1>6. d * (c - 1) < a /\ a <= d * c
  BY <1>3, <1>4, <1>5
<1>7. ASSUME NEW k \in Nat \ {0}, d * (k - 1) < a, a <= d * k PROVE c = k
  <2>1. /\ d * (k - 1) \in Nat /\ d * (c - 1) \in Nat /\ d * k \in Nat
        /\ d * (k - 1) < d * c => k - 1 < c
        /\ d * (c - 1) < d * k => c - 1 < k
    <3>1. k - 1 \in Nat /\ c - 1 \in Nat /\ k \in Nat /\ c \in Nat
      BY <1>3
    <3> QED
      BY <3>1, TimesGrows
  <2> QED
    BY <1>3, <1>5, <1>6, <1>7, <2>1
<1> QED
  BY <1>1, <1>2, <1>6, <1>7

\* The numbers of a launch.
LEMMA ShapeFacts ==
    ASSUME shape \in Shapes
    PROVE  /\ shape.B \in Nat \ {0} /\ shape.n \in Nat \ {0} /\ shape.G \in Nat \ {0}
           /\ shape.cores \in Nat \ {0} /\ shape.lanes \in Nat \ {0}
           /\ shape.zb \in Nat \ {0}
           /\ shape.kind \in {"rows", "heads", "compact", "delayed"}
           /\ shape.lanes <= 2 * shape.cores
           /\ shape.kind = "rows" => shape.ragged \/ shape.B % shape.G = 0
           /\ shape.kind = "heads" => shape.G = shape.B
           /\ shape.kind = "compact" => shape.lanes = shape.G * shape.n
           /\ shape.kind = "delayed" => shape.B % shape.G = 0 /\ shape.G % shape.zb = 0
           /\ Tasks = shape.n * shape.B /\ Tasks \in Nat \ {0}
           /\ ChunkTasks \in Nat \ {0}
           /\ Slots \in Nat \ {0} /\ Chunks \in Nat \ {0}
<1>1. /\ {shape.B, shape.n, shape.G, shape.cores, shape.lanes, shape.zb}
            \subseteq Nat \ {0}
      /\ shape.kind \in {"rows", "heads", "compact", "delayed"}
  BY ShapesAssumption
<1>2. /\ shape.B \in Nat \ {0} /\ shape.n \in Nat \ {0} /\ shape.G \in Nat \ {0}
      /\ shape.cores \in Nat \ {0} /\ shape.lanes \in Nat \ {0}
      /\ shape.zb \in Nat \ {0}
  BY <1>1
<1>3. /\ shape.lanes <= 2 * shape.cores
      /\ shape.kind = "rows" => shape.ragged \/ shape.B % shape.G = 0
      /\ shape.kind = "heads" => shape.G = shape.B
      /\ shape.kind = "compact" => shape.lanes = shape.G * shape.n
      /\ shape.kind = "delayed" => shape.B % shape.G = 0 /\ shape.G % shape.zb = 0
  BY ShapesFit
<1>4. Tasks = shape.n * shape.B
  BY <1>2 DEF Tasks
<1>5. Tasks \in Nat \ {0} /\ ChunkTasks \in Nat \ {0}
  BY <1>2, Quotients DEF Tasks, ChunkTasks
<1>6. Chunks \in Nat \ {0}
  BY <1>2, Quotients DEF Chunks
<1>7. Slots \in Nat \ {0}
  BY LaunchFacts
<1> QED
  BY <1>1, <1>2, <1>3, <1>4, <1>5, <1>6, <1>7

-----------------------------------------------------------------------------
\* The place of a task in its chunk of batches, and the task of a row: head h
\* and the r-th batch of chunk q.
InChunk(q, h, r) == GroupBatch(shape.G * q) * h + r
TaskAt(q, h, r) == (shape.G * shape.n) * q + InChunk(q, h, r)

\* A chunk that begins with batch G * q has gb batches, and its tasks fit.
LEMMA GroupFacts ==
    ASSUME shape \in Shapes, NEW q \in Nat, shape.G * q < shape.B
    PROVE  LET gb == GroupBatch(shape.G * q) IN
           /\ gb \in Nat \ {0} /\ gb <= shape.G /\ shape.G * q + gb <= shape.B
           /\ \A r \in 0 .. shape.G - 1 : shape.G * q + r < shape.B => r < gb
           /\ gb = shape.G \/ gb = shape.B - shape.G * q
<1>1. shape.G \in Nat \ {0} /\ shape.B \in Nat \ {0}
  BY ShapeFacts
<1>2. shape.G * q \in Nat
  BY <1>1, TimesGrows
<1> QED
  BY <1>1, <1>2 DEF GroupBatch, Least

\* Every row has a task of its own, from which the kernel finds the row.
LEMMA TaskOfRow ==
    ASSUME shape \in Shapes, NEW q \in Nat, NEW r \in 0 .. shape.G - 1,
           NEW h \in 0 .. shape.n - 1, shape.G * q + r < shape.B
    PROVE  /\ InChunk(q, h, r) \in 0 .. shape.G * shape.n - 1
           /\ TaskAt(q, h, r) \in 0 .. Tasks - 1
           /\ RowOf(TaskAt(q, h, r)) = <<shape.G * q + r, h>>
<1> DEFINE g == shape.G * q
           gb == GroupBatch(g)
           jobs == shape.G * shape.n
           y == gb * h
           o == InChunk(q, h, r)
<1>1. /\ shape.G \in Nat \ {0} /\ shape.B \in Nat \ {0} /\ shape.n \in Nat \ {0}
      /\ Tasks = shape.n * shape.B /\ h < shape.n
  BY ShapeFacts
<1>2. g \in Nat /\ g < shape.B
  BY <1>1, TimesGrows
<1>3. gb \in Nat \ {0} /\ gb <= shape.G /\ g + gb <= shape.B /\ r < gb
  BY <1>2, GroupFacts
<1>4. jobs \in Nat \ {0} /\ jobs = shape.n * shape.G
  BY <1>1, Quotients
<1>5. o = y + r /\ TaskAt(q, h, r) = jobs * q + o
  BY DEF InChunk, TaskAt
<1>6. RowOf(jobs * q + o) = LET first == ((jobs * q + o) \div jobs) * shape.G
                                offset == (jobs * q + o) % jobs
                            IN  <<first + (offset % GroupBatch(first)),
                                  offset \div GroupBatch(first)>>
  BY DEF RowOf
<1>7. q * shape.G = g
  BY <1>1
<1>8. jobs * q = shape.n * g /\ jobs * q \in Nat
  BY <1>1, TimesGrows
<1> HIDE DEF gb, jobs, o
<1>9. y \in Nat /\ y + gb <= gb * shape.n /\ gb * shape.n = shape.n * gb
  BY <1>1, <1>3, TimesGrows
<1>10. /\ shape.n * gb <= jobs /\ shape.n * gb \in Nat
       /\ shape.n * (g + gb) <= shape.n * shape.B
       /\ shape.n * (g + gb) = shape.n * g + shape.n * gb
       /\ shape.n * shape.B \in Nat /\ shape.n * g \in Nat
  <2> HIDE DEF g
  <2>1. g + gb \in Nat /\ gb \in Nat
    BY <1>2, <1>3
  <2>2. shape.n * (g + gb) <= shape.n * shape.B /\ shape.n * gb <= shape.n * shape.G
    BY <1>1, <1>3, <2>1, TimesGrows
  <2>3. shape.n * gb \in Nat /\ shape.n * g \in Nat /\ shape.n * shape.B \in Nat
    BY <1>1, <1>2, <2>1, TimesGrows
  <2>4. shape.n * (g + gb) = shape.n * g + shape.n * gb
    BY <1>1, <1>2, <2>1
  <2> QED
    BY <1>4, <2>2, <2>3, <2>4
<1> DEFINE z == shape.n * gb    x == shape.n * g    w == shape.n * shape.B
<1>11. /\ y \in Nat /\ y + gb <= z /\ z <= jobs /\ z \in Nat
       /\ x + z <= w /\ x \in Nat /\ w \in Nat
       /\ jobs * q = x /\ Tasks = w
  BY <1>1, <1>8, <1>9, <1>10
<1> HIDE DEF g, x, y, z, w
<1>12. o \in 0 .. jobs - 1 /\ o < z
  BY <1>3, <1>4, <1>5, <1>11
<1>13. jobs * q + o \in 0 .. Tasks - 1
  BY <1>11, <1>12
<1>14. (jobs * q + o) \div jobs = q /\ (jobs * q + o) % jobs = o
  BY <1>4, <1>12, DivIs
<1>15. o \div gb = h /\ o % gb = r
  <2>1. r \in 0 .. gb - 1 /\ h \in Nat
    BY <1>3
  <2>2. (gb * h + r) \div gb = h /\ (gb * h + r) % gb = r
    BY <1>3, <2>1, DivIs
  <2> QED
    BY <1>5, <2>2 DEF y
<1>16. RowOf(jobs * q + o) = <<g + r, h>>
  <2>1. GroupBatch(g) = gb
    BY DEF gb
  <2> QED
    BY <1>6, <1>7, <1>14, <1>15, <2>1
<1>17. /\ o \in 0 .. jobs - 1
       /\ TaskAt(q, h, r) \in 0 .. Tasks - 1
       /\ RowOf(TaskAt(q, h, r)) = <<g + r, h>>
  BY <1>5, <1>12, <1>13, <1>16
<1> QED
  BY <1>17 DEF o, jobs, g

\* Every task is that of a row.
LEMMA RowOfTask ==
    ASSUME shape \in Shapes, NEW t \in 0 .. Tasks - 1
    PROVE  \E q \in Nat, r \in 0 .. shape.G - 1, h \in 0 .. shape.n - 1 :
              shape.G * q + r < shape.B /\ t = TaskAt(q, h, r)
<1> DEFINE jobs == shape.G * shape.n
           q == t \div jobs
           o == t % jobs
           g == shape.G * q
           gb == GroupBatch(g)
           h == o \div gb
           r == o % gb
<1>1. /\ shape.G \in Nat \ {0} /\ shape.B \in Nat \ {0} /\ shape.n \in Nat \ {0}
      /\ Tasks = shape.n * shape.B /\ Tasks \in Nat
  BY ShapeFacts
<1>2. jobs \in Nat \ {0} /\ jobs = shape.n * shape.G
  BY <1>1, Quotients
<1>3. t \in Nat /\ t < Tasks
  BY <1>1
<1>4. q \in Nat /\ o \in 0 .. jobs - 1 /\ t = jobs * q + o
  BY <1>2, <1>3, DivMod
<1> HIDE DEF q, o
<1>5. g \in Nat /\ jobs * q = shape.n * g /\ jobs * q \in Nat /\ shape.n * g \in Nat
      /\ shape.n * shape.B \in Nat
  BY <1>1, <1>4, TimesGrows
<1> HIDE DEF jobs
<1>6. g < shape.B
  <2>1. shape.n * g < shape.n * shape.B
    <3> DEFINE x == shape.n * g    w == shape.n * shape.B
    <3>1. x \in Nat /\ w \in Nat /\ t = x + o /\ t < w
      BY <1>1, <1>3, <1>4, <1>5
    <3> HIDE DEF x, w
    <3>2. x < w
      BY <1>2, <1>4, <3>1
    <3> QED
      BY <3>2 DEF x, w
  <2> HIDE DEF g
  <2> QED
    BY <1>1, <1>5, <2>1, TimesGrows
<1>7. /\ gb \in Nat \ {0} /\ gb <= shape.G /\ g + gb <= shape.B
      /\ gb = shape.G \/ gb = shape.B - g
  BY <1>4, <1>6, GroupFacts
<1>8. InChunk(q, h, r) = gb * h + r /\ TaskAt(q, h, r) = jobs * q + InChunk(q, h, r)
  BY Zenon DEF InChunk, TaskAt, gb, g, jobs
<1> HIDE DEF gb
<1>9. h \in Nat /\ r \in 0 .. gb - 1 /\ o = gb * h + r
  <2>1. o \in Nat
    BY <1>2, <1>4
  <2>2. o \div gb \in Nat /\ o % gb \in 0 .. gb - 1 /\ o = gb * (o \div gb) + (o % gb)
    BY <1>7, <2>1, DivMod
  <2> QED
    BY <2>2
<1> HIDE DEF h, r
<1>10. o < gb * shape.n
  <2>1. CASE gb = shape.G
    BY <1>1, <1>2, <1>4, <2>1
  <2>2. CASE gb = shape.B - g
    <3> DEFINE x == shape.n * g    w == shape.n * shape.B    z == gb * shape.n
    <3> HIDE DEF g
    <3>1. shape.n * (shape.B - g) = shape.n * shape.B - shape.n * g
      BY <1>1, <1>5
    <3>2. shape.n * gb = gb * shape.n
      BY <1>1, <1>7
    <3>3. x \in Nat /\ w \in Nat /\ t = x + o /\ t < w /\ z = w - x
      BY <1>1, <1>3, <1>4, <1>5, <2>2, <3>1, <3>2
    <3> HIDE DEF x, w, z
    <3>4. o < z
      BY <1>2, <1>4, <3>3
    <3> QED
      BY <3>4 DEF z
  <2> QED
    BY <1>7, <2>1, <2>2
<1>11. h < shape.n
  <2>1. gb * h \in Nat /\ gb * shape.n \in Nat
    BY <1>1, <1>7, <1>9, TimesGrows
  <2> DEFINE y == gb * h    z == gb * shape.n
  <2>2. y \in Nat /\ z \in Nat /\ y + r < z
    BY <1>9, <1>10, <2>1
  <2> HIDE DEF y, z
  <2>3. y < z
    BY <1>7, <1>9, <2>2
  <2>4. gb * h < gb * shape.n
    BY <2>3 DEF y, z
  <2> QED
    BY <1>1, <1>7, <1>9, <2>4, TimesGrows
<1>12. /\ h \in 0 .. shape.n - 1 /\ r \in 0 .. shape.G - 1 /\ g + r < shape.B
  <2> HIDE DEF g
  <2> QED
    BY <1>1, <1>5, <1>7, <1>9, <1>11
<1>13. t = TaskAt(q, h, r)
  BY <1>4, <1>8, <1>9
<1> QED
  BY <1>4, <1>12, <1>13

\* So tasks and rows are in one-to-one correspondence.
LEMMA RowsAreTasks ==
    ASSUME shape \in Shapes
    PROVE  /\ \A t \in 0 .. Tasks - 1 : RowOf(t) \in AllRows
           /\ \A t, u \in 0 .. Tasks - 1 : RowOf(t) = RowOf(u) => t = u
<1>1. shape.G \in Nat \ {0} /\ shape.B \in Nat \ {0} /\ shape.n \in Nat \ {0}
  BY ShapeFacts
<1> DEFINE Back(p) == TaskAt(p[1] \div shape.G, p[2], p[1] % shape.G)
<1>2. ASSUME NEW t \in 0 .. Tasks - 1
      PROVE  RowOf(t) \in AllRows /\ t = Back(RowOf(t))
  <2>1. PICK q \in Nat, r \in 0 .. shape.G - 1, h \in 0 .. shape.n - 1 :
           shape.G * q + r < shape.B /\ t = TaskAt(q, h, r)
    BY RowOfTask
  <2>2. RowOf(t) = <<shape.G * q + r, h>>
    BY <2>1, TaskOfRow
  <2> DEFINE b == shape.G * q + r
  <2>3. b \in Nat /\ b \div shape.G = q /\ b % shape.G = r
    BY <1>1, DivIs
  <2>4. b < shape.B
    BY <2>1
  <2> HIDE DEF b
  <2>5. RowOf(t) = <<b, h>>
    BY <2>2 DEF b
  <2>6. b \in 0 .. shape.B - 1
    BY <1>1, <2>3, <2>4
  <2> QED
    BY <2>1, <2>3, <2>5, <2>6 DEF AllRows
<1> HIDE DEF Back
<1> QED
  BY <1>2

-----------------------------------------------------------------------------
\* The chunks take all tasks, and the last one is as long as the others
\* wherever a short one is not allowed for.
LEMMA ChunksCover ==
    ASSUME shape \in Shapes
    PROVE  /\ ChunkTasks * (Chunks - 1) < Tasks /\ Tasks <= ChunkTasks * Chunks
           /\ shape.kind = "rows" /\ ~ shape.ragged => Tasks = ChunkTasks * Chunks
           /\ shape.kind \in {"heads", "delayed"} => Tasks = ChunkTasks * Chunks
<1> DEFINE G == shape.G    n == shape.n    B == shape.B
<1>1. /\ B \in Nat \ {0} /\ n \in Nat \ {0} /\ G \in Nat \ {0}
      /\ shape.kind = "rows" => shape.ragged \/ B % G = 0
      /\ shape.kind = "delayed" => B % G = 0
      /\ Tasks = n * B
  BY ShapeFacts
<1>2. CASE shape.kind = "heads"
  <2>1. ChunkTasks = B /\ Chunks = n
    BY <1>2 DEF ChunkTasks, Chunks
  <2>2. B * (n - 1) = B * n - B /\ B * n = n * B /\ B * n \in Nat
    BY <1>1
  <2> QED
    BY <1>1, <1>2, <2>1, <2>2
<1>3. CASE shape.kind # "heads"
  <2> DEFINE C == Ceiling(B, G)
  <2>1. ChunkTasks = G * n /\ Chunks = C
    BY <1>3 DEF ChunkTasks, Chunks
  <2>2. C \in Nat \ {0} /\ G * (C - 1) < B /\ B <= G * C
    BY <1>1, CeilIs
  <2>3. B % G = 0 => B = G * C
    <3> DEFINE k == B \div G
    <3> HAVE B % G = 0
    <3>1. k \in Nat /\ B = G * k
      <4>1. B \in Nat /\ G \in Nat \ {0}
        BY <1>1
      <4>2. k \in Nat /\ B = G * k + (B % G)
        BY <4>1, DivMod
      <4> HIDE DEF k
      <4>3. G * k \in Nat
        BY <4>1, <4>2
      <4> QED
        BY <4>2, <4>3
    <3>2. B \in Nat \ {0} /\ G \in Nat \ {0}
      BY <1>1
    <3> HIDE DEF k, B, G, C
    <3>3. k \in Nat \ {0}
      BY <3>1, <3>2
    <3>4. G * (k - 1) = G * k - G
      BY <3>2, <3>3
    <3>5. G * (k - 1) < B /\ B <= G * k
      BY <3>1, <3>2, <3>4
    <3>6. C = k
      BY <3>2, <3>3, <3>5, CeilIs DEF C
    <3> QED
      BY <3>1, <3>6
  <2> HIDE DEF G, n, B, C
  <2> DEFINE x == G * (C - 1)    y == G * C
  <2>4. x \in Nat /\ y \in Nat
    BY <1>1, <2>2, TimesGrows
  <2>5. (G * n) * (C - 1) = n * x /\ (G * n) * C = n * y
    BY <1>1, <2>2
  <2>6. n * x + n <= n * B /\ n * B <= n * y
    <3> HIDE DEF x, y
    <3>1. x < B /\ B <= y
      BY <2>2 DEF x, y
    <3> QED
      BY <1>1, <2>4, <3>1, TimesGrows
  <2>7. n * x \in Nat /\ n * B \in Nat
    BY <1>1, <2>4, TimesGrows
  <2>8. B % G = 0 => n * B = n * y
    BY <2>3
  <2> HIDE DEF x, y
  <2>9. (G * n) * (C - 1) < n * B /\ n * B <= (G * n) * C
        /\ (B % G = 0 => n * B = (G * n) * C)
    BY <1>1, <2>5, <2>6, <2>7, <2>8
  <2> QED
    BY <1>1, <1>3, <2>1, <2>9
<1> QED
  BY <1>2, <1>3

\* The rows of a chunk are there, and of tasks before the next chunk.
LEMMA ChunkHolds ==
    ASSUME shape \in Shapes, NEW k \in 0 .. Chunks - 1
    PROVE  /\ ChunkRows(k) # {}
           /\ \A p \in ChunkRows(k) : \E t \in 0 .. Tasks - 1 :
                 RowOf(t) = p /\ t < ChunkTasks * (k + 1)
<1>1. /\ shape.B \in Nat \ {0} /\ shape.n \in Nat \ {0} /\ shape.G \in Nat \ {0}
      /\ shape.kind = "heads" => shape.G = shape.B
      /\ Chunks \in Nat /\ k \in Nat
  BY ShapeFacts
<1>2. CASE shape.kind = "heads"
  <2>1. ChunkRows(k) = (0 .. shape.B - 1) \X {k} /\ ChunkTasks = shape.B /\ Chunks = shape.n
    BY <1>2 DEF ChunkRows, ChunkTasks, Chunks
  <2>2. <<0, k>> \in ChunkRows(k)
    BY <1>1, <2>1
  <2>3. ASSUME NEW p \in ChunkRows(k)
        PROVE  \E t \in 0 .. Tasks - 1 : RowOf(t) = p /\ t < ChunkTasks * (k + 1)
    <3>1. PICK b \in 0 .. shape.B - 1 : p = <<b, k>>
      BY <2>1
    <3>2. k \in 0 .. shape.n - 1 /\ b \in 0 .. shape.G - 1 /\ b \in Nat
          /\ shape.G * 0 + b = b /\ shape.G * 0 = 0 /\ b < shape.B
      BY <1>1, <1>2, <2>1
    <3>3. GroupBatch(0) = shape.B
      BY <1>1, <1>2 DEF GroupBatch, Least
    <3>4. TaskAt(0, k, b) \in 0 .. Tasks - 1 /\ RowOf(TaskAt(0, k, b)) = p
      BY <3>1, <3>2, TaskOfRow
    <3>5. TaskAt(0, k, b) = shape.B * k + b
      <4>1. /\ TaskAt(0, k, b) = (shape.G * shape.n) * 0 + InChunk(0, k, b)
            /\ InChunk(0, k, b) = GroupBatch(shape.G * 0) * k + b
        BY Zenon DEF TaskAt, InChunk
      <4>2. InChunk(0, k, b) = shape.B * k + b
        BY <3>2, <3>3, <4>1
      <4>3. shape.B * k + b \in Nat
        BY <1>1, <3>2, TimesGrows
      <4>4. (shape.G * shape.n) * 0 = 0
        BY <1>1
      <4> QED
        BY <4>1, <4>2, <4>3, <4>4
    <3>6. shape.B * (k + 1) = shape.B * k + shape.B /\ shape.B * k \in Nat
      BY <1>1
    <3>7. shape.B * k + b < shape.B * (k + 1)
      BY <1>1, <3>2, <3>6
    <3> QED
      BY <2>1, <3>4, <3>5, <3>7
  <2> QED
    BY <2>2, <2>3
<1>3. CASE shape.kind # "heads"
  <2>1. /\ ChunkRows(k) = (k * shape.G .. Least((k + 1) * shape.G, shape.B) - 1)
                             \X (0 .. shape.n - 1)
        /\ ChunkTasks = shape.G * shape.n /\ Chunks = Ceiling(shape.B, shape.G)
    BY <1>3 DEF ChunkRows, ChunkTasks, Chunks
  <2>2. /\ k * shape.G = shape.G * k /\ shape.G * k \in Nat
        /\ (k + 1) * shape.G = shape.G * k + shape.G
    BY <1>1
  <2>3. shape.G * k < shape.B
    <3>1. shape.G * (Chunks - 1) < shape.B
      BY <1>1, <2>1, CeilIs
    <3>2. k <= Chunks - 1 /\ Chunks - 1 \in Nat
      BY <1>1
    <3>3. shape.G * k <= shape.G * (Chunks - 1) /\ shape.G * (Chunks - 1) \in Nat
      BY <1>1, <3>2, TimesGrows
    <3> QED
      BY <1>1, <2>2, <3>1, <3>3
  <2> DEFINE g == shape.G * k
  <2>4. /\ ChunkRows(k) = (g .. Least(g + shape.G, shape.B) - 1) \X (0 .. shape.n - 1)
        /\ g \in Nat /\ g < shape.B
    BY <2>1, <2>2, <2>3
  <2>5. <<g, 0>> \in ChunkRows(k)
    <3> HIDE DEF g
    <3> QED
      BY <1>1, <2>4 DEF Least
  <2>6. ASSUME NEW p \in ChunkRows(k)
        PROVE  \E t \in 0 .. Tasks - 1 : RowOf(t) = p /\ t < ChunkTasks * (k + 1)
    <3>1. PICK b \in g .. Least(g + shape.G, shape.B) - 1, h \in 0 .. shape.n - 1 :
             p = <<b, h>>
      BY <2>4
    <3> DEFINE r == b - g    t == TaskAt(k, h, r)    o == InChunk(k, h, r)
    <3>2. r \in 0 .. shape.G - 1 /\ g + r = b /\ b < shape.B
      <4> HIDE DEF g
      <4> QED
        BY <1>1, <2>4, <3>1 DEF Least
    <3> HIDE DEF r
    <3>3. o \in 0 .. shape.G * shape.n - 1 /\ t \in 0 .. Tasks - 1 /\ RowOf(t) = <<g + r, h>>
      BY <1>1, <3>2, TaskOfRow
    <3>4. t = ChunkTasks * k + o
      BY <2>1, Zenon DEF TaskAt
    <3>5. ChunkTasks \in Nat \ {0} /\ ChunkTasks * (k + 1) = ChunkTasks * k + ChunkTasks
          /\ ChunkTasks * k \in Nat
      <4>1. ChunkTasks \in Nat \ {0}
        BY ShapeFacts
      <4> QED
        BY <1>1, <4>1
    <3>6. o \in 0 .. ChunkTasks - 1
      BY <2>1, <3>3
    <3> HIDE DEF o, t
    <3>7. t < ChunkTasks * (k + 1)
      BY <3>4, <3>5, <3>6
    <3> QED
      BY <3>1, <3>2, <3>3, <3>7
  <2> QED
    BY <2>5, <2>6
<1> QED
  BY <1>2, <1>3
-----------------------------------------------------------------------------
\* The tasks of a slot, over all lanes.
SlotTasks == IF shape.kind = "delayed" THEN ChunkTasks ELSE shape.lanes

\* The slots take all tasks, too.
LEMMA SlotsCover ==
    ASSUME shape \in Shapes
    PROVE  /\ SlotTasks \in Nat \ {0}
           /\ SlotTasks * (Slots - 1) < Tasks /\ Tasks <= SlotTasks * Slots
           /\ shape.kind = "delayed" => Tasks = SlotTasks * Slots /\ Slots = Chunks
           /\ shape.kind = "compact" => SlotTasks = ChunkTasks /\ Slots = Chunks
<1>1. /\ shape.lanes \in Nat \ {0} /\ Tasks \in Nat \ {0} /\ ChunkTasks \in Nat \ {0}
      /\ Chunks \in Nat \ {0}
      /\ shape.kind = "compact" => shape.lanes = shape.G * shape.n
  BY ShapeFacts
<1>2. CASE shape.kind = "delayed"
  BY <1>1, <1>2, ChunksCover DEF SlotTasks, Slots
<1>3. CASE shape.kind # "delayed"
  <2>1. SlotTasks = shape.lanes /\ Slots = Ceiling(Tasks, shape.lanes)
    BY <1>3 DEF SlotTasks, Slots
  <2>2. SlotTasks * (Slots - 1) < Tasks /\ Tasks <= SlotTasks * Slots
    BY <1>1, <2>1, CeilIs
  <2>3. ASSUME shape.kind = "compact" PROVE SlotTasks = ChunkTasks /\ Slots = Chunks
    <3>1. SlotTasks = ChunkTasks
      BY <1>1, <2>1, <2>3 DEF ChunkTasks
    <3>2. Ceiling(Tasks, ChunkTasks) = Chunks
      BY <1>1, ChunksCover, CeilIs
    <3> QED
      BY <2>1, <3>1, <3>2
  <2> QED
    BY <1>1, <1>3, <2>1, <2>2, <2>3
<1> QED
  BY <1>2, <1>3

\* A lane's tasks of a slot are tasks, and no other slot or lane has them.
LEMMA TasksOfIs ==
    ASSUME shape \in Shapes, NEW s \in 0 .. Slots - 1, NEW l \in Lanes, NEW t \in TasksOf(s, l)
    PROVE  /\ t \in 0 .. Tasks - 1
           /\ s = t \div SlotTasks /\ l = (t % SlotTasks) % shape.lanes
<1>1. /\ shape.lanes \in Nat \ {0} /\ Tasks \in Nat \ {0} /\ SlotTasks \in Nat \ {0}
      /\ Slots \in Nat \ {0} /\ s \in Nat /\ shape.cores \in Nat
  BY ShapeFacts, SlotsCover
<1>2. l \in Nat
  BY <1>1 DEF Lanes
<1>3. CASE shape.kind = "delayed"
  <2>1. PICK i \in 0 .. SlotTasks - 1 : t = s * SlotTasks + i /\ i % shape.lanes = l
    BY <1>3 DEF TasksOf, SlotTasks
  <2>2. s * SlotTasks = SlotTasks * s /\ SlotTasks * s \in Nat
    BY <1>1
  <2>3. t = SlotTasks * s + i /\ t \in Nat
    BY <1>1, <2>1, <2>2
  <2>4. t \div SlotTasks = s /\ t % SlotTasks = i
    BY <1>1, <2>3, DivIs
  <2>5. SlotTasks * s + SlotTasks <= SlotTasks * Slots /\ Tasks = SlotTasks * Slots
    BY <1>1, <1>3, SlotsCover, TimesGrows
  <2>6. t < Tasks
    BY <1>1, <2>1, <2>2, <2>3, <2>5
  <2> QED
    BY <1>1, <2>1, <2>3, <2>4, <2>6
<1>4. CASE shape.kind # "delayed"
  <2>1. t = s * shape.lanes + l /\ l < shape.lanes /\ t < Tasks /\ SlotTasks = shape.lanes
    BY <1>4 DEF TasksOf, SlotTasks
  <2>2. s * shape.lanes = shape.lanes * s /\ shape.lanes * s \in Nat
    BY <1>1
  <2>3. l \in 0 .. shape.lanes - 1
    BY <1>1, <1>2, <2>1
  <2>4. t = shape.lanes * s + l /\ t \in Nat
    BY <1>1, <2>1, <2>2, <2>3
  <2>5. t \div shape.lanes = s /\ t % shape.lanes = l
    BY <1>1, <2>3, <2>4, DivIs
  <2>6. l % shape.lanes = l
    BY <1>1, <2>3
  <2> QED
    BY <1>1, <2>1, <2>4, <2>5, <2>6
<1> QED
  BY <1>3, <1>4

\* Every task is some lane's in some slot, the slot of its number.
LEMMA TaskServed ==
    ASSUME shape \in Shapes, NEW t \in 0 .. Tasks - 1
    PROVE  \E s \in 0 .. Slots - 1, l \in Lanes : t \in TasksOf(s, l) /\ SlotTasks * s <= t
<1> DEFINE s == t \div SlotTasks    i == t % SlotTasks    l == i % shape.lanes
<1>1. /\ shape.lanes \in Nat \ {0} /\ Tasks \in Nat \ {0} /\ SlotTasks \in Nat \ {0}
      /\ Slots \in Nat \ {0} /\ shape.cores \in Nat \ {0} /\ shape.lanes <= 2 * shape.cores
      /\ t \in Nat /\ t < Tasks
  BY ShapeFacts, SlotsCover
<1>2. s \in Nat /\ i \in 0 .. SlotTasks - 1 /\ t = SlotTasks * s + i
  BY <1>1, DivMod
<1> HIDE DEF s, i
<1>3. l \in 0 .. shape.lanes - 1
  <2>1. i \in Nat
    BY <1>1, <1>2
  <2> QED
    BY <1>1, <2>1, DivMod
<1>4. l \in Lanes
  <2> HIDE DEF l
  <2> QED
    BY <1>1, <1>3 DEF Lanes
<1>5. SlotTasks * s \in Nat /\ SlotTasks * Slots \in Nat /\ SlotTasks * s <= t
  <2>1. SlotTasks * s \in Nat /\ SlotTasks * Slots \in Nat
    BY <1>1, <1>2, TimesGrows
  <2> QED
    BY <1>1, <1>2, <2>1
<1>6. s < Slots
  <2>1. Tasks <= SlotTasks * Slots
    BY SlotsCover
  <2>2. SlotTasks * s < SlotTasks * Slots
    BY <1>1, <1>5, <2>1
  <2> QED
    BY <1>1, <1>2, <2>2, TimesGrows
<1>7. s * SlotTasks = SlotTasks * s
  BY <1>1, <1>2
<1>8. t \in TasksOf(s, l)
  <2>1. CASE shape.kind = "delayed"
    <3>1. SlotTasks = ChunkTasks
      BY <2>1 DEF SlotTasks
    <3> QED
      BY <1>2, <1>7, <2>1, <3>1 DEF TasksOf
  <2>2. CASE shape.kind # "delayed"
    <3>1. SlotTasks = shape.lanes
      BY <2>2 DEF SlotTasks
    <3>2. l = i
      <4>1. i \in 0 .. shape.lanes - 1
        BY <1>2, <3>1
      <4>2. (shape.lanes * 0 + i) % shape.lanes = i /\ shape.lanes * 0 + i = i
        BY <1>1, <4>1, DivIs
      <4> QED
        BY <4>2
    <3> HIDE DEF l
    <3> QED
      BY <1>1, <1>2, <1>3, <1>7, <2>2, <3>1, <3>2 DEF TasksOf
  <2> QED
    BY <2>1, <2>2
<1> HIDE DEF l
<1> QED
  BY <1>1, <1>2, <1>4, <1>5, <1>6, <1>8

\* The chunks a cube finds published follow each other from slot to slot and
\* are all, and those after a slot are within its tasks.
LEMMA ReadyFacts ==
    ASSUME shape \in Shapes, NEW s \in 0 .. Slots - 1
    PROVE  /\ ReadyBefore(s) \in Nat /\ ReadyAfter(s) \in Nat
           /\ ReadyBefore(0) = 0
           /\ ReadyBefore(s) <= ReadyAfter(s) /\ ReadyAfter(s) <= Chunks
           /\ s + 1 < Slots => /\ ReadyAfter(s) = ReadyBefore(s + 1)
                               /\ ChunkTasks * ReadyAfter(s) <= SlotTasks * (s + 1)
           /\ s + 1 = Slots => ReadyAfter(s) = Chunks
<1>1. /\ shape.lanes \in Nat \ {0} /\ Tasks \in Nat \ {0} /\ ChunkTasks \in Nat \ {0}
      /\ Slots \in Nat \ {0} /\ Chunks \in Nat \ {0} /\ s \in Nat /\ s + 1 \in Nat
      /\ s < Slots
      /\ shape.kind \in {"rows", "heads", "compact", "delayed"}
  BY ShapeFacts
<1>2. CASE shape.kind \in {"compact", "delayed"}
  <2>1. /\ ReadyBefore(s) = s /\ ReadyBefore(0) = 0 /\ ReadyBefore(s + 1) = s + 1
        /\ ReadyAfter(s) = s + 1
    BY <1>2 DEF ReadyBefore, ReadyAfter
  <2>2. SlotTasks = ChunkTasks /\ Slots = Chunks
    BY <1>2, SlotsCover DEF SlotTasks
  <2>3. SlotTasks * (s + 1) \in Nat
    BY <1>1, <2>2, TimesGrows
  <2> QED
    BY <1>1, <2>1, <2>2, <2>3
<1>3. CASE shape.kind \in {"rows", "heads"}
  <2> DEFINE L == shape.lanes    K == ChunkTasks
             x == L * s          y == L * (s + 1)    a == Least(y, Tasks)
  <2>1. SlotTasks = L
    BY <1>3 DEF SlotTasks
  <2>2. x \in Nat /\ y \in Nat /\ x + L <= y
    BY <1>1, TimesGrows
  <2>3. s * L = x /\ (s + 1) * L = y /\ 0 * L = 0
    BY <1>1
  <2>4. /\ ReadyBefore(s) = x \div K /\ ReadyBefore(0) = 0 \div K
        /\ ReadyBefore(s + 1) = y \div K
        /\ ReadyAfter(s) = IF shape.ragged /\ a = Tasks THEN Ceiling(a, K) ELSE a \div K
    BY <1>3, <2>3 DEF ReadyBefore, ReadyAfter
  <2>5. L * (Slots - 1) < Tasks /\ Tasks <= L * Slots
    BY <2>1, SlotsCover
  <2>6. /\ K * (Chunks - 1) < Tasks /\ Tasks <= K * Chunks
        /\ ~ shape.ragged => Tasks = K * Chunks
    BY <1>3, ChunksCover
  <2>7. x < Tasks
    <3>1. s <= Slots - 1 /\ Slots - 1 \in Nat
      BY <1>1
    <3>2. L * s <= L * (Slots - 1) /\ L * (Slots - 1) \in Nat
      BY <1>1, <3>1, TimesGrows
    <3> QED
      BY <1>1, <2>2, <2>5, <3>2
  <2>8. s + 1 < Slots => y < Tasks
    <3> HAVE s + 1 < Slots
    <3>1. s + 1 <= Slots - 1 /\ Slots - 1 \in Nat
      BY <1>1
    <3>2. L * (s + 1) <= L * (Slots - 1) /\ L * (Slots - 1) \in Nat
      BY <1>1, <3>1, TimesGrows
    <3> QED
      BY <1>1, <2>2, <2>5, <3>2
  <2>9. s + 1 = Slots => a = Tasks
    BY <1>1, <2>2, <2>5 DEF Least
  <2>10. a \in Nat /\ x <= a /\ a <= Tasks /\ a <= y /\ (s + 1 < Slots => a = y /\ a # Tasks)
    <3> HIDE DEF x, y
    <3> QED
      BY <1>1, <2>2, <2>7, <2>8 DEF Least
  <2> HIDE DEF K, L, x, y, a
  <2>11. K \in Nat \ {0} /\ K * Chunks \in Nat
    BY <1>1, TimesGrows DEF K
  <2>12. /\ x \div K \in Nat /\ K * (x \div K) <= x /\ x < K * (x \div K) + K
         /\ K * (x \div K) \in Nat
    <3> DEFINE u == x \div K   v == x % K
    <3>1. u \in Nat /\ v \in 0 .. K - 1 /\ x = K * u + v
      BY <2>2, <2>11, DivMod
    <3> HIDE DEF u, v
    <3>2. K * u \in Nat
      BY <2>11, <3>1, TimesGrows
    <3>3. u \in Nat /\ K * u <= x /\ x < K * u + K /\ K * u \in Nat
      BY <2>2, <2>11, <3>1, <3>2
    <3> QED
      BY <3>3 DEF u
  <2>13. /\ a \div K \in Nat /\ K * (a \div K) <= a /\ a < K * (a \div K) + K
         /\ K * (a \div K) \in Nat
    <3> DEFINE u == a \div K   v == a % K
    <3>1. u \in Nat /\ v \in 0 .. K - 1 /\ a = K * u + v
      BY <2>10, <2>11, DivMod
    <3> HIDE DEF u, v
    <3>2. K * u \in Nat
      BY <2>11, <3>1, TimesGrows
    <3>3. u \in Nat /\ K * u <= a /\ a < K * u + K /\ K * u \in Nat
      BY <2>10, <2>11, <3>1, <3>2
    <3> QED
      BY <3>3 DEF u
  <2>14. 0 \div K = 0
    <3>1. (K * 0 + 0) \div K = 0 /\ K * 0 + 0 = 0
      BY <2>11, DivIs
    <3> QED
      BY <3>1
  <2>15. ReadyBefore(s) \in Nat /\ ReadyBefore(0) = 0
    BY <2>4, <2>12, <2>14
  <2>16. ReadyBefore(s) <= Chunks
    <3>1. K * (x \div K) <= K * Chunks
      BY <1>1, <2>2, <2>6, <2>7, <2>11, <2>12
    <3>2. CASE K * (x \div K) = K * Chunks
      <4>1. FALSE
        BY <1>1, <2>2, <2>6, <2>7, <2>11, <2>12, <3>2
      <4> QED
        BY <4>1
    <3>3. CASE K * (x \div K) < K * Chunks
      <4>1. x \div K < Chunks
        BY <1>1, <2>11, <2>12, <3>3, TimesGrows
      <4> QED
        BY <1>1, <2>4, <2>12, <4>1
    <3> QED
      BY <2>11, <2>12, <3>1, <3>2, <3>3
  <2>17. CASE s + 1 = Slots
    <3>1. a = Tasks
      BY <2>9, <2>17
    <3>2. CASE shape.ragged
      <4>1. Ceiling(Tasks, K) = Chunks
        <5>1. /\ Tasks \in Nat \ {0} /\ K \in Nat \ {0} /\ Chunks \in Nat \ {0}
              /\ K * (Chunks - 1) < Tasks /\ Tasks <= K * Chunks
          BY <1>1, <2>6, <2>11
        <5> QED
          BY <5>1, CeilIs
      <4>2. Ceiling(a, K) = Chunks
        BY <3>1, <4>1
      <4> QED
        BY <1>1, <2>4, <2>15, <2>16, <2>17, <3>1, <3>2, <4>2
    <3>3. CASE ~ shape.ragged
      <4>1. Tasks = K * Chunks
        BY <2>6, <3>3
      <4>2. (K * Chunks + 0) \div K = Chunks /\ K * Chunks + 0 = K * Chunks
        BY <1>1, <2>11, DivIs
      <4>3. a \div K = Chunks
        BY <3>1, <4>1, <4>2
      <4> QED
        BY <1>1, <2>4, <2>15, <2>16, <2>17, <3>3, <4>3
    <3> QED
      BY <3>2, <3>3
  <2>18. CASE s + 1 < Slots
    <3>1. a = y /\ a # Tasks
      BY <2>10, <2>18
    <3>2. ReadyAfter(s) = a \div K /\ ReadyAfter(s) = ReadyBefore(s + 1)
      BY <2>4, <3>1
    <3>3. ChunkTasks * ReadyAfter(s) <= SlotTasks * (s + 1)
      <4>1. K * (a \div K) <= y
        BY <2>2, <2>10, <2>13
      <4> QED
        BY <2>1, <3>2, <4>1 DEF K, y
    <3>4. a \div K < Chunks
      <4>1. K * (a \div K) < K * Chunks
        BY <1>1, <2>6, <2>10, <2>11, <2>13, <3>1
      <4> QED
        BY <1>1, <2>11, <2>13, <4>1, TimesGrows
    <3>5. x \div K <= a \div K
      <4> DEFINE u == a \div K    w == x \div K
      <4>1. /\ u \in Nat /\ w \in Nat /\ u + 1 \in Nat
            /\ K * (u + 1) = K * u + K /\ K * w \in Nat /\ K * u \in Nat
            /\ K * w <= x /\ x <= a /\ a < K * u + K
        BY <2>10, <2>11, <2>12, <2>13
      <4> HIDE DEF u, w
      <4>2. K * w < K * (u + 1)
        BY <2>2, <2>10, <2>11, <4>1
      <4>3. w < u + 1
        BY <2>11, <4>1, <4>2, TimesGrows
      <4>4. w <= u
        BY <4>1, <4>3
      <4> QED
        BY <4>4 DEF u, w
    <3> QED
      BY <1>1, <2>4, <2>13, <2>15, <2>18, <3>2, <3>3, <3>4, <3>5
  <2> QED
    BY <1>1, <2>17, <2>18
<1> QED
  BY <1>1, <1>2, <1>3

\* The tasks of a chunk that is published with a slot were all in this slot or
\* in an earlier one.
LEMMA PublishedTask ==
    ASSUME shape \in Shapes, NEW s \in 0 .. Slots - 1, NEW k \in Nat, k < ReadyAfter(s),
           NEW t \in 0 .. Tasks - 1, t < ChunkTasks * (k + 1)
    PROVE  \E x \in 0 .. s, l \in Lanes : t \in TasksOf(x, l)
<1>1. /\ SlotTasks \in Nat \ {0} /\ ChunkTasks \in Nat \ {0} /\ Slots \in Nat
      /\ Tasks \in Nat /\ ReadyAfter(s) \in Nat
      /\ s + 1 < Slots => ChunkTasks * ReadyAfter(s) <= SlotTasks * (s + 1)
  BY ShapeFacts, SlotsCover, ReadyFacts
<1>2. PICK x \in 0 .. Slots - 1, l \in Lanes : t \in TasksOf(x, l) /\ SlotTasks * x <= t
  BY TaskServed
<1>3. x <= s
  <2>1. CASE s + 1 < Slots
    <3>1. k + 1 <= ReadyAfter(s)
      BY <1>1
    <3>2. ChunkTasks * (k + 1) <= ChunkTasks * ReadyAfter(s)
          /\ ChunkTasks * (k + 1) \in Nat /\ ChunkTasks * ReadyAfter(s) \in Nat
      BY <1>1, <3>1, TimesGrows
    <3>3. x \in Nat /\ s + 1 \in Nat /\ SlotTasks * x \in Nat /\ SlotTasks * (s + 1) \in Nat
      BY <1>1, <1>2, TimesGrows
    <3>4. SlotTasks * x < SlotTasks * (s + 1)
      BY <1>1, <1>2, <2>1, <3>2, <3>3
    <3>5. x < s + 1
      BY <1>1, <3>3, <3>4, TimesGrows
    <3> QED
      BY <3>3, <3>5
  <2>2. CASE ~ (s + 1 < Slots)
    BY <1>1, <1>2, <2>2
  <2> QED
    BY <2>1, <2>2
<1> QED
  BY <1>1, <1>2, <1>3

\* The cubes share the gate tiles of a chunk without leaving one out.
LEMMA GateRowsCover ==
    ASSUME shape \in Shapes, shape.kind = "delayed", NEW s \in 0 .. Slots - 1,
           NEW p \in ChunkRows(s)
    PROVE  \E c \in Cubes : p \in GateRows(s, c)
<1> DEFINE parts == shape.G \div shape.zb
<1>1. /\ shape.B \in Nat \ {0} /\ shape.n \in Nat \ {0} /\ shape.G \in Nat \ {0}
      /\ shape.zb \in Nat \ {0} /\ shape.cores \in Nat \ {0} /\ shape.G % shape.zb = 0
      /\ s \in Nat
  BY ShapeFacts
<1>2. PICK b \in s * shape.G .. Least((s + 1) * shape.G, shape.B) - 1, h \in 0 .. shape.n - 1 :
         p = <<b, h>>
  BY DEF ChunkRows
<1> DEFINE g == s * shape.G    i == b - g    x == i \div shape.zb    y == i % shape.zb
           z == parts * h + x    c == z % shape.cores
<1>3. g \in Nat /\ (s + 1) * shape.G = g + shape.G
  <2>1. ASSUME NEW u \in Nat, NEW v \in Nat PROVE u * v \in Nat /\ (u + 1) * v = u * v + v
    OBVIOUS
  <2>2. shape.G \in Nat /\ s \in Nat
    BY <1>1
  <2> QED
    BY <2>1, <2>2
<1>4. b \in Nat /\ i \in 0 .. shape.G - 1 /\ b = g + i
  <2> HIDE DEF g
  <2> QED
    BY <1>1, <1>2, <1>3 DEF Least
<1> HIDE DEF i, g
<1>5. x \in Nat /\ y \in 0 .. shape.zb - 1 /\ i = shape.zb * x + y
  <2>1. i \in Nat /\ shape.zb \in Nat \ {0}
    BY <1>1, <1>4
  <2> QED
    BY <2>1, DivMod
<1>6. parts \in Nat /\ shape.G = shape.zb * parts
  <2>1. parts \in Nat /\ shape.G = shape.zb * parts + (shape.G % shape.zb)
    BY <1>1, DivMod
  <2> HIDE DEF parts
  <2>2. shape.zb * parts \in Nat
    BY <1>1, <2>1
  <2> QED
    BY <1>1, <2>1, <2>2
<1> HIDE DEF x, y, parts
<1>7. parts \in Nat \ {0} /\ x \in 0 .. parts - 1
  <2>1. parts # 0
    BY <1>1, <1>6
  <2>2. shape.zb * x \in Nat /\ shape.zb * x < shape.zb * parts
    BY <1>1, <1>4, <1>5, <1>6, TimesGrows
  <2>3. x < parts
    BY <1>1, <1>5, <1>6, <2>2, TimesGrows
  <2> QED
    BY <1>5, <1>6, <2>1, <2>3
<1>8. z \in Nat /\ z \div parts = h /\ z % parts = x
  <2>1. h \in Nat /\ parts \in Nat \ {0} /\ x \in 0 .. parts - 1
    BY <1>1, <1>7
  <2> QED
    BY <2>1, DivIs
<1>9. z \in 0 .. parts * shape.n - 1
  <2>1. parts * h + parts <= parts * shape.n /\ parts * h \in Nat /\ parts * shape.n \in Nat
    BY <1>1, <1>7, TimesGrows
  <2> QED
    BY <1>7, <2>1
<1> HIDE DEF z
<1>10. c \in Cubes
  <2>1. c \in 0 .. shape.cores - 1
    BY <1>1, <1>8, DivMod
  <2> QED
    BY <2>1 DEF Cubes
<1>11. b \in g + x * shape.zb .. g + x * shape.zb + shape.zb - 1
  <2>1. x * shape.zb = shape.zb * x /\ shape.zb * x \in Nat
    BY <1>1, <1>5
  <2> DEFINE w == shape.zb * x
  <2>2. w \in Nat /\ b = g + w + y
    BY <1>3, <1>4, <1>5, <2>1
  <2> HIDE DEF w
  <2>3. b \in g + w .. g + w + shape.zb - 1
    BY <1>1, <1>3, <1>5, <2>2
  <2> QED
    BY <2>1, <2>3 DEF w
<1>12. p \in (g + (z % parts) * shape.zb .. g + (z % parts) * shape.zb + shape.zb - 1)
                \X {z \div parts}
  BY <1>2, <1>8, <1>11
<1>13. p \in GateRows(s, c)
  <2> DEFINE first(v) == s * shape.G + (v % parts) * shape.zb
             mine == {v \in 0 .. parts * shape.n - 1 : v % shape.cores = c}
  <2>1. z \in mine
    BY <1>9
  <2>2. p \in (first(z) .. first(z) + shape.zb - 1) \X {z \div parts}
    BY <1>12 DEF g
  <2>3. GateRows(s, c) = UNION {(first(v) .. first(v) + shape.zb - 1) \X {v \div parts} : v \in mine}
    BY Zenon DEF GateRows, parts
  <2> HIDE DEF first, mine, c
  <2> QED
    BY <2>1, <2>2, <2>3
<1> QED
  BY <1>10, <1>13
-----------------------------------------------------------------------------
(* What the rows hold: every task is gated from its own inputs when its lane *)
(* stores it, and stays so.                                                  *)
RowsInv ==
  /\ row \in [AllRows -> {"input", "gated"}]
  /\ \A l \in Lanes : \A s \in 0 .. Slots - 1 : \A t \in TasksOf(s, l) :
        row[RowOf(t)] = IF s < Opened(l) THEN "gated" ELSE "input"

\* Inputs that a lane keeps are those of its next task, untouched.
HeldInv ==
  /\ DOMAIN held = Lanes
  /\ \A l \in Lanes :
       /\ FetchesAhead => held[l] = [t \in TasksOf(Opened(l), l) |-> "input"]
       /\ vec[l].pc = "gate" => held[l] = [t \in TasksOf(vec[l].slot, l) |-> "input"]

GatesInv ==
  IF shape.kind = "delayed"
  THEN \A c \in Cubes : \A s \in 0 .. Slots - 1 :
          s < GridArrived(c) => GateRows(s, c) \subseteq gates
  ELSE gates = AllRows

\* The chunks that a cube has multiplied.
Multiplied(c) ==
  CASE cube[c].pc = "project" -> cube[c].chunk
    [] cube[c].pc = "ended"   -> Chunks
    [] OTHER                  -> ReadyBefore(cube[c].slot)

DoneInv ==
  /\ DOMAIN done = Cubes
  /\ \A c \in Cubes :
       /\ cube[c].pc = "project" => /\ ReadyBefore(cube[c].slot) <= cube[c].chunk
                                    /\ cube[c].chunk <= ReadyAfter(cube[c].slot)
       /\ done[c] = [i \in 1 .. Multiplied(c) |-> [chunk |-> i - 1, met |-> {"gated"}]]

WholeInv == RowsInv /\ HeldInv /\ GatesInv /\ DoneInv

\* The launch decides where everything is.
LEMMA SameShape ==
    ASSUME shape' = shape
    PROVE  /\ Lanes' = Lanes /\ Cubes' = Cubes /\ Slots' = Slots /\ Chunks' = Chunks
           /\ AllRows' = AllRows /\ FetchesAhead' = FetchesAhead
           /\ \A t : RowOf(t)' = RowOf(t)
           /\ \A s : /\ ReadyBefore(s)' = ReadyBefore(s) /\ ReadyAfter(s)' = ReadyAfter(s)
                     /\ ChunkRows(s)' = ChunkRows(s)
           /\ \A s, x : TasksOf(s, x)' = TasksOf(s, x) /\ GateRows(s, x)' = GateRows(s, x)
<1>1. Lanes' = Lanes /\ Cubes' = Cubes /\ Chunks' = Chunks /\ Slots' = Slots
  BY DEF Lanes, Cubes, Slots, Chunks, Tasks, Ceiling
<1>2. AllRows' = AllRows /\ FetchesAhead' = FetchesAhead
  BY DEF AllRows, FetchesAhead
<1>3. \A t : RowOf(t)' = RowOf(t)
  BY DEF RowOf, GroupBatch, Least
<1>4. \A s : /\ ReadyBefore(s)' = ReadyBefore(s) /\ ReadyAfter(s)' = ReadyAfter(s)
             /\ ChunkRows(s)' = ChunkRows(s)
  BY DEF ReadyBefore, ReadyAfter, ChunkRows, ChunkTasks, Tasks, Ceiling, Least
<1>5. \A s, x : TasksOf(s, x)' = TasksOf(s, x)
  BY DEF TasksOf, ChunkTasks, Tasks
<1>6. \A s, x : GateRows(s, x)' = GateRows(s, x)
  BY DEF GateRows
<1> QED
  BY <1>1, <1>2, <1>3, <1>4, <1>5, <1>6

\* Where a delayed launch gates the results of a slot, their rows are those of
\* the chunk with the number of the slot.
LEMMA SlotInChunk ==
    ASSUME shape \in Shapes, shape.kind = "delayed", NEW s \in 0 .. Slots - 1,
           NEW l \in Lanes, NEW t \in TasksOf(s, l)
    PROVE  RowOf(t) \in ChunkRows(s)
<1> DEFINE jobs == shape.G * shape.n
<1>1. t \in 0 .. Tasks - 1 /\ s = t \div SlotTasks /\ SlotTasks = jobs
  BY TasksOfIs DEF SlotTasks, ChunkTasks
<1>2. PICK q \in Nat, r \in 0 .. shape.G - 1, h \in 0 .. shape.n - 1 :
         shape.G * q + r < shape.B /\ t = TaskAt(q, h, r)
  BY <1>1, RowOfTask
<1> DEFINE o == InChunk(q, h, r)
<1>3. o \in 0 .. jobs - 1 /\ RowOf(t) = <<shape.G * q + r, h>>
  BY <1>2, TaskOfRow
<1>4. t = jobs * q + o
  BY <1>2, Zenon DEF TaskAt
<1>5. jobs \in Nat \ {0} /\ shape.G \in Nat \ {0} /\ shape.B \in Nat
  BY ShapeFacts, Quotients
<1> HIDE DEF jobs, o
<1>6. (jobs * q + o) \div jobs = q
  BY <1>3, <1>5, DivIs
<1>7. s = q
  BY <1>1, <1>4, <1>6
<1>8. s * shape.G = shape.G * q /\ (s + 1) * shape.G = shape.G * q + shape.G
      /\ shape.G * q \in Nat
  <2>1. ASSUME NEW u \in Nat, NEW v \in Nat
        PROVE  u * v = v * u /\ (u + 1) * v = v * u + v /\ v * u \in Nat
    OBVIOUS
  <2> QED
    BY <1>5, <1>7, <2>1
<1> DEFINE g == shape.G * q
<1>9. ChunkRows(s) = (g .. Least(g + shape.G, shape.B) - 1) \X (0 .. shape.n - 1)
  BY <1>8 DEF ChunkRows
<1>10. g \in Nat /\ g + r < shape.B /\ RowOf(t) = <<g + r, h>>
  BY <1>2, <1>3, <1>8
<1> HIDE DEF g
<1>11. g + r \in g .. Least(g + shape.G, shape.B) - 1
  BY <1>5, <1>10 DEF Least
<1> QED
  BY <1>9, <1>10, <1>11

\* What a lane fetches, also for the slot after its last one.
LEMMA FetchIs ==
    ASSUME shape \in Shapes, NEW l \in Lanes, NEW s \in 0 .. Slots, NEW r,
           s = Slots => FetchesAhead,
           s < Slots => \A t \in TasksOf(s, l) : r[RowOf(t)] = "input"
    PROVE  Fetch(s, l, r) = [t \in TasksOf(s, l) |-> "input"]
<1>1. \A t \in TasksOf(s, l) : r[RowOf(t)] = "input"
  <2>1. Slots \in Nat \ {0}
    BY ShapeFacts
  <2>2. CASE s < Slots
    BY <2>2
  <2>3. CASE s = Slots
    <3>1. shape.kind = "rows" /\ shape.lanes \in Nat \ {0} /\ Tasks \in Nat \ {0}
      BY <2>3, ShapeFacts DEF FetchesAhead
    <3>2. SlotTasks = shape.lanes /\ Tasks <= SlotTasks * Slots
      BY <3>1, SlotsCover DEF SlotTasks
    <3>3. shape.lanes * Slots = Slots * shape.lanes /\ Slots * shape.lanes \in Nat
      BY <2>1, <3>1
    <3>4. l \in Nat
      <4>1. shape.cores \in Nat
        BY ShapeFacts
      <4> QED
        BY <4>1 DEF Lanes
    <3>5. ~ (Slots * shape.lanes + l < Tasks)
      BY <3>1, <3>2, <3>3, <3>4
    <3> QED
      BY <2>3, <3>1, <3>5 DEF TasksOf
  <2> QED
    BY <2>1, <2>2, <2>3
<1> QED
  BY <1>1 DEF Fetch

\* A lane that gates the tasks of its next slot from their own inputs touches
\* no other row, and no row was gated before.
LEMMA StoredKeeps ==
    ASSUME shape \in Shapes, shape' = shape, RowsInv,
           NEW l \in Lanes, NEW s \in 0 .. Slots - 1, s = Opened(l),
           \A t \in TasksOf(s, l) : RowOf(t) \in gates,
           row' = Stored([t \in TasksOf(s, l) |-> "input"]),
           Opened(l)' = s + 1, \A m \in Lanes \ {l} : Opened(m)' = Opened(m)
    PROVE  RowsInv'
<1> DEFINE D == TasksOf(s, l)    inputs == [t \in D |-> "input"]
<1>1. row \in [AllRows -> {"input", "gated"}]
  BY DEF RowsInv
<1>2. /\ \A t \in D : t \in 0 .. Tasks - 1
      /\ \A t \in 0 .. Tasks - 1 : RowOf(t) \in AllRows
      /\ \A t, u \in 0 .. Tasks - 1 : RowOf(t) = RowOf(u) => t = u
  BY TasksOfIs, RowsAreTasks
<1>3. /\ DOMAIN inputs = D /\ \A t \in D : inputs[t] = "input"
      /\ row' = [p \in AllRows |->
                   IF \E t \in D : RowOf(t) = p
                   THEN Gated(p, inputs[CHOOSE t \in D : RowOf(t) = p])
                   ELSE row[p]]
  <2>1. DOMAIN inputs = D /\ DOMAIN row = AllRows
    BY <1>1
  <2>2. row' = Stored(inputs)
    OBVIOUS
  <2> HIDE DEF inputs, D
  <2>3. row' = [p \in AllRows |->
                   IF \E t \in D : RowOf(t) = p
                   THEN Gated(p, inputs[CHOOSE t \in D : RowOf(t) = p])
                   ELSE row[p]]
    BY <2>1, <2>2 DEF Stored
  <2> QED
    BY <2>1, <2>3 DEF inputs
<1> HIDE DEF inputs
<1>4. ASSUME NEW t \in D PROVE row'[RowOf(t)] = "gated"
  <2> DEFINE p == RowOf(t)    u == CHOOSE x \in D : RowOf(x) = p
  <2>1. p \in AllRows /\ p \in gates
    BY <1>2
  <2>2. u \in D
    <3>1. \E x \in D : RowOf(x) = p
      OBVIOUS
    <3> QED
      BY <3>1
  <2>3. inputs[u] = "input" /\ row'[p] = Gated(p, inputs[u])
    BY <1>3, <2>1, <2>2
  <2> QED
    BY <2>1, <2>3 DEF Gated
<1>5. ASSUME NEW p \in AllRows, \A t \in D : RowOf(t) # p PROVE row'[p] = row[p]
  BY <1>3, <1>5
<1>6. row' \in [AllRows -> {"input", "gated"}]
  <2>1. ASSUME NEW p \in AllRows PROVE row'[p] \in {"input", "gated"}
    <3>1. CASE \E t \in D : RowOf(t) = p
      BY <1>4, <3>1
    <3>2. CASE ~ \E t \in D : RowOf(t) = p
      BY <1>1, <1>5, <3>2
    <3> QED
      BY <3>1, <3>2
  <2>2. row' = [p \in AllRows |-> row'[p]]
    BY <1>3
  <2> QED
    BY <2>1, <2>2
<1>7. ASSUME NEW m \in Lanes, NEW x \in 0 .. Slots - 1, NEW t \in TasksOf(x, m)
      PROVE  row'[RowOf(t)] = IF x < Opened(m)' THEN "gated" ELSE "input"
  <2>1. t \in 0 .. Tasks - 1 /\ x = t \div SlotTasks /\ m = (t % SlotTasks) % shape.lanes
    BY TasksOfIs
  <2>2. CASE t \in D
    <3>1. x = s /\ m = l
      BY <2>1, <2>2, TasksOfIs
    <3>2. s < s + 1
      OBVIOUS
    <3> QED
      BY <1>4, <2>2, <3>1, <3>2
  <2>3. CASE t \notin D
    <3>1. row'[RowOf(t)] = row[RowOf(t)]
      BY <1>2, <1>5, <2>1, <2>3
    <3>2. row[RowOf(t)] = IF x < Opened(m) THEN "gated" ELSE "input"
      BY DEF RowsInv
    <3>3. (x < Opened(m)') <=> (x < Opened(m))
      <4>1. CASE m = l
        <5>1. x # s
          BY <2>3, <4>1
        <5>2. x \in Int /\ s \in Int /\ Opened(m) = s /\ Opened(m)' = s + 1
          BY <4>1
        <5> QED
          BY <5>1, <5>2
      <4>2. CASE m # l
        BY <4>2
      <4> QED
        BY <4>1, <4>2
    <3> QED
      BY <3>1, <3>2, <3>3
  <2> QED
    BY <2>2, <2>3
<1> QED
  BY <1>6, <1>7, SameShape DEF RowsInv

\* A step that leaves the rows alone, and what lanes have gated.
LEMMA RowsStay ==
    ASSUME shape' = shape, row' = row, RowsInv, \A m \in Lanes : Opened(m)' = Opened(m)
    PROVE  RowsInv'
BY SameShape DEF RowsInv

\* A lane does not open what the cubes have not computed: the gates of the slot
\* of a delayed launch are there when its lane has been told so.
LEMMA GatesOpen ==
    ASSUME BackendInv, GatesInv, NEW l \in Lanes, shape.kind = "delayed",
           Opened(l) < Slots, told[GateFlag][l] > 0
    PROVE  ChunkRows(Opened(l)) \subseteq gates
<1> DEFINE s == Opened(l)    d == CoreOf(l)
<1>1. /\ shape \in Shapes /\ d \in Cubes /\ s \in 0 .. Slots - 1 /\ GridPassed(d) \in Nat
      /\ \A c \in Cubes : GridArrived(c) \in Nat
      /\ Slots \in Nat
  BY Progress DEF BackendInv
<1>2. PICK met \in 0 .. Slots, open \in 0 .. Slots : MeetInv(met, open)
  BY DEF BackendInv
<1>3. told[GateFlag][l] = AckUses(GateFlag, Taken(d)) - AckUses(GateFlag, Acked(l))
                            + GateUses(GateFlag, GridPassed(d)) - GateUses(GateFlag, s)
  BY DEF BackendInv, LanesInv, GateFlag, Flags
<1>4. told[GateFlag][l] = GridPassed(d) - s
  <2>1. /\ AckUses(GateFlag, Taken(d)) = 0 /\ AckUses(GateFlag, Acked(l)) = 0
        /\ GateUses(GateFlag, GridPassed(d)) = GridPassed(d) /\ GateUses(GateFlag, s) = s
    BY DEF AckUses, GateUses, AckFlag, GateFlag
  <2> HIDE DEF s, d
  <2> QED
    BY <1>1, <1>3, <2>1
<1> HIDE DEF s, d
<1>5. s < GridPassed(d)
  BY <1>1, <1>4
<1>6. ASSUME NEW c \in Cubes PROVE s < GridArrived(c)
  <2>1. GridPassed(d) <= open /\ open <= GridArrived(c)
    BY <1>1, <1>2 DEF MeetInv
  <2>2. open \in Nat /\ s \in Nat /\ GridPassed(d) \in Nat /\ GridArrived(c) \in Nat
    BY <1>1
  <2> QED
    BY <1>5, <2>1, <2>2
<1>7. \A c \in Cubes : GateRows(s, c) \subseteq gates
  BY <1>1, <1>6 DEF GatesInv
<1>8. ChunkRows(s) \subseteq gates
  BY <1>1, <1>7, GateRowsCover
<1> QED
  BY <1>8 DEF s

\* What a step of a lane does to its place, and to the rows it has gated.
LEMMA LanePlaces ==
    ASSUME BackendInv, NEW l \in Lanes, LaneStep(l)
    PROVE  /\ vec[l].slot \in 0 .. Slots - 1
           /\ \A m \in Lanes \ {l} : vec'[m] = vec[m] /\ Opened(m)' = Opened(m)
           /\ vec[l].pc \in {"run", "gate"} => Opened(l) = vec[l].slot
           /\ ~ RunRaw(l) => vec'[l].pc # "gate"
           /\ Run(l) \/ StoreGated(l) => Opened(l)' = vec[l].slot + 1
           /\ RunRaw(l) => Opened(l)' = vec[l].slot /\ vec'[l].slot = vec[l].slot
           /\ Publish(l) \/ TakeAck(l) => Opened(l)' = Opened(l)
<1>1. vec \in [Lanes -> [slot : 0 .. Slots - 1, pc : LanePcs]] /\ Slots \in Nat
  BY Progress DEF BackendInv, CountersOK
<1>2. vec[l] \in [slot : 0 .. Slots - 1, pc : LanePcs]
  BY <1>1
<1>3. vec[l].slot \in 0 .. Slots - 1
  BY <1>2
<1>4. vec[l].pc \in {"run", "gate"} => Opened(l) = vec[l].slot
  BY <1>3 DEF Opened, One
<1>5. ASSUME NEW m \in Lanes \ {l} PROVE vec'[m] = vec[m]
  BY <1>1, <1>5 DEF LaneStep, Run, RunRaw, StoreGated, Publish, TakeAck
<1>6. ASSUME NEW m \in Lanes \ {l} PROVE Opened(m)' = Opened(m)
  BY <1>5 DEF Opened
<1>7. ASSUME Run(l) \/ StoreGated(l)
      PROVE  vec'[l].pc = "publish" /\ Opened(l)' = vec[l].slot + 1
  <2>1. vec'[l] = [vec[l] EXCEPT !.pc = "publish"]
    BY <1>1, <1>7 DEF Run, StoreGated
  <2>2. vec'[l].pc = "publish" /\ vec'[l].slot = vec[l].slot
    BY <1>2, <2>1
  <2> QED
    BY <2>2 DEF Opened, One
<1>8. ASSUME RunRaw(l) PROVE Opened(l)' = vec[l].slot /\ vec'[l].slot = vec[l].slot
  <2>1. vec'[l] = [vec[l] EXCEPT !.pc = "gate"]
    BY <1>1, <1>8 DEF RunRaw
  <2>2. vec'[l].pc = "gate" /\ vec'[l].slot = vec[l].slot
    BY <1>2, <2>1
  <2> QED
    BY <1>3, <2>2 DEF Opened, One
<1>9. ASSUME Publish(l) \/ TakeAck(l)
      PROVE  vec'[l].pc # "gate" /\ Opened(l)' = Opened(l)
  <2>1. vec[l].pc \in {"publish", "ack"} /\ Opened(l) = vec[l].slot + 1
    BY <1>9 DEF Publish, TakeAck, Opened, One
  <2>2. vec'[l] = [vec[l] EXCEPT !.pc = "ack"] \/ vec'[l] = AfterSlot(vec[l])
    BY <1>1, <1>9 DEF Publish, TakeAck
  <2>3. CASE vec'[l] = [vec[l] EXCEPT !.pc = "ack"]
    <3>1. vec'[l].pc = "ack" /\ vec'[l].slot = vec[l].slot
      BY <1>2, <2>3
    <3> QED
      BY <2>1, <3>1 DEF Opened, One
  <2>4. CASE vec'[l] = AfterSlot(vec[l])
    <3>1. \/ vec'[l].pc = "run" /\ vec'[l].slot = vec[l].slot + 1
          \/ vec'[l].pc = "ended" /\ vec'[l].slot = vec[l].slot
      BY <2>4 DEF AfterSlot
    <3> QED
      BY <1>3, <2>1, <3>1 DEF Opened, One
  <2> QED
    BY <2>2, <2>3, <2>4
<1> QED
  BY <1>3, <1>4, <1>5, <1>6, <1>7, <1>8, <1>9 DEF LaneStep

\* Lanes gate every task from its own inputs.
LEMMA LaneWhole ==
    ASSUME BackendInv, WholeInv, NEW l \in Lanes, LaneStep(l)
    PROVE  WholeInv'
<1> DEFINE s == vec[l].slot    inputs == [t \in TasksOf(s, l) |-> "input"]
<1>1. /\ shape \in Shapes /\ shape' = shape /\ Slots \in Nat
      /\ UNCHANGED <<cube, gates, done>>
      /\ s \in 0 .. Slots - 1 /\ vec[l].pc \in LanePcs
  BY Progress, LanePlaces DEF BackendInv, LaneStep, Run, RunRaw, StoreGated, Publish, TakeAck
<1>2. /\ \A m \in Lanes \ {l} : vec'[m] = vec[m] /\ Opened(m)' = Opened(m)
      /\ vec[l].pc \in {"run", "gate"} => Opened(l) = s
      /\ ~ RunRaw(l) => vec'[l].pc # "gate"
      /\ Run(l) \/ StoreGated(l) => Opened(l)' = s + 1
      /\ RunRaw(l) => Opened(l)' = s /\ vec'[l].slot = s
      /\ Publish(l) \/ TakeAck(l) => Opened(l)' = Opened(l)
  BY LanePlaces
<1>3. GatesInv'
  <2>1. \A c : GridArrived(c)' = GridArrived(c)
    BY <1>1 DEF GridArrived
  <2> QED
    BY <1>1, <2>1, SameShape DEF GatesInv, WholeInv
<1>4. DoneInv'
  <2>1. \A c : Multiplied(c)' = Multiplied(c)
    BY <1>1, SameShape DEF Multiplied
  <2> QED
    BY <1>1, <2>1, SameShape DEF DoneInv, WholeInv
<1>5. ASSUME NEW x \in 0 .. Slots - 1, x = Opened(l)
      PROVE  Fetch(x, l, row) = [t \in TasksOf(x, l) |-> "input"]
  <2>1. x < Slots /\ x \in 0 .. Slots /\ ~ (x < Opened(l))
    BY <1>1, <1>5
  <2>2. \A t \in TasksOf(x, l) : row[RowOf(t)] = "input"
    BY <2>1 DEF WholeInv, RowsInv
  <2> QED
    BY <1>1, <2>1, <2>2, FetchIs
<1>6. RowsInv' /\ (Run(l) /\ FetchesAhead =>
                     held'[l] = [t \in TasksOf(s + 1, l) |-> "input"])
  <2>1. CASE Run(l)
    <3>1. /\ vec[l].pc = "run" /\ shape.kind # "delayed" /\ Opened(l) = s /\ Opened(l)' = s + 1
      BY <1>2, <2>1 DEF Run
    <3>2. row' = Stored(inputs)
      <4>1. (IF FetchesAhead THEN held[l] ELSE Fetch(s, l, row)) = inputs
        BY <1>1, <1>5, <3>1 DEF WholeInv, HeldInv
      <4> QED
        BY <2>1, <4>1 DEF Run
    <3>3. ASSUME NEW t \in TasksOf(s, l) PROVE RowOf(t) \in gates
      <4>1. gates = AllRows
        BY <3>1 DEF WholeInv, GatesInv
      <4> QED
        BY <1>1, <4>1, TasksOfIs, RowsAreTasks
    <3>4. RowsInv'
      BY <1>1, <1>2, <3>1, <3>2, <3>3, StoredKeeps DEF WholeInv
    <3>5. ASSUME FetchesAhead PROVE held'[l] = [t \in TasksOf(s + 1, l) |-> "input"]
      <4>1. held'[l] = Fetch(s + 1, l, row')
        BY <2>1, <3>5 DEF Run, WholeInv, HeldInv
      <4>2. s + 1 \in 0 .. Slots /\ (s + 1 < Slots => s + 1 \in 0 .. Slots - 1)
        BY <1>1
      <4>3. ASSUME s + 1 < Slots, NEW t \in TasksOf(s + 1, l) PROVE row'[RowOf(t)] = "input"
        <5>1. ~ (s + 1 < Opened(l)')
          BY <1>1, <3>1
        <5> QED
          BY <1>1, <3>4, <4>2, <4>3, <5>1, SameShape DEF RowsInv
      <4> HIDE DEF s
      <4> QED
        BY <1>1, <3>5, <4>1, <4>2, <4>3, FetchIs
    <3> QED
      BY <3>4, <3>5
  <2>2. CASE StoreGated(l)
    <3>1. /\ vec[l].pc = "gate" /\ Opened(l) = s /\ Opened(l)' = s + 1
          /\ row' = Stored(held[l]) /\ told[GateFlag][l] > 0
      BY <1>2, <2>2 DEF StoreGated
    <3>2. shape.kind = "delayed" /\ held[l] = inputs
      BY <1>1, <3>1 DEF LanePcs, WholeInv, HeldInv
    <3>3. ChunkRows(s) \subseteq gates
      <4>1. Opened(l) < Slots
        BY <1>1, <3>1
      <4> QED
        BY <3>1, <3>2, <4>1, GatesOpen DEF WholeInv
    <3>4. \A t \in TasksOf(s, l) : RowOf(t) \in gates
      BY <1>1, <3>2, <3>3, SlotInChunk
    <3>5. RowsInv'
      BY <1>1, <1>2, <3>1, <3>2, <3>4, StoredKeeps DEF WholeInv
    <3> QED
      BY <3>2, <3>5 DEF FetchesAhead, Run
  <2>3. CASE RunRaw(l) \/ Publish(l) \/ TakeAck(l)
    <3>1. row' = row /\ \A m \in Lanes : Opened(m)' = Opened(m)
      BY <1>2, <2>3 DEF RunRaw, Publish, TakeAck
    <3> QED
      BY <1>1, <2>3, <3>1, RowsStay DEF WholeInv, Run, RunRaw, Publish, TakeAck
  <2> QED
    BY <2>1, <2>2, <2>3 DEF LaneStep
<1>7. HeldInv'
  <2>1. DOMAIN held' = Lanes /\ \A m \in Lanes \ {l} : held'[m] = held[m]
    BY DEF WholeInv, HeldInv, LaneStep, Run, RunRaw, StoreGated, Publish, TakeAck
  <2>2. FetchesAhead => held'[l] = [t \in TasksOf(Opened(l)', l) |-> "input"]
    <3>1. CASE Run(l)
      BY <1>2, <1>6, <3>1
    <3>2. CASE Publish(l) \/ TakeAck(l)
      BY <1>2, <3>2 DEF Publish, TakeAck, WholeInv, HeldInv
    <3>3. CASE RunRaw(l) \/ StoreGated(l)
      <4>1. shape.kind = "delayed"
        BY <1>1, <3>3 DEF RunRaw, StoreGated, LanePcs
      <4> QED
        BY <4>1 DEF FetchesAhead
    <3> QED
      BY <3>1, <3>2, <3>3 DEF LaneStep
  <2>3. vec'[l].pc = "gate" => held'[l] = [t \in TasksOf(vec'[l].slot, l) |-> "input"]
    <3>1. CASE RunRaw(l)
      <4>1. held'[l] = Fetch(s, l, row) /\ Opened(l) = s
        BY <1>2, <3>1 DEF RunRaw, WholeInv, HeldInv
      <4> QED
        BY <1>1, <1>2, <1>5, <3>1, <4>1
    <3> QED
      BY <1>2, <3>1
  <2>4. ASSUME NEW m \in Lanes
        PROVE  /\ FetchesAhead => held'[m] = [t \in TasksOf(Opened(m)', m) |-> "input"]
               /\ vec'[m].pc = "gate" => held'[m] = [t \in TasksOf(vec'[m].slot, m) |-> "input"]
    <3>1. CASE m = l
      BY <2>2, <2>3, <3>1
    <3>2. CASE m # l
      <4>1. held'[m] = held[m] /\ vec'[m] = vec[m] /\ Opened(m)' = Opened(m)
        BY <1>2, <2>1, <3>2
      <4>2. /\ FetchesAhead => held[m] = [t \in TasksOf(Opened(m), m) |-> "input"]
            /\ vec[m].pc = "gate" => held[m] = [t \in TasksOf(vec[m].slot, m) |-> "input"]
        BY DEF WholeInv, HeldInv
      <4> QED
        BY <4>1, <4>2
    <3> QED
      BY <3>1, <3>2
  <2> QED
    BY <1>1, <2>1, <2>4, SameShape DEF HeldInv
<1> QED
  BY <1>3, <1>4, <1>6, <1>7 DEF WholeInv

-----------------------------------------------------------------------------
\* A cube that multiplies a chunk finds all its rows gated.
LEMMA MetGated ==
    ASSUME BackendInv, RowsInv, NEW c \in Cubes, cube[c].pc = "project",
           NEW k \in Nat, k < ReadyAfter(cube[c].slot)
    PROVE  {row[p] : p \in ChunkRows(k)} = {"gated"}
<1> DEFINE s == cube[c].slot
<1>1. /\ shape \in Shapes /\ Slots \in Nat /\ Chunks \in Nat /\ s \in 0 .. Slots - 1
      /\ ReadyAfter(s) \in Nat /\ ReadyAfter(s) <= Chunks
  <2>1. shape \in Shapes /\ s \in 0 .. Slots - 1
    BY Progress DEF BackendInv
  <2> QED
    BY <2>1, ShapeFacts, ReadyFacts
<1>2. k \in 0 .. Chunks - 1
  BY <1>1
<1>3. ASSUME NEW l \in Lanes PROVE s < Opened(l)
  <2> DEFINE d == CoreOf(l)
  <2>1. PICK met \in 0 .. Slots, open \in 0 .. Slots : MeetInv(met, open)
    BY DEF BackendInv
  <2>2. /\ d \in Cubes /\ Taken(d) \in Nat /\ Published(l) \in Nat /\ Opened(l) \in Nat
        /\ Published(l) <= Opened(l) /\ met \in Nat
    BY <1>1, Progress DEF BackendInv
  <2>3. Passed(c) <= met /\ met <= Taken(d) /\ Taken(d) <= Published(l)
    BY <2>1, <2>2 DEF MeetInv, BackendInv, LanesInv
  <2>4. Passed(c) = s + 1
    BY <1>1 DEF Passed, One
  <2> HIDE DEF d, s
  <2>5. s \in Nat
    BY <1>1
  <2> QED
    BY <2>2, <2>3, <2>4, <2>5
<1>4. ASSUME NEW p \in ChunkRows(k) PROVE row[p] = "gated"
  <2>1. PICK t \in 0 .. Tasks - 1 : RowOf(t) = p /\ t < ChunkTasks * (k + 1)
    BY <1>1, <1>2, ChunkHolds
  <2>2. PICK x \in 0 .. s, l \in Lanes : t \in TasksOf(x, l)
    BY <1>1, <2>1, PublishedTask
  <2>3. x \in 0 .. Slots - 1 /\ x <= s /\ x \in Nat /\ s \in Nat /\ Opened(l) \in Nat
    BY <1>1, <2>2, Progress DEF BackendInv
  <2>4. x < Opened(l)
    BY <1>3, <2>3
  <2> QED
    BY <2>1, <2>2, <2>3, <2>4 DEF RowsInv
<1>5. ChunkRows(k) # {}
  BY <1>1, <1>2, ChunkHolds
<1> QED
  BY <1>4, <1>5

\* A step of a cube leaves the rows to the lanes.
LEMMA CubeLeavesRows ==
    ASSUME WholeInv, NEW c \in Cubes, CubeStep(c)
    PROVE  shape' = shape /\ RowsInv' /\ HeldInv'
<1>1. UNCHANGED <<shape, vec, row, held>>
  BY DEF CubeStep, ProjectGates, OpenGates, TakeSlot, PassMeeting, Project, EndSlot
<1>2. \A l : Opened(l)' = Opened(l)
  BY <1>1 DEF Opened
<1>3. RowsInv'
  BY <1>1, <1>2, RowsStay DEF WholeInv
<1>4. HeldInv'
  BY <1>1, <1>2, SameShape DEF HeldInv, WholeInv
<1> QED
  BY <1>1, <1>3, <1>4

\* Gates that were computed stay computed, and a cube that has arrived at the
\* meeting about them has computed its own.
LEMMA CubeKeepsGates ==
    ASSUME BackendInv, WholeInv, NEW c \in Cubes, CubeStep(c)
    PROVE  GatesInv'
<1> DEFINE s == cube[c].slot
<1>1. /\ shape \in Shapes /\ shape' = shape /\ Slots \in Nat /\ s \in 0 .. Slots - 1
      /\ cube \in [Cubes -> [slot : 0 .. Slots - 1, pc : CubePcs, chunk : Int]]
      /\ cube[c] \in [slot : 0 .. Slots - 1, pc : CubePcs, chunk : Int]
      /\ cube[c].pc \in CubePcs
  BY Progress, CubeLeavesRows DEF BackendInv, CountersOK
<1>2. CASE shape.kind # "delayed"
  <2>1. ~ ProjectGates(c)
    BY <1>1, <1>2 DEF ProjectGates, CubePcs
  <2>2. gates' = gates
    BY <2>1 DEF CubeStep, OpenGates, TakeSlot, PassMeeting, Project, EndSlot
  <2> QED
    BY <1>1, <1>2, <2>2, SameShape DEF GatesInv, WholeInv
<1>3. CASE shape.kind = "delayed"
  <2>1. /\ gates \subseteq gates'
        /\ ProjectGates(c) => GateRows(s, c) \subseteq gates'
    BY DEF CubeStep, ProjectGates, OpenGates, TakeSlot, PassMeeting, Project, EndSlot
  <2>2. \A d \in Cubes \ {c} : cube'[d] = cube[d]
    BY <1>1 DEF CubeStep, ProjectGates, OpenGates, TakeSlot, PassMeeting, Project, EndSlot
  <2>3. ProjectGates(c) => GridArrived(c) = s /\ GridArrived(c)' = s + 1
    <3> HAVE ProjectGates(c)
    <3>1. cube[c].pc = "gates" /\ cube'[c] = [cube[c] EXCEPT !.pc = "meetGates"]
      BY <1>1 DEF ProjectGates
    <3>2. cube'[c].slot = s /\ cube'[c].pc = "meetGates"
      BY <1>1, <3>1
    <3> QED
      BY <1>1, <3>1, <3>2 DEF GridArrived, One
  <2>4. ~ ProjectGates(c) => GridArrived(c)' = GridArrived(c)
    <3>1. CASE OpenGates(c) \/ TakeSlot(c) \/ PassMeeting(c) \/ Project(c)
      <4>1. cube[c].pc # "gates" /\ cube'[c].pc # "gates" /\ cube'[c].slot = s
        <5>1. CASE OpenGates(c)
          BY <1>1, <5>1 DEF OpenGates
        <5>2. CASE TakeSlot(c)
          BY <1>1, <5>2 DEF TakeSlot
        <5>3. CASE PassMeeting(c)
          BY <1>1, <5>3 DEF PassMeeting
        <5>4. CASE Project(c)
          BY <1>1, <5>4 DEF Project
        <5> QED
          BY <3>1, <5>1, <5>2, <5>3, <5>4
      <4> QED
        BY <4>1 DEF GridArrived, One
    <3>2. CASE EndSlot(c)
      <4>1. cube[c].pc = "project"
        BY <3>2 DEF EndSlot
      <4>2. \/ cube'[c].slot = s + 1 /\ cube'[c].pc = "gates"
            \/ cube'[c].slot = s /\ cube'[c].pc = "ended"
        <5>1. \/ cube' = [cube EXCEPT ![c].slot = s + 1, ![c].pc = FirstPc]
              \/ cube' = [cube EXCEPT ![c].pc = "ended"]
          BY <3>2 DEF EndSlot
        <5>2. FirstPc = "gates"
          BY <1>3 DEF FirstPc
        <5> QED
          BY <1>1, <5>1, <5>2
      <4> QED
        BY <1>1, <4>1, <4>2 DEF GridArrived, One
    <3> QED
      BY <3>1, <3>2 DEF CubeStep
  <2>5. ASSUME NEW d \in Cubes, NEW x \in 0 .. Slots - 1, x < GridArrived(d)'
        PROVE  GateRows(x, d) \subseteq gates'
    <3>1. x < GridArrived(d) => GateRows(x, d) \subseteq gates
      BY <1>3 DEF WholeInv, GatesInv
    <3>2. CASE d # c \/ ~ ProjectGates(c)
      <4>1. GridArrived(d)' = GridArrived(d)
        BY <2>2, <2>4, <3>2 DEF GridArrived
      <4> QED
        BY <2>1, <2>5, <3>1, <4>1
    <3>3. CASE d = c /\ ProjectGates(c)
      <4>1. x = s \/ x < GridArrived(c)
        BY <1>1, <2>3, <2>5, <3>3
      <4> QED
        BY <2>1, <3>1, <3>3, <4>1
    <3> QED
      BY <3>2, <3>3
  <2> QED
    BY <1>1, <1>3, <2>5, SameShape DEF GatesInv
<1> QED
  BY <1>2, <1>3

\* One more chunk at the end.
LEMMA Appended ==
    ASSUME NEW k \in Nat, NEW m
    PROVE  Append([i \in 1 .. k |-> [chunk |-> i - 1, met |-> m]], [chunk |-> k, met |-> m])
             = [i \in 1 .. k + 1 |-> [chunk |-> i - 1, met |-> m]]
<1> DEFINE f == [i \in 1 .. k |-> [chunk |-> i - 1, met |-> m]]
           e == [chunk |-> k, met |-> m]
           g == [i \in 1 .. k + 1 |-> [chunk |-> i - 1, met |-> m]]
<1>1. f \in Seq([chunk : Int, met : {m}]) /\ g \in Seq([chunk : Int, met : {m}])
      /\ e \in [chunk : Int, met : {m}]
  OBVIOUS
<1>2. /\ Len(f) = k /\ Len(g) = k + 1
      /\ \A i \in 1 .. k : f[i] = [chunk |-> i - 1, met |-> m]
      /\ \A i \in 1 .. k + 1 : g[i] = [chunk |-> i - 1, met |-> m]
  OBVIOUS
<1>3. (k + 1) - 1 = k
  OBVIOUS
<1>4. e = g[k + 1]
  BY <1>2, <1>3
<1> HIDE DEF f, g, e
<1>5. Append(f, e) = g
  <2>1. /\ Append(f, e) \in Seq([chunk : Int, met : {m}]) /\ Len(Append(f, e)) = k + 1
        /\ \A i \in 1 .. k : Append(f, e)[i] = f[i]
        /\ Append(f, e)[k + 1] = e
    BY <1>1, <1>2
  <2>2. \A i \in 1 .. k + 1 : Append(f, e)[i] = g[i]
    <3> TAKE i \in 1 .. k + 1
    <3>1. CASE i = k + 1
      BY <1>4, <2>1, <3>1
    <3>2. CASE i # k + 1
      BY <1>2, <2>1, <3>2
    <3> QED
      BY <3>1, <3>2
  <2> QED
    BY <1>1, <1>2, <2>1, <2>2
<1> QED
  BY <1>5 DEF f, g, e

\* Cubes multiply the chunks in their order, with nothing left out.
LEMMA CubeKeepsDone ==
    ASSUME BackendInv, WholeInv, NEW c \in Cubes, CubeStep(c)
    PROVE  DoneInv'
<1> DEFINE s == cube[c].slot
           v == cube'[c]
           Row(k) == [i \in 1 .. k |-> [chunk |-> i - 1, met |-> {"gated"}]]
<1>1. /\ shape \in Shapes /\ shape' = shape /\ Slots \in Nat /\ s \in 0 .. Slots - 1
      /\ cube \in [Cubes -> [slot : 0 .. Slots - 1, pc : CubePcs, chunk : Int]]
      /\ cube[c] \in [slot : 0 .. Slots - 1, pc : CubePcs, chunk : Int]
      /\ cube[c].chunk \in Int
  BY Progress, CubeLeavesRows DEF BackendInv, CountersOK
<1>2. /\ ReadyBefore(s) \in Nat /\ ReadyAfter(s) \in Nat
      /\ ReadyBefore(s) <= ReadyAfter(s) /\ ReadyAfter(s) <= Chunks
      /\ s + 1 < Slots => ReadyAfter(s) = ReadyBefore(s + 1)
      /\ s + 1 = Slots => ReadyAfter(s) = Chunks
  BY <1>1, ReadyFacts
<1>3. /\ DOMAIN done = Cubes
      /\ cube[c].pc = "project" => /\ ReadyBefore(s) <= cube[c].chunk
                                   /\ cube[c].chunk <= ReadyAfter(s)
      /\ done[c] = Row(Multiplied(c))
  BY DEF WholeInv, DoneInv
<1>4. \A d \in Cubes \ {c} : cube'[d] = cube[d] /\ done'[d] = done[d]
  BY <1>1, <1>3 DEF CubeStep, ProjectGates, OpenGates, TakeSlot, PassMeeting, Project, EndSlot
<1>5. DOMAIN done' = Cubes
  BY <1>3 DEF CubeStep, ProjectGates, OpenGates, TakeSlot, PassMeeting, Project, EndSlot
<1>6. /\ v.pc = "project" => ReadyBefore(v.slot) <= v.chunk /\ v.chunk <= ReadyAfter(v.slot)
      /\ done'[c] = Row(Multiplied(c)')
  <2>1. ASSUME done' = done, v.slot = s, cube[c].pc \in {"gates", "meetGates", "take"},
               v.pc \in {"meetGates", "take", "meet"}
        PROVE  /\ v.pc = "project" => /\ ReadyBefore(v.slot) <= v.chunk
                                      /\ v.chunk <= ReadyAfter(v.slot)
               /\ done'[c] = Row(Multiplied(c)')
    <3>1. Multiplied(c)' = ReadyBefore(s) /\ Multiplied(c) = ReadyBefore(s)
      BY <1>1, <2>1, SameShape DEF Multiplied
    <3> QED
      BY <1>3, <2>1, <3>1
  <2>2. CASE ProjectGates(c)
    <3>1. done' = done /\ cube[c].pc = "gates" /\ v.slot = s /\ v.pc = "meetGates"
      BY <1>1, <2>2 DEF ProjectGates
    <3> QED
      BY <2>1, <3>1
  <2>3. CASE OpenGates(c)
    <3>1. done' = done /\ cube[c].pc = "meetGates" /\ v.slot = s /\ v.pc = "take"
      BY <1>1, <2>3 DEF OpenGates
    <3> QED
      BY <2>1, <3>1
  <2>4. CASE TakeSlot(c)
    <3>1. done' = done /\ cube[c].pc = "take" /\ v.slot = s /\ v.pc = "meet"
      BY <1>1, <2>4 DEF TakeSlot
    <3> QED
      BY <2>1, <3>1
  <2>5. CASE PassMeeting(c)
    <3>1. /\ done' = done /\ cube[c].pc = "meet" /\ v.slot = s /\ v.pc = "project"
          /\ v.chunk = ReadyBefore(s)
      BY <1>1, <2>5 DEF PassMeeting
    <3>2. Multiplied(c)' = ReadyBefore(s) /\ Multiplied(c) = ReadyBefore(s)
      BY <3>1 DEF Multiplied
    <3> QED
      BY <1>2, <1>3, <3>1, <3>2
  <2>6. CASE Project(c)
    <3> DEFINE k == cube[c].chunk
    <3>1. /\ cube[c].pc = "project" /\ k < ReadyAfter(s)
          /\ v.slot = s /\ v.pc = "project" /\ v.chunk = k + 1
      BY <1>1, <2>6 DEF Project
    <3>2. done'[c] = Append(done[c], [chunk |-> k, met |-> {row[p] : p \in ChunkRows(k)}])
      BY <1>3, <2>6 DEF Project
    <3>3. k \in Nat
      BY <1>1, <1>2, <1>3, <3>1
    <3>4. {row[p] : p \in ChunkRows(k)} = {"gated"}
      BY <3>1, <3>3, MetGated DEF WholeInv
    <3>5. Multiplied(c) = k /\ Multiplied(c)' = k + 1
      BY <3>1 DEF Multiplied
    <3>6. Append(Row(k), [chunk |-> k, met |-> {"gated"}]) = Row(k + 1)
      BY <3>3, Appended
    <3>7. done'[c] = Row(Multiplied(c)')
      BY <1>3, <3>2, <3>4, <3>5, <3>6
    <3>8. ReadyBefore(s) <= k + 1 /\ k + 1 <= ReadyAfter(s)
      BY <1>2, <1>3, <3>1, <3>3
    <3> QED
      BY <3>1, <3>7, <3>8
  <2>7. CASE EndSlot(c)
    <3>1. cube[c].pc = "project" /\ cube[c].chunk = ReadyAfter(s) /\ done' = done
      BY <1>1, <1>2, <1>3, <2>7 DEF EndSlot
    <3>2. Multiplied(c) = ReadyAfter(s)
      BY <3>1 DEF Multiplied
    <3>3. FirstPc \in {"gates", "take"}
      BY DEF FirstPc
    <3>4. CASE s + 1 < Slots
      <4>1. v.slot = s + 1 /\ v.pc = FirstPc
        BY <1>1, <2>7, <3>4 DEF EndSlot
      <4>2. Multiplied(c)' = ReadyBefore(s + 1)
        BY <1>1, <3>3, <4>1, SameShape DEF Multiplied
      <4> QED
        BY <1>2, <1>3, <3>1, <3>2, <3>3, <3>4, <4>1, <4>2
    <3>5. CASE ~ (s + 1 < Slots)
      <4>1. v.pc = "ended" /\ s + 1 = Slots
        BY <1>1, <2>7, <3>5 DEF EndSlot
      <4>2. Multiplied(c)' = Chunks
        BY <1>1, <4>1, SameShape DEF Multiplied
      <4> QED
        BY <1>2, <1>3, <3>1, <3>2, <4>1, <4>2
    <3> QED
      BY <3>4, <3>5
  <2> QED
    BY <2>2, <2>3, <2>4, <2>5, <2>6, <2>7 DEF CubeStep
<1>7. ASSUME NEW d \in Cubes
      PROVE  /\ cube'[d].pc = "project" => /\ ReadyBefore(cube'[d].slot) <= cube'[d].chunk
                                           /\ cube'[d].chunk <= ReadyAfter(cube'[d].slot)
             /\ done'[d] = Row(Multiplied(d)')
  <2>1. CASE d = c
    BY <1>6, <2>1
  <2>2. CASE d # c
    <3>1. Multiplied(d)' = Multiplied(d)
      BY <1>1, <1>4, <2>2, SameShape DEF Multiplied
    <3> QED
      BY <1>4, <2>2, <3>1 DEF WholeInv, DoneInv
  <2> QED
    BY <2>1, <2>2
<1> QED
  BY <1>1, <1>5, <1>7, SameShape DEF DoneInv

\* At first no task is gated and no chunk multiplied.
LEMMA InitWhole == ASSUME Init PROVE WholeInv
<1>1. /\ shape \in Shapes /\ Slots \in Nat \ {0} /\ row = [p \in AllRows |-> "input"]
      /\ vec = [l \in Lanes |-> [slot |-> 0, pc |-> "run"]]
      /\ cube = [c \in Cubes |-> [slot |-> 0, pc |-> FirstPc, chunk |-> 0]]
      /\ FirstPc \in {"gates", "take"} /\ (shape.kind = "delayed" => FirstPc = "gates")
  BY ShapeFacts DEF Init, FirstPc
<1>2. ASSUME NEW l \in Lanes PROVE Opened(l) = 0
  BY <1>1 DEF Opened, One
<1>3. ASSUME NEW l \in Lanes, NEW s \in 0 .. Slots - 1, NEW t \in TasksOf(s, l)
      PROVE  row[RowOf(t)] = "input"
  BY <1>1, TasksOfIs, RowsAreTasks
<1>4. RowsInv
  BY <1>1, <1>2, <1>3 DEF RowsInv
<1>5. HeldInv
  <2>1. held = [l \in Lanes |-> IF FetchesAhead THEN Fetch(0, l, row) ELSE <<>>]
    BY DEF Init
  <2>2. ASSUME NEW l \in Lanes PROVE Fetch(0, l, row) = [t \in TasksOf(0, l) |-> "input"]
    <3>1. 0 \in 0 .. Slots /\ 0 \in 0 .. Slots - 1 /\ 0 < Slots
      BY <1>1
    <3> QED
      BY <1>1, <1>3, <3>1, FetchIs
  <2> QED
    BY <1>1, <1>2, <2>1, <2>2 DEF HeldInv
<1>6. GatesInv
  <2>1. CASE shape.kind = "delayed"
    <3>1. ASSUME NEW c \in Cubes PROVE GridArrived(c) = 0
      BY <1>1, <2>1 DEF GridArrived, One
    <3> QED
      BY <1>1, <2>1, <3>1 DEF GatesInv
  <2>2. CASE shape.kind # "delayed"
    BY <2>2 DEF GatesInv, Init
  <2> QED
    BY <2>1, <2>2
<1>7. DoneInv
  <2>1. ASSUME NEW c \in Cubes
        PROVE  cube[c].pc # "project" /\ Multiplied(c) = 0
    <3>1. ReadyBefore(0) = 0
      <4>1. 0 \in 0 .. Slots - 1
        BY <1>1
      <4> QED
        BY <1>1, <4>1, ReadyFacts
    <3> QED
      BY <1>1, <3>1 DEF Multiplied
  <2>2. done = [c \in Cubes |-> <<>>]
    BY DEF Init
  <2>3. <<>> = [i \in 1 .. 0 |-> [chunk |-> i - 1, met |-> {"gated"}]]
    OBVIOUS
  <2> QED
    BY <2>1, <2>2, <2>3 DEF DoneInv
<1> QED
  BY <1>4, <1>5, <1>6, <1>7 DEF WholeInv

\* A cube has multiplied the chunks from the first one on, and all at the end.
LEMMA WholeSuffices == ASSUME BackendInv, WholeInv PROVE ProjectedWhole
<1> SUFFICES ASSUME NEW c \in Cubes
             PROVE  /\ \A i \in DOMAIN done[c] : /\ done[c][i].chunk = i - 1
                                                 /\ done[c][i].met = {"gated"}
                    /\ cube[c].pc = "ended" => Len(done[c]) = Chunks
  BY DEF ProjectedWhole
<1>1. done[c] = [i \in 1 .. Multiplied(c) |-> [chunk |-> i - 1, met |-> {"gated"}]]
  BY DEF WholeInv, DoneInv
<1>2. \A i \in DOMAIN done[c] : done[c][i].chunk = i - 1 /\ done[c][i].met = {"gated"}
  BY <1>1
<1>3. cube[c].pc = "ended" => Len(done[c]) = Chunks
  <2> HAVE cube[c].pc = "ended"
  <2>1. Multiplied(c) = Chunks
    BY DEF Multiplied
  <2>2. Chunks \in Nat
    BY Progress, ShapeFacts DEF BackendInv
  <2> QED
    BY <1>1, <2>1, <2>2
<1> QED
  BY <1>2, <1>3

\* Every step of a lane or a cube keeps what they have done whole.
LEMMA WholeInductive == ASSUME BackendInv, WholeInv, [Next]_vars PROVE WholeInv'
<1>1. ASSUME NEW l \in Lanes, LaneStep(l) PROVE WholeInv'
  BY <1>1, LaneWhole
<1>2. ASSUME NEW c \in Cubes, CubeStep(c) PROVE WholeInv'
  BY <1>2, CubeLeavesRows, CubeKeepsGates, CubeKeepsDone DEF WholeInv
<1>3. CASE UNCHANGED vars
  <2>1. /\ UNCHANGED <<shape, vec, cube, row, gates, held, done>>
    BY <1>3 DEF vars
  <2>2. \A x : /\ Opened(x)' = Opened(x) /\ GridArrived(x)' = GridArrived(x)
               /\ Multiplied(x)' = Multiplied(x)
    BY <2>1, SameShape DEF Opened, GridArrived, Multiplied
  <2>3. RowsInv' /\ HeldInv'
    BY <2>1, <2>2, RowsStay, SameShape DEF WholeInv, HeldInv
  <2>4. GatesInv' /\ DoneInv'
    BY <2>1, <2>2, SameShape DEF WholeInv, GatesInv, DoneInv
  <2> QED
    BY <2>3, <2>4 DEF WholeInv
<1> QED
  BY <1>1, <1>2, <1>3 DEF Next, Finished

\* Every cube multiplies every chunk once and in order, and only rows that
\* their lanes have gated from inputs which nobody had overwritten: for every
\* number of cores, lanes, batches, heads and chunks, in all four variants.
THEOREM ChunksAreWhole == Spec => []ProjectedWhole
<1>1. BackendInv /\ WholeInv => ProjectedWhole
  BY WholeSuffices
<1>2. Init => BackendInv /\ WholeInv
  BY InitInv, InitWhole
<1>3. BackendInv /\ WholeInv /\ [Next]_vars => (BackendInv /\ WholeInv)'
  BY BackendInvInductive, WholeInductive
<1> QED
  BY <1>1, <1>2, <1>3, PTL DEF Spec

-----------------------------------------------------------------------------
(* Stream-K: how the host divides the product.                              *)

\* A set of natural numbers that is not empty has a least element: the
\* intervals 0 .. k that end in it have one that no other is a part of.
LEMMA LeastElement ==
  ASSUME NEW T \in SUBSET Nat, T # {}
  PROVE  \E m \in T : \A k \in T : m <= k
<1> PICK n \in T : TRUE
  OBVIOUS
<1> DEFINE C == {0 .. k : k \in {x \in T : x <= n}}
<1>1. IsFiniteSet(0 .. n)
  BY FS_Interval
<1>2. IsWellFoundedOn(StrictSubsetOrdering(0 .. n), FiniteSubsetsOf(0 .. n))
  BY <1>1, FS_StrictSubsetOrderingWellFounded
<1>3. C \subseteq FiniteSubsetsOf(0 .. n) /\ C # {}
  <2>1. \A k \in T : k <= n => (0 .. k) \in SUBSET (0 .. n) /\ IsFiniteSet(0 .. k)
     BY FS_Interval
  <2>2. C # {}
     OBVIOUS
  <2> QED
    BY <2>1, <2>2 DEF FiniteSubsetsOf
<1>4. PICK x \in C : \A y \in C : <<y, x>> \notin StrictSubsetOrdering(0 .. n)
  BY <1>2, <1>3, WFMin
<1>5. PICK m \in T : m <= n /\ x = 0 .. m
  BY <1>4
<1>6. ASSUME NEW k \in T, k < m PROVE FALSE
  <2>1. (0 .. k) \in C /\ (0 .. m) \in C
    BY <1>5, <1>6
  <2>2. (0 .. k) \subseteq 0 .. m /\ (0 .. k) # 0 .. m
    <3>1. m \in 0 .. m /\ m \notin 0 .. k
      BY <1>6
    <3> QED BY <1>6, <3>1
  <2>3. (0 .. k) \subseteq 0 .. n /\ (0 .. m) \subseteq 0 .. n
    BY <1>5, <1>6
  <2> QED
    BY <1>4, <1>5, <2>1, <2>2, <2>3 DEF StrictSubsetOrdering
<1> QED
  BY <1>6

\* Rounding up, as the host does it.
LEMMA CeilDivIs ==
    ASSUME NEW a \in Nat \ {0}, NEW d \in Nat \ {0}
    PROVE  /\ CeilDiv(a, d) \in Nat \ {0}
           /\ d * (CeilDiv(a, d) - 1) < a /\ a <= d * CeilDiv(a, d)
<1>1. CeilDiv(a, d) = Ceiling(a, d)
  BY DEF CeilDiv, Ceiling
<1> QED
  BY <1>1, CeilIs

\* Rounding down.
LEMMA FloorIs ==
    ASSUME NEW a \in Nat, NEW d \in Nat \ {0}
    PROVE  /\ a \div d \in Nat /\ d * (a \div d) <= a /\ d * (a \div d) \in Nat
           /\ a < d * (a \div d) + d /\ a < d * ((a \div d) + 1)
<1> DEFINE q == a \div d
           r == a % d
<1>1. q \in Nat /\ r \in 0 .. d - 1 /\ a = d * q + r
  BY DivMod
<1> HIDE DEF q, r
<1>2. d * q \in Nat /\ d * (q + 1) = d * q + d
  BY <1>1, TimesGrows
<1>3. q \in Nat /\ d * q <= a /\ d * q \in Nat /\ a < d * q + d /\ a < d * (q + 1)
  BY <1>1, <1>2
<1> QED
  BY <1>3 DEF q

\* A number of parts that is enough is not less than the least one.
LEMMA CeilDivLeast ==
    ASSUME NEW a \in Nat \ {0}, NEW d \in Nat \ {0}, NEW k \in Nat, a <= d * k
    PROVE  CeilDiv(a, d) <= k
<1> DEFINE q == CeilDiv(a, d) - 1
<1>1. CeilDiv(a, d) \in Nat \ {0} /\ q \in Nat /\ d * q < a
  BY CeilDivIs
<1> HIDE DEF q
<1>2. d * q \in Nat /\ d * k \in Nat /\ (d * q < d * k => q < k)
  BY <1>1, TimesGrows
<1>3. q < k
  BY <1>1, <1>2
<1> QED
  BY <1>1, <1>3 DEF q

\* A call, and the buffers of a core.
LEMMA CallFacts ==
    ASSUME NEW c \in Calls
    PROVE  /\ c.m \in Nat \ {0} /\ c.n \in Nat \ {0} /\ c.k \in Nat \ {0}
           /\ c.aic \in Nat \ {0}
           /\ c.bytes \in {2, 4} /\ 128 \div c.bytes \in {32, 64}
           /\ (128 \div c.bytes) * c.bytes = 128
           /\ L1Size \in Nat /\ L0Size \in Nat /\ L0CSize \in Nat /\ UBSize \in Nat
           /\ L0Size >= 65536 /\ L1Size >= 2 * L0Size /\ L0CSize >= 262144
           /\ UBSize >= 253952
<1>1. {c.m, c.n, c.k, c.aic} \subseteq Nat \ {0} /\ c.bytes \in {2, 4}
  BY CallsAssumption
<1>2. c.m \in Nat \ {0} /\ c.n \in Nat \ {0} /\ c.k \in Nat \ {0} /\ c.aic \in Nat \ {0}
  BY <1>1
<1>3. 128 \div c.bytes \in {32, 64} /\ (128 \div c.bytes) * c.bytes = 128
  <2>1. 128 \div 2 = 64 /\ 128 \div 4 = 32
    OBVIOUS
  <2> QED
    BY <1>1, <2>1
<1>4. {L1Size, L0Size, L0CSize, UBSize} \subseteq Nat
  BY BuffersAssumption
<1>5. L1Size \in Nat /\ L0Size \in Nat /\ L0CSize \in Nat /\ UBSize \in Nat
  BY <1>4
<1> QED
  BY <1>1, <1>2, <1>3, <1>5, BuffersAssumption

\* A dimension is cut in at least as many parts as it has tiles of 256.
LEMMA RoundedUp ==
    ASSUME NEW size \in Nat \ {0}, NEW aic \in Nat \ {0}
    PROVE  /\ Rounded(CeilDiv(size, BLK256), aic) \in Nat \ {0}
           /\ size <= 256 * Rounded(CeilDiv(size, BLK256), aic)
<1> DEFINE q == CeilDiv(size, BLK256)
<1>1. q \in Nat \ {0} /\ size <= 256 * q
  BY CeilDivIs DEF BLK256
<1> HIDE DEF q
<1>2. aic \div 2 \in Nat /\ aic \div 3 \in Nat
  BY DivMod
<1>3. Rounded(q, aic) \in Nat \ {0} /\ q <= Rounded(q, aic)
  BY <1>1, <1>2 DEF Rounded
<1> QED
  BY <1>1, <1>3 DEF q

\* So a part has a tile of 256 at most, and of 16 at least.
LEMMA BaseOfRange ==
    ASSUME NEW size \in Nat \ {0}, NEW aic \in Nat \ {0}
    PROVE  BaseOf(size, aic) \in 1 .. 256
<1> DEFINE r == Rounded(CeilDiv(size, BLK256), aic)
           q == CeilDiv(size, r)
           u == CeilDiv(q, BLK16)
<1>1. r \in Nat \ {0} /\ size <= 256 * r
  BY RoundedUp
<1>2. q \in Nat \ {0} /\ q <= 256
  <2>1. size <= r * 256
    BY <1>1
  <2>2. q \in Nat \ {0}
    BY <1>1, CeilDivIs
  <2>3. q <= 256
    BY <1>1, <2>1, CeilDivLeast
  <2> QED
    BY <2>2, <2>3
<1>3. u \in Nat \ {0} /\ u <= 16
  <2>1. q \in Nat \ {0} /\ 16 \in Nat \ {0} /\ q <= 16 * 16
    BY <1>2
  <2>2. CeilDiv(q, 16) \in Nat \ {0}
    BY <2>1, CeilDivIs
  <2>3. CeilDiv(q, 16) <= 16
    BY <2>1, CeilDivLeast
  <2> QED
    BY <2>2, <2>3 DEF BLK16
<1>4. BaseOf(size, aic) = u * 16
  BY DEF BaseOf, CeilAlign, BLK16
<1> HIDE DEF u
<1> QED
  BY <1>3, <1>4

\* The sizes of a tile.
LEMMA BaseRange ==
    ASSUME NEW c \in Calls
    PROVE  /\ BaseM(c) \in 1 .. 256 /\ BaseN(c) \in 1 .. 256
           /\ Larger(BaseM(c), BaseN(c)) \in 1 .. 256
           /\ BaseM(c) <= Larger(BaseM(c), BaseN(c))
           /\ BaseN(c) <= Larger(BaseM(c), BaseN(c))
<1>1. BaseM(c) \in 1 .. 256 /\ BaseN(c) \in 1 .. 256
  <2>1. c.m \in Nat \ {0} /\ c.n \in Nat \ {0} /\ c.aic \in Nat \ {0}
    BY CallFacts
  <2>2. BaseOf(c.m, c.aic) \in 1 .. 256 /\ BaseOf(c.n, c.aic) \in 1 .. 256
    BY <2>1, BaseOfRange
  <2> QED
    BY <2>2 DEF BaseM, BaseN, BLK256
<1>2. \A a, b \in 1 .. 256 : Larger(a, b) \in 1 .. 256 /\ a <= Larger(a, b) /\ b <= Larger(a, b)
  BY DEF Larger
<1> QED
  BY <1>1, <1>2

\* The part of k for a core is a whole number of units.
LEMMA SingleCoreKFacts ==
    ASSUME NEW c \in Calls, ChosenForSplit(c)
    PROVE  SingleCoreK(c) \in Nat /\ SingleCoreK(c) >= 128 \div c.bytes
<1> DEFINE unit == 128 \div c.bytes
           parts(size) == Rounded(CeilDiv(size, BLK256), c.aic)
           cnt == IF FewTiles(c) THEN c.aic \div (parts(c.m) * parts(c.n))
                  ELSE c.aic \div (Tiles256(c) % c.aic)
           floor == FloorAlign(CeilDiv(c.k, cnt), unit)
<1>0. /\ c.aic \in Nat \ {0} /\ c.aic \in Nat /\ c.k \in Nat \ {0}
      /\ c.m \in Nat \ {0} /\ c.n \in Nat \ {0} /\ unit \in Nat \ {0}
  BY CallFacts
<1>1. cnt \in Nat
  <2>1. CASE FewTiles(c)
    <3>1. parts(c.m) \in Nat \ {0} /\ parts(c.n) \in Nat \ {0}
      BY <1>0, RoundedUp
    <3> HIDE DEF parts
    <3>2. parts(c.m) * parts(c.n) \in Nat \ {0}
      BY <3>1, Quotients
    <3>3. c.aic \div (parts(c.m) * parts(c.n)) \in Nat
      BY <1>0, <3>2, DivMod
    <3> QED
      BY <2>1, <3>3
  <2>2. CASE ~FewTiles(c)
    <3>1. c.aic \div 2 \in Nat
      BY <1>0, DivMod, 2 \in Nat \ {0}
    <3>2. Tiles256(c) % c.aic \in 1 .. c.aic \div 2
      BY <2>2 DEF ChosenForSplit
    <3>4. Tiles256(c) % c.aic \in Nat \ {0}
      BY <3>1, <3>2
    <3>3. c.aic \div (Tiles256(c) % c.aic) \in Nat
      BY <1>0, <3>4, DivMod
    <3> QED
      BY <2>2, <3>3
  <2> QED
    BY <2>1, <2>2
<1> HIDE DEF cnt, unit
<1>2. CeilDiv(c.k, cnt) \in Nat
  <2>1. cnt # 0 => CeilDiv(c.k, cnt) \in Nat
    BY <1>0, <1>1, CeilDivIs
  <2>2. cnt = 0 => CeilDiv(c.k, cnt) = c.k
    BY DEF CeilDiv
  <2> QED
    BY <1>0, <2>1, <2>2
<1>3. unit \in Nat \ {0}
  BY <1>0
<1>4. floor \in Nat
  <2>1. CeilDiv(c.k, cnt) \div unit \in Nat
    BY <1>2, <1>3, DivMod
  <2> QED
    BY <1>3, <2>1, TimesGrows DEF FloorAlign
<1>5. SingleCoreK(c) = Larger(unit, floor)
  BY DEF SingleCoreK, cnt, unit
<1> HIDE DEF floor
<1>6. SingleCoreK(c) \in Nat /\ SingleCoreK(c) >= unit
  BY <1>3, <1>4, <1>5 DEF Larger
<1> QED
  BY <1>6 DEF unit

\* The step of k: at least a unit, and two tiles of it fit into L0.
LEMMA BaseKFacts ==
    ASSUME NEW c \in Calls
    PROVE  /\ BaseK(c) \in Nat \ {0}
           /\ DB * Larger(BaseM(c), BaseN(c)) * BaseK(c) * c.bytes <= L0Size
<1> DEFINE g == Larger(BaseM(c), BaseN(c))
           b == c.bytes
           unit == 128 \div c.bytes
           q == L0Size \div (DB * b * g)
           f == q \div unit
<1>1. /\ g \in 1 .. 256 /\ b \in {2, 4} /\ unit \in {32, 64} /\ unit * b = 128
      /\ L0Size \in Nat /\ L0Size >= 65536
  BY CallFacts, BaseRange
<1>2. BaseK(c) = IF ChosenForSplit(c) THEN Smaller(SingleCoreK(c), f * unit) ELSE unit
  BY DEF BaseK, FloorAlign
<1>3. ChosenForSplit(c) => SingleCoreK(c) \in Nat /\ SingleCoreK(c) >= unit
  BY SingleCoreKFacts
<1> HIDE DEF g, b, unit
<1>4. DB * b * g \in Nat \ {0} /\ DB * b * g = (2 * b) * g
  BY <1>1 DEF DB
<1>5. q \in Nat /\ (DB * b * g) * q <= L0Size /\ L0Size < (DB * b * g) * (q + 1)
  <2> DEFINE d == DB * b * g
  <2>1. d \in Nat \ {0} /\ L0Size \in Nat
    BY <1>1, <1>4
  <2> HIDE DEF d
  <2>2. L0Size \div d \in Nat /\ d * (L0Size \div d) <= L0Size
        /\ L0Size < d * ((L0Size \div d) + 1)
    BY <2>1, FloorIs
  <2> QED
    BY <2>2 DEF d
<1> HIDE DEF q
<1>6. unit <= q
  <2>1. (DB * b * g) * unit = 256 * g
    <3>1. (DB * b * g) * unit = (2 * (unit * b)) * g
      BY <1>1 DEF DB
    <3> QED
      BY <1>1, <3>1
  <2>2. (DB * b * g) * unit < (DB * b * g) * (q + 1)
    <3> DEFINE x == (DB * b * g) * unit
               y == (DB * b * g) * (q + 1)
    <3>1. x <= 65536 /\ x \in Nat
      BY <1>1, <2>1
    <3>2. y \in Nat /\ L0Size < y
      BY <1>4, <1>5
    <3> HIDE DEF x, y
    <3>3. x < y
      BY <1>1, <3>1, <3>2
    <3> QED
      BY <3>3 DEF x, y
  <2> DEFINE d == DB * b * g
  <2>3. d \in Nat \ {0} /\ d * unit < d * (q + 1)
    BY <1>4, <2>2
  <2> HIDE DEF d
  <2>4. unit < q + 1
    BY <1>1, <1>5, <2>3, TimesGrows
  <2> QED
    BY <1>1, <1>5, <2>4
<1>7. f \in Nat /\ unit * f <= q /\ q < unit * f + unit
  <2>1. unit \in Nat \ {0}
    BY <1>1
  <2> QED
    BY <1>5, <2>1, FloorIs
<1> HIDE DEF f
<1>8. f * unit \in Nat /\ f * unit >= unit /\ f * unit <= q
  BY <1>1, <1>5, <1>6, <1>7
<1>9. BaseK(c) \in Nat \ {0} /\ BaseK(c) <= q
  <2>1. CASE ChosenForSplit(c)
    <3> DEFINE p == f * unit
    <3>1. p \in Nat /\ p >= unit /\ p <= q
      BY <1>8
    <3>2. BaseK(c) = Smaller(SingleCoreK(c), p)
      BY <1>2, <2>1
    <3> HIDE DEF p
    <3> QED
      BY <1>1, <1>3, <1>5, <2>1, <3>1, <3>2 DEF Smaller
  <2>2. CASE ~ChosenForSplit(c)
    BY <1>1, <1>2, <1>5, <1>6, <2>2
  <2> QED
    BY <2>1, <2>2
<1>10. DB * g * BaseK(c) * b <= L0Size
  <2> DEFINE d == DB * b * g
             x == BaseK(c)
  <2>1. DB * g * x * b = d * x
    <3>1. x \in Nat
      BY <1>9
    <3> HIDE DEF x
    <3> QED
      BY <1>1, <3>1 DEF DB
  <2>2. d \in Nat \ {0} /\ d * q <= L0Size /\ x \in Nat /\ x <= q
    BY <1>4, <1>5, <1>9
  <2> HIDE DEF d, x
  <2>3. d * x <= d * q /\ d * x \in Nat /\ d * q \in Nat
    BY <1>5, <2>2, TimesGrows
  <2>4. d * x <= L0Size
    BY <1>1, <2>2, <2>3
  <2> QED
    BY <2>1, <2>4 DEF x
<1> QED
  BY <1>9, <1>10 DEF g, b

\* The steps that go to L1 at a time: four at most, and if there are several,
\* as many or more of them fit.
LEMMA StepKaFacts ==
    ASSUME NEW c \in Calls
    PROVE  /\ StepKa(c) \in 1 .. 4
           /\ StepKa(c) = 1 \/ \E s \in StepKa(c) .. 8 : StepFits(c, s)
<1> DEFINE taken[s \in 0 .. 8] == IF s = 0 THEN 0 ELSE StepTaken(c, taken[s - 1], s)
<1>1. taken = [s \in 0 .. 8 |-> IF s = 0 THEN 0 ELSE StepTaken(c, taken[s - 1], s)]
  <2> DEFINE t1 == StepTaken(c, 0, 1)
             t2 == StepTaken(c, t1, 2)
             t3 == StepTaken(c, t2, 3)
             t4 == StepTaken(c, t3, 4)
             t5 == StepTaken(c, t4, 5)
             t6 == StepTaken(c, t5, 6)
             t7 == StepTaken(c, t6, 7)
             t8 == StepTaken(c, t7, 8)
             g == [s \in 0 .. 8 |->
                    IF s = 0 THEN 0 ELSE IF s = 1 THEN t1 ELSE IF s = 2 THEN t2
                    ELSE IF s = 3 THEN t3 ELSE IF s = 4 THEN t4 ELSE IF s = 5 THEN t5
                    ELSE IF s = 6 THEN t6 ELSE IF s = 7 THEN t7 ELSE t8]
  <2>1. /\ g[0] = 0 /\ g[1] = StepTaken(c, g[0], 1) /\ g[2] = StepTaken(c, g[1], 2)
        /\ g[3] = StepTaken(c, g[2], 3) /\ g[4] = StepTaken(c, g[3], 4)
        /\ g[5] = StepTaken(c, g[4], 5) /\ g[6] = StepTaken(c, g[5], 6)
        /\ g[7] = StepTaken(c, g[6], 7) /\ g[8] = StepTaken(c, g[7], 8)
    <3> HIDE DEF t1, t2, t3, t4, t5, t6, t7, t8
    <3>1. /\ g[0] = 0 /\ g[1] = t1 /\ g[2] = t2 /\ g[3] = t3 /\ g[4] = t4
          /\ g[5] = t5 /\ g[6] = t6 /\ g[7] = t7 /\ g[8] = t8
      OBVIOUS
    <3> HIDE DEF g
    <3> QED
      BY <3>1 DEF t1, t2, t3, t4, t5, t6, t7, t8
  <2>2. g = [s \in 0 .. 8 |-> g[s]]
    OBVIOUS
  <2> HIDE DEF g
  <2>3. \A s \in 0 .. 8 : g[s] = IF s = 0 THEN 0 ELSE StepTaken(c, g[s - 1], s)
    <3> SUFFICES ASSUME NEW s \in 0 .. 8
                 PROVE  g[s] = IF s = 0 THEN 0 ELSE StepTaken(c, g[s - 1], s)
      OBVIOUS
    <3>1. s = 0 \/ s = 1 \/ s = 2 \/ s = 3 \/ s = 4 \/ s = 5 \/ s = 6 \/ s = 7 \/ s = 8
      OBVIOUS
    <3> QED
      BY <2>1, <3>1
  <2>4. g = [s \in 0 .. 8 |-> IF s = 0 THEN 0 ELSE StepTaken(c, g[s - 1], s)]
    BY <2>2, <2>3
  <2>5. \E f : f = [s \in 0 .. 8 |-> IF s = 0 THEN 0 ELSE StepTaken(c, f[s - 1], s)]
    BY <2>4
  <2> QED
    BY <2>5
<1> DEFINE last == taken[8]
<1>2. StepKa(c) = IF ChosenForSplit(c) THEN Larger(1, Smaller(last, 4)) ELSE 1
  BY DEF StepKa
<1> HIDE DEF taken
<1> DEFINE Good(s) == taken[s] \in 0 .. s /\ (taken[s] = 0 \/ StepFits(c, taken[s]))
<1>3. Good(0)
  BY <1>1
<1>4. ASSUME NEW s \in 1 .. 8, Good(s - 1) PROVE Good(s)
  <2>1. s # 0 /\ s \in 0 .. 8 /\ s - 1 \in 0 .. 8
    OBVIOUS
  <2>2. taken[s] = StepTaken(c, taken[s - 1], s)
    BY <1>1, <2>1
  <2>3. taken[s] = taken[s - 1] \/ (taken[s] = s /\ StepFits(c, s))
    BY <2>2 DEF StepTaken
  <2>4. CASE taken[s] = taken[s - 1]
    BY <1>4, <2>1, <2>4
  <2>5. CASE taken[s] = s /\ StepFits(c, s)
    BY <2>5
  <2> QED
    BY <2>3, <2>4, <2>5
<1>5. Good(8)
  <2> HIDE DEF Good
  <2>1. Good(1)
    BY <1>3, <1>4, 1 - 1 = 0
  <2>2. Good(2)
    BY <2>1, <1>4, 2 - 1 = 1
  <2>3. Good(3)
    BY <2>2, <1>4, 3 - 1 = 2
  <2>4. Good(4)
    BY <2>3, <1>4, 4 - 1 = 3
  <2>5. Good(5)
    BY <2>4, <1>4, 5 - 1 = 4
  <2>6. Good(6)
    BY <2>5, <1>4, 6 - 1 = 5
  <2>7. Good(7)
    BY <2>6, <1>4, 7 - 1 = 6
  <2> QED
    BY <2>7, <1>4, 8 - 1 = 7
<1>6. last \in 0 .. 8 /\ (last = 0 \/ StepFits(c, last))
  BY <1>5
<1> HIDE DEF last
<1>7. StepKa(c) \in 1 .. 4 /\ (StepKa(c) = 1 \/ (StepKa(c) <= last /\ last # 0))
  BY <1>2, <1>6 DEF Larger, Smaller
<1> QED
  BY <1>6, <1>7

\* The segments: as many as asked for, or more, so that two of them fit.
LEMMA SegmentsFacts ==
    ASSUME NEW from \in Nat \ {0}, NEW tileM \in 1 .. 256, NEW tileN \in 1 .. 256
    PROVE  LET a == Segments(from, tileM, tileN) IN
           /\ a \in Nat \ {0} /\ a >= from
           /\ CeilDiv(tileM, a) \in Nat \ {0}
           /\ 2 * CeilDiv(tileM, a) * tileN * 4 <= UBSize
<1> DEFINE S == {a \in from .. from + tileM : 2 * CeilDiv(tileM, a) * tileN * 4 <= UBSize}
<1>0. UBSize \in Nat /\ UBSize >= 253952
  BY BuffersAssumption
<1>1. S \in SUBSET Nat
  OBVIOUS
<1>2. from + tileM \in S
  <2> DEFINE a == from + tileM
             x == CeilDiv(tileM, a)
  <2>1. a \in Nat \ {0} /\ 1 \in Nat /\ tileM \in Nat \ {0} /\ tileM <= a * 1
    OBVIOUS
  <2> HIDE DEF a
  <2>2. x \in Nat \ {0} /\ x <= 1
    BY <2>1, CeilDivIs, CeilDivLeast
  <2> HIDE DEF x
  <2>3. x = 1
    BY <2>2
  <2>4. 2 * x * tileN * 4 <= UBSize
    BY <1>0, <2>3
  <2>5. a \in from .. from + tileM
    BY DEF a
  <2> QED
    BY <2>4, <2>5 DEF a, x
<1>3. \E x \in S : \A y \in S : x <= y
  BY <1>1, <1>2, LeastElement
<1>4. Segments(from, tileM, tileN) \in S
  BY <1>3 DEF Segments, Min
<1> DEFINE a == Segments(from, tileM, tileN)
<1>5. a \in from .. from + tileM /\ 2 * CeilDiv(tileM, a) * tileN * 4 <= UBSize
  BY <1>4
<1> HIDE DEF a
<1>6. a \in Nat \ {0} /\ a >= from /\ tileM \in Nat \ {0}
  BY <1>5
<1>7. CeilDiv(tileM, a) \in Nat \ {0}
  BY <1>6, CeilDivIs
<1> QED
  BY <1>5, <1>6, <1>7 DEF a

\* The tiles of a dimension, and their windows.
LEMMA WindowFacts ==
    ASSUME NEW t \in Nat \ {0}
    PROVE  LET w == Smaller(WINDOW_LEN, t)
               r == t \div w - 1
           IN  /\ w \in Nat \ {0} /\ w <= t
               /\ r \in Nat /\ t - r * w \in Nat \ {0}
               /\ w * r + (t - r * w) = t
<1> DEFINE w == Smaller(WINDOW_LEN, t)
           q == t \div w
<1>1. w \in Nat \ {0} /\ w <= t
  BY DEF Smaller, WINDOW_LEN
<1> HIDE DEF w
<1>2. q \in Nat /\ w * q <= t /\ t < w * (q + 1)
  BY <1>1, FloorIs
<1> HIDE DEF q
<1>3. q >= 1
  <2>1. q = 0 => w * (q + 1) = w
    BY <1>1
  <2> QED
    BY <1>1, <1>2, <2>1
<1>4. q - 1 \in Nat /\ (q - 1) * w = w * q - w /\ w * (q - 1) = w * q - w /\ w * q \in Nat
  BY <1>1, <1>2, <1>3
<1>5. q - 1 \in Nat /\ t - (q - 1) * w \in Nat \ {0} /\ w * (q - 1) + (t - (q - 1) * w) = t
  BY <1>1, <1>2, <1>4
<1> QED
  BY <1>1, <1>5 DEF w, q

\* The parts of k of a tile left over: none is empty, together they are k, and
\* there are no more of them than cores for a tile.
LEMMA PartsOfK ==
    ASSUME NEW k \in Nat \ {0}, NEW tileK \in Nat \ {0}, NEW asked \in Nat \ {0},
           NEW ka \in Nat \ {0}
    PROVE  LET kTiles == CeilDiv(k, tileK)
               single == CeilDiv(kTiles, asked)
               step == Smaller(ka, single)
               per == Larger(1, CeilDiv(single, step))
               slabs == CeilDiv(k, tileK * step)
               splits == CeilDiv(slabs, per)
           IN  /\ tileK * step \in Nat \ {0} /\ per \in Nat \ {0}
               /\ splits \in Nat \ {0} /\ slabs \in Nat \ {0}
               /\ per * (splits - 1) < slabs /\ slabs <= per * splits
               /\ splits <= asked
<1> DEFINE kTiles == CeilDiv(k, tileK)
           single == CeilDiv(kTiles, asked)
           step == Smaller(ka, single)
           per == Larger(1, CeilDiv(single, step))
           slabs == CeilDiv(k, tileK * step)
           splits == CeilDiv(slabs, per)
<1>1. kTiles \in Nat \ {0} /\ k <= tileK * kTiles
  BY CeilDivIs
<1> HIDE DEF kTiles
<1>2. single \in Nat \ {0} /\ kTiles <= asked * single
  BY <1>1, CeilDivIs
<1> HIDE DEF single
<1>3. step \in Nat \ {0}
  BY <1>2 DEF Smaller
<1> HIDE DEF step
<1>4. per \in Nat \ {0} /\ single <= step * per
  <2> DEFINE x == CeilDiv(single, step)
  <2>1. x \in Nat \ {0} /\ single <= step * x
    BY <1>2, <1>3, CeilDivIs
  <2> HIDE DEF x
  <2>2. Larger(1, x) = x
    BY <2>1 DEF Larger
  <2> QED
    BY <2>1, <2>2 DEF x
<1> HIDE DEF per
<1>5. tileK * step \in Nat \ {0}
  BY <1>3, Quotients
<1>6. slabs \in Nat \ {0}
  BY <1>5, CeilDivIs
<1>7. slabs <= per * asked
  <2> DEFINE b == tileK * step
             y == per * asked
  <2>1. k <= b * y
    <3>1. y \in Nat /\ asked * single \in Nat /\ asked * (step * per) \in Nat
          /\ step * per \in Nat
      BY <1>2, <1>3, <1>4
    <3>2. asked * single <= asked * (step * per)
      BY <1>2, <1>4, <3>1, TimesGrows
    <3>3. kTiles <= asked * (step * per)
      BY <1>1, <1>2, <3>1, <3>2
    <3>4. tileK * kTiles <= tileK * (asked * (step * per)) /\ tileK * kTiles \in Nat
          /\ tileK * (asked * (step * per)) \in Nat
      BY <1>1, <3>1, <3>3, TimesGrows
    <3>5. tileK * (asked * (step * per)) = b * y
      BY <1>3, <1>4
    <3> QED
      BY <1>1, <3>4, <3>5
  <2>2. b \in Nat \ {0} /\ y \in Nat
    BY <1>4, <1>5, TimesGrows
  <2> HIDE DEF b, y
  <2>3. CeilDiv(k, b) <= y
    BY <2>1, <2>2, CeilDivLeast
  <2> QED
    BY <2>3 DEF b, y
<1> HIDE DEF slabs
<1>8. splits \in Nat \ {0} /\ per * (splits - 1) < slabs /\ slabs <= per * splits
  BY <1>4, <1>6, CeilDivIs
<1>9. splits <= asked
  BY <1>4, <1>6, <1>7, CeilDivLeast
<1> QED
  BY <1>4, <1>5, <1>6, <1>8, <1>9 DEF splits, slabs, per, step, single, kTiles

\* The segments in which a tile is reduced make up the tile, or all rows.
LEMMA SegmentsCover ==
    ASSUME NEW m \in Nat \ {0}, NEW tileM \in Nat \ {0}, NEW a \in Nat \ {0}
    PROVE  LET reduceM == CeilDiv(tileM, a)
               perTile == Smaller(a, Larger(1, CeilDiv(m, reduceM)))
           IN  /\ reduceM \in Nat \ {0} /\ perTile \in Nat \ {0}
               /\ tileM <= reduceM * perTile \/ m <= reduceM * perTile
<1> DEFINE reduceM == CeilDiv(tileM, a)
           x == CeilDiv(m, reduceM)
<1>1. reduceM \in Nat \ {0} /\ tileM <= a * reduceM
  BY CeilDivIs
<1> HIDE DEF reduceM
<1>2. x \in Nat \ {0} /\ m <= reduceM * x
  BY <1>1, CeilDivIs
<1> HIDE DEF x
<1>3. a * reduceM = reduceM * a
  BY <1>1
<1>4. Larger(1, x) = x
  BY <1>2 DEF Larger
<1>5. Smaller(a, x) = a \/ Smaller(a, x) = x
  BY DEF Smaller
<1>6. /\ reduceM \in Nat \ {0} /\ Smaller(a, Larger(1, x)) \in Nat \ {0}
      /\ tileM <= reduceM * Smaller(a, Larger(1, x)) \/ m <= reduceM * Smaller(a, Larger(1, x))
  BY <1>1, <1>2, <1>3, <1>4, <1>5
<1> QED
  BY <1>6 DEF x, reduceM

\* What the division of a call is like: tiles, parts and segments cover their
\* dimension, and nobody gets an empty part of k.
Divided(c, p) ==
  /\ p.tileM \in 1 .. 256 /\ p.tileN \in 1 .. 256 /\ p.tileK \in Nat \ {0}
  /\ p.mTiles \in Nat \ {0} /\ p.nTiles \in Nat \ {0}
  /\ c.m <= p.tileM * p.mTiles /\ p.tileM * (p.mTiles - 1) < c.m
  /\ c.n <= p.tileN * p.nTiles /\ p.tileN * (p.nTiles - 1) < c.n
  /\ p.dp \in Nat /\ p.tail \in Nat /\ p.dp + p.tail = p.nTiles * p.mTiles
  /\ p.slabK \in Nat \ {0} /\ p.slabKSk \in Nat \ {0}
  /\ p.splits \in Nat \ {0} /\ p.slabsPer \in Nat \ {0}
  /\ p.tail # 0 => /\ p.slabsPer * (p.splits - 1) < CeilDiv(c.k, p.slabKSk)
                   /\ CeilDiv(c.k, p.slabKSk) <= p.slabsPer * p.splits
  /\ p.reduceM \in Nat \ {0} /\ p.perTile \in Nat \ {0}
  /\ p.tileM <= p.reduceM * p.perTile \/ c.m <= p.reduceM * p.perTile
  /\ p.window \in Nat \ {0} /\ p.mainRow \in Nat /\ p.tailWindow \in Nat \ {0}
  /\ p.window * p.mainRow + p.tailWindow = p.mTiles

\* And what it takes of UB.
Reserved(c, p) ==
  /\ 2 * p.reduceM * p.tileN * 4 <= UBSize
  /\ p.splits <= c.aic
  /\ p.splits = 1 \/ \E a \in Nat \ {0} : a >= 2 * p.splits /\ p.reduceM = CeilDiv(p.tileM, a)

LEMMA PlanFacts ==
    ASSUME NEW c \in Calls
    PROVE  /\ Divided(c, Plan(c)) /\ Reserved(c, Plan(c))
           /\ Plan(c).tileM = BaseM(c) /\ Plan(c).tileN = BaseN(c)
           /\ Plan(c).tileK = BaseK(c) /\ Plan(c).slabK = BaseK(c) * StepKa(c)
<1> DEFINE tileM == BaseM(c)
           tileN == BaseN(c)
           tileK == BaseK(c)
           ka == StepKa(c)
           mTiles == CeilDiv(c.m, tileM)
           nTiles == CeilDiv(c.n, tileN)
           total == mTiles * nTiles
           left == total % c.aic
           tail == IF left > c.aic \div 2 THEN 0 ELSE left
           asked == IF tail = 0 THEN 1 ELSE c.aic \div tail
           kTiles == CeilDiv(c.k, tileK)
           single == CeilDiv(kTiles, asked)
           step == Smaller(ka, single)
           per == Larger(1, CeilDiv(single, step))
           slabs == CeilDiv(c.k, tileK * step)
           parts == CeilDiv(slabs, per)
           splits == IF tail = 0 THEN 1 ELSE parts
           byBlocks == IF tail = 0 THEN 1 ELSE (c.aic * TASK_RATIO) \div tail
           from == Larger(1, Smaller(TASK_RATIO * splits, byBlocks))
           segments == Segments(from, tileM, tileN)
           reduceM == CeilDiv(tileM, segments)
           perTile == Smaller(segments, Larger(1, CeilDiv(c.m, reduceM)))
           window == Smaller(WINDOW_LEN, mTiles)
           mainRow == mTiles \div window - 1
<1>1. Plan(c) =
        [ tileM |-> tileM, tileN |-> tileN, tileK |-> tileK,
          mTiles |-> mTiles, nTiles |-> nTiles,
          dp |-> total - tail, tail |-> tail,
          slabK |-> tileK * ka,
          splits |-> splits,
          slabKSk |-> IF tail = 0 THEN tileK * ka ELSE tileK * step,
          slabsPer |-> per,
          reduceM |-> reduceM, perTile |-> perTile,
          window |-> window, mainRow |-> mainRow,
          tailWindow |-> mTiles - mainRow * window ]
  BY DEF Plan, Splits
<1>2. /\ tileM \in 1 .. 256 /\ tileN \in 1 .. 256 /\ tileK \in Nat \ {0}
      /\ tileM \in Nat \ {0} /\ tileN \in Nat \ {0} /\ ka \in Nat \ {0}
      /\ c.m \in Nat \ {0} /\ c.n \in Nat \ {0} /\ c.k \in Nat \ {0}
      /\ c.aic \in Nat \ {0} /\ c.aic \in Nat
  <2>1. tileM \in 1 .. 256 /\ tileN \in 1 .. 256
    BY BaseRange
  <2>2. tileK \in Nat \ {0}
    BY BaseKFacts
  <2>3. ka \in 1 .. 4
    BY StepKaFacts
  <2>4. c.m \in Nat \ {0} /\ c.n \in Nat \ {0} /\ c.k \in Nat \ {0} /\ c.aic \in Nat \ {0}
    BY CallFacts
  <2> HIDE DEF tileM, tileN, tileK, ka
  <2> QED
    BY <2>1, <2>2, <2>3, <2>4
<1> HIDE DEF tileM, tileN, tileK, ka
<1>3. /\ mTiles \in Nat \ {0} /\ c.m <= tileM * mTiles /\ tileM * (mTiles - 1) < c.m
      /\ nTiles \in Nat \ {0} /\ c.n <= tileN * nTiles /\ tileN * (nTiles - 1) < c.n
  BY <1>2, CeilDivIs
<1> HIDE DEF mTiles, nTiles
<1>4. total \in Nat \ {0} /\ total = nTiles * mTiles
  <2>1. mTiles * nTiles = nTiles * mTiles
    BY <1>3
  <2> QED
    BY <1>3, <2>1, Quotients
<1> HIDE DEF total
<1>5. left \in 0 .. c.aic - 1 /\ left <= total
  <2>1. total \in Nat
    BY <1>4
  <2>2. total \div c.aic \in Nat /\ total % c.aic \in 0 .. c.aic - 1
        /\ total = c.aic * (total \div c.aic) + (total % c.aic)
    BY <1>2, <2>1, DivMod
  <2>3. c.aic * (total \div c.aic) \in Nat
    BY <1>2, <2>2, TimesGrows
  <2> QED
    BY <2>1, <2>2, <2>3
<1> HIDE DEF left
<1>6. tail \in Nat /\ tail <= total /\ (tail # 0 => tail \in Nat \ {0} /\ tail <= c.aic)
  BY <1>2, <1>4, <1>5
<1> HIDE DEF tail
<1>7. asked \in Nat \ {0} /\ asked <= c.aic
      /\ (tail # 0 => asked = c.aic \div tail /\ tail * asked <= c.aic)
  <2>1. CASE tail = 0
    BY <1>2, <2>1
  <2>2. CASE tail # 0
    <3> DEFINE q == c.aic \div tail
    <3>1. tail \in Nat \ {0} /\ tail <= c.aic
      BY <1>6, <2>2
    <3>2. q \in Nat /\ tail * q <= c.aic /\ c.aic < tail * q + tail
      BY <1>2, <3>1, FloorIs
    <3>3. asked = q
      BY <2>2
    <3> HIDE DEF q
    <3>4. q # 0
      <4>1. q = 0 => tail * q = 0
        BY <3>1
      <4> QED
        BY <1>2, <3>1, <3>2, <4>1
    <3>5. q <= tail * q
      <4>1. q * 1 <= q * tail
        BY <3>1, <3>2, <3>4, TimesGrows, 1 \in Nat
      <4>2. q * 1 = q /\ q * tail = tail * q
        BY <3>1, <3>2
      <4> QED
        BY <4>1, <4>2
    <3>6. tail * q \in Nat
      BY <3>1, <3>2, TimesGrows
    <3>7. q \in Nat \ {0} /\ q <= c.aic /\ tail * q <= c.aic
      BY <1>2, <3>2, <3>4, <3>5, <3>6
    <3> QED
      BY <3>3, <3>7 DEF q
  <2> QED
    BY <2>1, <2>2
<1> HIDE DEF asked
<1>8. /\ tileK * step \in Nat \ {0} /\ per \in Nat \ {0}
      /\ parts \in Nat \ {0} /\ per * (parts - 1) < slabs /\ slabs <= per * parts
      /\ parts <= asked
  BY <1>2, <1>7, PartsOfK
<1> HIDE DEF step, per, parts
<1>9. splits \in Nat \ {0} /\ splits <= c.aic /\ (tail = 0 => splits = 1)
      /\ (tail # 0 => splits = parts /\ splits <= asked)
  BY <1>2, <1>7, <1>8
<1> HIDE DEF splits
<1>10. from \in Nat \ {0} /\ (tail # 0 => from >= 2 * splits)
  <2>1. CASE tail = 0
    <3>1. byBlocks = 1 /\ TASK_RATIO * splits = 2
      BY <1>9, <2>1 DEF TASK_RATIO
    <3> QED
      BY <2>1, <3>1 DEF Larger, Smaller
  <2>2. CASE tail # 0
    <3> DEFINE a == c.aic * TASK_RATIO
               q == a \div tail
    <3>1. tail \in Nat \ {0} /\ a \in Nat /\ a = 2 * c.aic
      BY <1>2, <1>6, <2>2 DEF TASK_RATIO
    <3>2. byBlocks = q
      BY <2>2
    <3> HIDE DEF a
    <3>3. q \in Nat /\ a < tail * (q + 1)
      BY <3>1, FloorIs
    <3> HIDE DEF q, byBlocks
    <3>4. 2 * asked <= q
      <4>1. tail * (2 * asked) = 2 * (tail * asked) /\ tail * asked \in Nat
        BY <1>7, <3>1
      <4>2. tail * asked <= c.aic
        BY <1>7, <2>2
      <4> DEFINE y == 2 * asked
                 z == q + 1
                 w == tail * asked
      <4>3. tail * y = 2 * w /\ w \in Nat /\ w <= c.aic
        BY <4>1, <4>2
      <4>4. y \in Nat /\ z \in Nat /\ a < tail * z
        BY <1>7, <3>3
      <4> HIDE DEF y, z, w
      <4>5. tail * y <= a
        BY <1>2, <3>1, <4>3
      <4>6. tail * y < tail * z
        BY <3>1, <4>3, <4>4, <4>5, TimesGrows
      <4>7. y < z
        BY <3>1, <4>4, <4>6, TimesGrows
      <4> QED
        BY <1>7, <3>3, <4>7 DEF y, z
    <3>5. TASK_RATIO * splits = 2 * splits /\ 2 * splits <= q
      BY <1>7, <1>9, <2>2, <3>3, <3>4 DEF TASK_RATIO
    <3>6. Smaller(TASK_RATIO * splits, byBlocks) = 2 * splits
      BY <1>9, <3>2, <3>3, <3>5 DEF Smaller
    <3>7. from = 2 * splits
      BY <1>9, <3>6 DEF Larger
    <3> QED
      BY <1>9, <3>7
  <2> QED
    BY <2>1, <2>2
<1> HIDE DEF from
<1>11. /\ segments \in Nat \ {0} /\ segments >= from
       /\ 2 * reduceM * tileN * 4 <= UBSize
  BY <1>2, <1>10, SegmentsFacts
<1> HIDE DEF segments
<1>12. /\ reduceM \in Nat \ {0} /\ perTile \in Nat \ {0}
       /\ tileM <= reduceM * perTile \/ c.m <= reduceM * perTile
  BY <1>2, <1>11, SegmentsCover
<1>13. splits = 1 \/ \E a \in Nat \ {0} : a >= 2 * splits /\ reduceM = CeilDiv(tileM, a)
  <2>1. tail # 0 => segments >= 2 * splits
    BY <1>9, <1>10, <1>11
  <2> QED
    BY <1>9, <1>11, <2>1
<1> HIDE DEF reduceM, perTile
<1>14. /\ window \in Nat \ {0} /\ mainRow \in Nat
       /\ mTiles - mainRow * window \in Nat \ {0}
       /\ window * mainRow + (mTiles - mainRow * window) = mTiles
  BY <1>3, WindowFacts
<1> HIDE DEF window, mainRow
<1>15. tileK * ka \in Nat \ {0}
  BY <1>2, Quotients
<1>16. total - tail \in Nat /\ (total - tail) + tail = nTiles * mTiles
  BY <1>4, <1>6
<1> DEFINE p == Plan(c)
<1>17. /\ p.tileM = tileM /\ p.tileN = tileN /\ p.tileK = tileK
       /\ p.mTiles = mTiles /\ p.nTiles = nTiles
       /\ p.dp = total - tail /\ p.tail = tail
       /\ p.slabK = tileK * ka /\ p.splits = splits
       /\ p.slabKSk = IF tail = 0 THEN tileK * ka ELSE tileK * step
       /\ p.slabsPer = per /\ p.reduceM = reduceM /\ p.perTile = perTile
       /\ p.window = window /\ p.mainRow = mainRow
       /\ p.tailWindow = mTiles - mainRow * window
  BY <1>1
<1> HIDE DEF p, slabs
<1>18. p.slabKSk \in Nat \ {0}
  BY <1>8, <1>15, <1>17
<1>19. p.tail # 0 => /\ p.slabsPer * (p.splits - 1) < CeilDiv(c.k, p.slabKSk)
                     /\ CeilDiv(c.k, p.slabKSk) <= p.slabsPer * p.splits
  <2> SUFFICES ASSUME p.tail # 0
               PROVE  /\ p.slabsPer * (p.splits - 1) < CeilDiv(c.k, p.slabKSk)
                      /\ CeilDiv(c.k, p.slabKSk) <= p.slabsPer * p.splits
    OBVIOUS
  <2>1. p.slabKSk = tileK * step /\ p.splits = parts /\ p.slabsPer = per
    BY <1>9, <1>17
  <2>2. CeilDiv(c.k, p.slabKSk) = slabs
    BY <2>1 DEF slabs
  <2> QED
    BY <1>8, <2>1, <2>2
<1>20. Divided(c, p)
  BY <1>2, <1>3, <1>6, <1>8, <1>9, <1>12, <1>14, <1>15, <1>16, <1>17, <1>18, <1>19 DEF Divided
<1>21. Reserved(c, p)
  BY <1>9, <1>11, <1>13, <1>17 DEF Reserved
<1> QED
  BY <1>17, <1>20, <1>21 DEF p, tileM, tileN, tileK, ka

\* Two rows of 256 partial sums fit into UB for every core and for the output.
FewCores == \A c \in Calls : 2048 * (c.aic + 1) <= UBSize

\* The rows of a segment of r rows in s parts, and in the output.
StageRows(s, r) == (s + 1) * r

\* They are not many: in two parts or more, segments have at most half a tile.
LEMMA StageFits ==
    ASSUME NEW s \in Nat \ {0}, NEW r \in Nat \ {0}, NEW tileM \in Nat \ {0},
           tileM <= 256, NEW a \in Nat \ {0}, a >= 2 * s, r = CeilDiv(tileM, a), s # 1
    PROVE  StageRows(s, r) <= 2 * (s + 1) \/ StageRows(s, r) <= 193
<1> SUFFICES (s + 1) * r <= 2 * (s + 1) \/ (s + 1) * r <= 193
  BY DEF StageRows
<1> DEFINE y == r - 1
           p == s * y
<1>1. y \in Nat /\ r = y + 1
  OBVIOUS
<1>2. a * y < tileM
  <2>1. tileM \in Nat \ {0}
    OBVIOUS
  <2> QED
    BY <2>1, CeilDivIs
<1> HIDE DEF y
<1>3. p \in Nat /\ p <= 127
  <2>1. p \in Nat /\ (2 * s) * y = 2 * p /\ 2 * s \in Nat
    BY <1>1
  <2>2. y * (2 * s) <= y * a
    <3>1. y = 0 => y * (2 * s) = 0 /\ y * a = 0
      BY <2>1
    <3>2. y # 0 => y \in Nat \ {0}
      BY <1>1
    <3> QED
      BY <2>1, <3>1, <3>2, TimesGrows
  <2>3. y * (2 * s) = (2 * s) * y /\ y * a = a * y /\ a * y \in Nat
    BY <1>1, <2>1
  <2> HIDE DEF p
  <2> DEFINE z == a * y
  <2>4. 2 * p <= z /\ z < tileM
    BY <1>2, <2>1, <2>2, <2>3
  <2> HIDE DEF z
  <2> QED
    BY <2>1, <2>3, <2>4 DEF z
<1>4. (s + 1) * r = p + y + s + 1
  BY <1>1
<1>5. CASE y <= 1
  <2>1. y = 0 \/ y = 1
    BY <1>1, <1>5
  <2>2. (s + 1) * r = s + 1 \/ (s + 1) * r = 2 * (s + 1)
    BY <1>1, <2>1
  <2> QED
    BY <2>2
<1>6. CASE y >= 2
  <2>1. (s - 2) * (y - 2) = p - 2 * s - 2 * y + 4
    BY <1>1
  <2>2. s - 2 \in Nat /\ y - 2 \in Nat
    BY <1>1, <1>6
  <2>3. (s - 2) * (y - 2) \in Nat
    BY <2>2
  <2> DEFINE w == (s - 2) * (y - 2)
  <2>4. w \in Nat /\ w = p - 2 * s - 2 * y + 4
    BY <2>1, <2>3
  <2> HIDE DEF w, p
  <2>5. p + y + s + 1 <= 193
    BY <1>1, <1>3, <2>4
  <2> QED
    BY <1>4, <2>5
<1> QED
  BY <1>1, <1>5, <1>6

\* The bytes of so many rows of a segment.
LEMMA StageBytes ==
    ASSUME NEW x \in Nat, NEW n \in 1 .. 256
    PROVE  x * n * 4 <= x * 1024 /\ x * n * 4 \in Nat
<1>1. x * n <= x * 256 /\ x * n \in Nat
  <2>1. CASE x = 0
    BY <2>1
  <2>2. CASE x # 0
    BY <2>2, TimesGrows, x \in Nat \ {0}, n \in Nat, 256 \in Nat
  <2> QED
    BY <2>1, <2>2
<1>2. x * 256 * 4 = x * 1024
  OBVIOUS
<1> DEFINE y == x * n
<1> HIDE DEF y
<1>3. y \in Nat /\ y <= x * 256
  BY <1>1 DEF y
<1>4. y * 4 <= x * 1024 /\ y * 4 \in Nat
  BY <1>2, <1>3
<1> QED
  BY <1>4 DEF y

\* UB holds the partial sums of a segment and the output.
LEMMA UBFits ==
    ASSUME NEW c \in Calls, NEW p, Divided(c, p), Reserved(c, p),
           2048 * (c.aic + 1) <= UBSize
    PROVE  p.splits * p.reduceM * p.tileN * 4 + p.reduceM * p.tileN * c.bytes <= UBSize
<1> DEFINE s == p.splits
           r == p.reduceM
           n == p.tileN
           b == c.bytes
           x == (s + 1) * r
<1>1. /\ s \in Nat \ {0} /\ r \in Nat \ {0} /\ n \in 1 .. 256 /\ p.tileM \in 1 .. 256
      /\ b \in {2, 4} /\ UBSize \in Nat /\ UBSize >= 253952
      /\ c.aic \in Nat \ {0} /\ s <= c.aic
      /\ 2 * r * n * 4 <= UBSize
      /\ s = 1 \/ \E a \in Nat \ {0} : a >= 2 * s /\ r = CeilDiv(p.tileM, a)
  BY CallFacts DEF Divided, Reserved
<1> HIDE DEF s, r, n, b
<1>2. s * r * n * 4 + r * n * b <= x * n * 4
  <2>1. r * n \in Nat
    BY <1>1
  <2>2. r * n * b <= r * n * 4
    <3> DEFINE y == r * n
    <3>1. y \in Nat
      BY <2>1
    <3> HIDE DEF y
    <3>2. y * b <= y * 4
      BY <1>1, <3>1
    <3> QED
      BY <3>2 DEF y
  <2>3. x * n * 4 = s * r * n * 4 + r * n * 4
    BY <1>1
  <2>4. s * r * n * 4 \in Nat /\ r * n * b \in Nat /\ r * n * 4 \in Nat
    BY <1>1
  <2> QED
    BY <2>2, <2>3, <2>4
<1>3. x \in Nat /\ x * n * 4 <= x * 1024 /\ x * n * 4 \in Nat
  <2>1. x \in Nat
    BY <1>1
  <2> HIDE DEF x
  <2> QED
    BY <1>1, <2>1, StageBytes
<1>4. x * n * 4 <= UBSize
  <2>1. CASE s = 1
    <3>1. x = 2 * r
      BY <1>1, <2>1
    <3> HIDE DEF x
    <3>2. x * n * 4 = 2 * r * n * 4
      BY <3>1
    <3>3. 2 * r * n * 4 <= UBSize
      BY <1>1
    <3> QED
      BY <3>2, <3>3
  <2>2. CASE s # 1
    <3>1. x <= 2 * (s + 1) \/ x <= 193
      <4>1. PICK a \in Nat \ {0} : a >= 2 * s /\ r = CeilDiv(p.tileM, a)
        BY <1>1, <2>2
      <4> DEFINE tileM == p.tileM
      <4>2. tileM \in Nat \ {0} /\ tileM <= 256 /\ r = CeilDiv(tileM, a)
        BY <1>1, <4>1
      <4> HIDE DEF tileM
      <4>3. s \in Nat \ {0} /\ r \in Nat \ {0}
        BY <1>1
      <4>4. a \in Nat \ {0} /\ a >= 2 * s /\ s # 1
        BY <2>2, <4>1
      <4>5. x = StageRows(s, r)
        BY DEF StageRows
      <4>6. StageRows(s, r) <= 2 * (s + 1) \/ StageRows(s, r) <= 193
        BY <4>2, <4>3, <4>4, StageFits
      <4> HIDE DEF x
      <4> QED
        BY <4>5, <4>6
    <3> HIDE DEF x
    <3>2. x * 1024 <= UBSize
      BY <1>1, <1>3, <3>1
    <3> DEFINE y == x * n * 4
    <3>3. y <= x * 1024 /\ y \in Nat
      BY <1>3
    <3> HIDE DEF y
    <3>4. y <= UBSize
      BY <1>1, <1>3, <3>2, <3>3
    <3> QED
      BY <3>4 DEF y
  <2> QED
    BY <2>1, <2>2
<1>5. s * r * n * 4 + r * n * b \in Nat
  BY <1>1
<1> DEFINE y == s * r * n * 4 + r * n * b
           z == x * n * 4
<1>6. y <= z /\ y \in Nat /\ z \in Nat /\ z <= UBSize
  BY <1>2, <1>3, <1>4, <1>5
<1> HIDE DEF y, z
<1>7. y <= UBSize
  BY <1>1, <1>6
<1> QED
  BY <1>7 DEF y, s, r, n, b

\* L1 holds two slabs of A and B, as L0 holds two steps of both.
LEMMA SlabFits ==
    ASSUME NEW c \in Calls
    PROVE  /\ DB * (BaseM(c) + BaseN(c)) * (BaseK(c) * StepKa(c)) * c.bytes <= L1Size
           /\ DB * Larger(BaseM(c), BaseN(c)) * BaseK(c) * c.bytes <= L0Size
<1> DEFINE mn == BaseM(c) + BaseN(c)
           g == Larger(BaseM(c), BaseN(c))
           tk == BaseK(c)
           ka == StepKa(c)
           b == c.bytes
<1>1. /\ mn \in Nat \ {0} /\ g \in Nat \ {0} /\ mn <= 2 * g
      /\ tk \in Nat \ {0} /\ ka \in 1 .. 4 /\ b \in {2, 4}
      /\ L1Size \in Nat /\ L0Size \in Nat /\ 2 * L0Size <= L1Size
  <2>1. /\ BaseM(c) \in 1 .. 256 /\ BaseN(c) \in 1 .. 256 /\ g \in 1 .. 256
        /\ BaseM(c) <= g /\ BaseN(c) <= g
    BY BaseRange
  <2>2. tk \in Nat \ {0} /\ ka \in 1 .. 4
    BY BaseKFacts, StepKaFacts
  <2>3. b \in {2, 4} /\ L1Size \in Nat /\ L0Size \in Nat /\ 2 * L0Size <= L1Size
    BY CallFacts
  <2>4. mn \in Nat \ {0} /\ mn <= 2 * g
    <3> DEFINE x == BaseM(c)
               y == BaseN(c)
    <3>1. x \in 1 .. 256 /\ y \in 1 .. 256 /\ g \in 1 .. 256 /\ x <= g /\ y <= g
      BY <2>1
    <3>2. mn = x + y
      OBVIOUS
    <3> HIDE DEF x, y, g, mn
    <3> QED
      BY <3>1, <3>2
  <2> HIDE DEF g, tk, ka, b, mn
  <2> QED
    BY <2>1, <2>2, <2>3, <2>4
<1>2. DB * g * tk * b <= L0Size
  BY BaseKFacts
<1>3. ka = 1 \/ \E s \in ka .. 8 : mn * (tk * s) * b * DB <= L1Size
  BY StepKaFacts DEF StepFits
<1> HIDE DEF mn, g, tk, ka, b
<1>4. DB * mn * (tk * ka) * b <= L1Size
  <2>1. CASE ka = 1
    <3> DEFINE x == tk * b
    <3>1. x \in Nat \ {0} /\ DB * mn * (tk * ka) * b = 2 * (mn * x) /\ DB * g * tk * b = 2 * (g * x)
      BY <1>1, <2>1 DEF DB
    <3> HIDE DEF x
    <3>2. x * mn <= x * (2 * g)
      BY <1>1, <3>1, TimesGrows, 2 * g \in Nat
    <3>3. x * mn = mn * x /\ x * (2 * g) = 2 * (g * x) /\ mn * x \in Nat /\ g * x \in Nat
      BY <1>1, <3>1
    <3> DEFINE u == mn * x
               v == g * x
    <3>4. u \in Nat /\ v \in Nat /\ u <= 2 * v /\ 2 * v <= L0Size
      BY <1>2, <3>1, <3>2, <3>3
    <3> HIDE DEF u, v
    <3>5. 2 * u <= L1Size
      BY <1>1, <3>4
    <3> QED
      BY <3>1, <3>5 DEF u
  <2>2. CASE ka # 1
    <3>1. PICK s \in ka .. 8 : mn * (tk * s) * b * DB <= L1Size
      BY <1>3, <2>2
    <3> DEFINE x == 2 * mn * tk * b
    <3>2. x \in Nat \ {0} /\ mn * (tk * s) * b * DB = x * s /\ DB * mn * (tk * ka) * b = x * ka
      <4>1. s \in Nat /\ ka \in Nat
        BY <1>1
      <4>2. mn * (tk * s) * b * DB = x * s /\ DB * mn * (tk * ka) * b = x * ka
        BY <1>1, <4>1 DEF DB
      <4>3. 2 * mn \in Nat \ {0} /\ 2 * mn * tk \in Nat \ {0} /\ b \in Nat \ {0}
        BY <1>1, Quotients
      <4>4. x \in Nat \ {0}
        BY <4>3, Quotients
      <4> QED
        BY <4>2, <4>4
    <3> HIDE DEF x
    <3>3. x * ka <= x * s /\ x * ka \in Nat /\ x * s \in Nat
      BY <1>1, <3>2, TimesGrows, s \in Nat, ka \in Nat
    <3> DEFINE u == x * ka
               v == x * s
    <3>4. u \in Nat /\ v \in Nat /\ u <= v /\ v <= L1Size
      BY <3>1, <3>2, <3>3
    <3> HIDE DEF u, v
    <3>5. u <= L1Size
      BY <1>1, <3>4
    <3> QED
      BY <3>2, <3>5 DEF u
  <2> QED
    BY <2>1, <2>2
<1> QED
  BY <1>2, <1>4 DEF mn, g, tk, ka, b

\* The buffers of every call fit.
LEMMA BuffersOfCall ==
    ASSUME FewCores, call \in Calls, plan = Plan(call)
    PROVE  BuffersFit
<1>1. /\ Divided(call, plan) /\ Reserved(call, plan)
      /\ plan.tileM = BaseM(call) /\ plan.tileN = BaseN(call)
      /\ plan.tileK = BaseK(call) /\ plan.slabK = BaseK(call) * StepKa(call)
  BY PlanFacts
<1>2. L1Used <= L1Size /\ L0Used <= L0Size
  BY <1>1, SlabFits DEF L1Used, L0Used
<1>3. L0CUsed <= L0CSize
  <2> DEFINE x == plan.tileM
             y == plan.tileN
  <2>1. x \in 1 .. 256 /\ y \in 1 .. 256 /\ L0CSize \in Nat /\ L0CSize >= 262144
    BY <1>1, CallFacts DEF Divided
  <2> HIDE DEF x, y
  <2>2. x * y * 4 <= x * 1024
    BY <2>1, StageBytes, x \in Nat
  <2>3. x * y * 4 <= L0CSize
    <3> DEFINE z == x * y * 4
    <3>1. z \in Int /\ z <= x * 1024
      BY <2>1, <2>2
    <3> HIDE DEF z
    <3>2. z <= L0CSize
      BY <2>1, <3>1
    <3> QED
      BY <3>2 DEF z
  <2> QED
    BY <2>3 DEF L0CUsed, x, y
<1>4. UBUsed <= UBSize
  BY <1>1, UBFits DEF UBUsed, FewCores
<1> QED
  BY <1>2, <1>3, <1>4 DEF BuffersFit

-----------------------------------------------------------------------------
(* Stream-K: the tiles.  Whatever the order, every tile has one number.      *)

\* What the orders use of the division.
Grid == /\ plan.nTiles \in Nat \ {0} /\ plan.mTiles \in Nat \ {0}
        /\ plan.window \in Nat \ {0} /\ plan.mainRow \in Nat /\ plan.tailWindow \in Nat \ {0}
        /\ plan.window * plan.mainRow + plan.tailWindow = plan.mTiles

\* The tiles of a window of rows, and their numbers: in the full windows, and
\* in the last one.
MainIndex(s, n, y) == (plan.window * plan.nTiles) * s + (plan.window * n + y)
TailIndex(n, y) == (plan.nTiles * plan.window) * plan.mainRow + (plan.tailWindow * n + y)
Turned(line, n) == IF line % 2 = 0 THEN n ELSE plan.nTiles - 1 - n

\* The tiles in s windows of w rows of n tiles.
Windows(n, w, s) == n * (w * s)

\* The window of a tile.
LEMMA DividedTwice ==
    ASSUME NEW i \in Nat, NEW n \in Nat \ {0}, NEW w \in Nat \ {0},
           NEW s \in Nat, Windows(n, w, s) <= i
    PROVE  (i \div n) \div w \in Nat /\ (i \div n) \div w >= s
           /\ (i < Windows(n, w, s) + n * w => (i \div n) \div w = s)
<1> DEFINE e == i - n * (w * s)
<1>0. /\ n * (w * s) \in Nat /\ e \in Nat /\ i = n * (w * s) + e
      /\ (i < Windows(n, w, s) + n * w => e < n * w)
  <2>1. n * (w * s) \in Nat /\ n * w \in Nat
    BY TimesGrows
  <2>2. n * (w * s) <= i /\ (i < Windows(n, w, s) + n * w <=> i < n * (w * s) + n * w)
    BY DEF Windows
  <2> DEFINE x == n * (w * s)
             y == n * w
  <2>3. x \in Nat /\ y \in Nat /\ x <= i /\ e = i - x
    BY <2>1, <2>2
  <2> HIDE DEF x, y, e
  <2>4. e \in Nat /\ i = x + e /\ (i < x + y => e < y)
    BY <2>3
  <2> QED
    BY <2>1, <2>2, <2>4 DEF x, y
<1> HIDE DEF e
<1> DEFINE q == e \div n
           r == e % n
           t == q \div w
           z == q % w
<1>1. q \in Nat /\ r \in 0 .. n - 1 /\ e = n * q + r
  BY <1>0, DivMod
<1>2. t \in Nat /\ z \in 0 .. w - 1 /\ q = w * t + z
  <2>1. q \in Nat
    BY <1>1
  <2> HIDE DEF q
  <2> QED
    BY <2>1, DivMod
<1>3. e < n * w => q < w
  <2>1. n * q <= e /\ n * q \in Nat /\ n * w \in Nat
    <3> HIDE DEF q, r
    <3>1. n * q \in Nat /\ n * w \in Nat
      BY <1>1, TimesGrows
    <3> QED
      BY <1>0, <1>1, <3>1
  <2> HIDE DEF q
  <2>2. n * q < n * w => q < w
    BY <1>1, TimesGrows
  <2> DEFINE u == n * q
             v == n * w
  <2>3. u \in Nat /\ v \in Nat /\ u <= e /\ (u < v => q < w)
    BY <2>1, <2>2
  <2> HIDE DEF u, v
  <2>4. e < v => q < w
    BY <1>0, <2>3
  <2> QED
    BY <2>4 DEF v
<1>4. q < w => t = 0
  <2> HIDE DEF q, t, z
  <2>1. t # 0 => w * 1 <= w * t
    BY <1>2, TimesGrows, 1 \in Nat
  <2>2. w * t \in Nat /\ w * 1 = w
    BY <1>2, TimesGrows
  <2> QED
    BY <1>2, <2>1, <2>2
<1> HIDE DEF q, r, t, z
<1>5. i \div n = w * s + q
  <2>1. i = n * (w * s + q) + r
    BY <1>0, <1>1
  <2>2. w * s \in Nat /\ w * s + q \in Nat
    BY <1>1, TimesGrows
  <2> QED
    BY <1>1, <2>1, <2>2, DivIs
<1>6. (w * s + q) \div w = s + t
  <2> DEFINE p == s + t
  <2>1. w * s + q = w * p + z
    BY <1>2
  <2>2. p \in Nat
    BY <1>2
  <2> HIDE DEF p
  <2>3. (w * p + z) \div w = p
    BY <1>2, <2>2, DivIs
  <2> QED
    BY <2>1, <2>3 DEF p
<1> QED
  BY <1>0, <1>2, <1>3, <1>4, <1>5, <1>6

\* A number in a block of rows.
LEMMA InBlock ==
    ASSUME NEW w \in Nat \ {0}, NEW c \in Nat \ {0}, NEW n \in Nat, n < c,
           NEW y \in Nat, y < w
    PROVE  w * n + y \in Nat /\ w * n + y < w * c
<1>1. w * n \in Nat /\ w * c \in Nat /\ w * n + w <= w * c
  BY TimesGrows
<1> QED
  BY <1>1

LEMMA MainTile ==
    ASSUME Grid, NEW s \in Nat, s < plan.mainRow, NEW n \in Nat, n < plan.nTiles,
           NEW y \in Nat, y < plan.window
    PROVE  /\ MainIndex(s, n, y) \in Nat
           /\ SlidingTile(MainIndex(s, n, y)) = <<plan.window * s + y, Turned(s, n)>>
           /\ MainIndex(s, n, y) < plan.nTiles * plan.mTiles
           /\ plan.window * s + y < plan.window * plan.mainRow
           /\ plan.window * s + y \in Nat
<1> DEFINE w == plan.window
           c == plan.nTiles
           r == plan.mainRow
           e == w * n + y
           i == MainIndex(s, n, y)
<1>1. /\ w \in Nat \ {0} /\ c \in Nat \ {0} /\ r \in Nat /\ s < r /\ n < c /\ y < w
      /\ plan.tailWindow \in Nat \ {0} /\ plan.mTiles = w * r + plan.tailWindow
  BY DEF Grid
<1>2. i = (w * c) * s + e
  BY DEF MainIndex
<1>3. SlidingTile(i) =
        LET inMain == (i \div c) \div w < r
            line == IF inMain THEN (i \div c) \div w ELSE r
            high == IF inMain THEN w ELSE plan.tailWindow
            j    == IF inMain THEN i ELSE i - r * w * c
            k    == (j \div high) % c
        IN  <<line * w + (j % high), IF line % 2 = 0 THEN k ELSE c - 1 - k>>
  BY DEF SlidingTile
<1>4. plan.window * s + y = w * s + y /\ plan.window * r = w * r
      /\ Turned(s, n) = IF s % 2 = 0 THEN n ELSE c - 1 - n
  BY DEF Turned
<1> HIDE DEF w, c, r
<1>5. e \in Nat /\ e < w * c
  BY <1>1, InBlock
<1> HIDE DEF e
<1>6. i \in Nat /\ i = c * (w * s) + e /\ i = w * (c * s + n) + y
  <2>1. (w * c) * s = c * (w * s) /\ (w * c) * s \in Nat
    BY <1>1
  <2>2. (w * c) * s + (w * n + y) = w * (c * s + n) + y
    BY <1>1
  <2> QED
    BY <1>2, <1>5, <2>1, <2>2 DEF e
<1> HIDE DEF i
<1>7. (i \div c) \div w = s
  <2>1. c * w = w * c /\ w * c \in Nat /\ c * (w * s) \in Nat
    BY <1>1
  <2>2. Windows(c, w, s) <= i /\ i < Windows(c, w, s) + c * w
    BY <1>5, <1>6, <2>1 DEF Windows
  <2> QED
    BY <1>1, <1>6, <2>2, DividedTwice
<1>8. c * s + n \in Nat /\ i \div w = c * s + n /\ i % w = y
  <2> DEFINE q == c * s + n
  <2>1. q \in Nat /\ y \in 0 .. w - 1 /\ i = w * q + y
    BY <1>1, <1>6
  <2> HIDE DEF q
  <2>2. i \div w = q /\ i % w = y
    BY <1>1, <2>1, DivIs
  <2> QED
    BY <2>1, <2>2 DEF q
<1>9. (c * s + n) % c = n
  BY <1>1, DivIs, n \in 0 .. c - 1
<1> HIDE DEF c, w, r
<1>10. SlidingTile(i) = <<s * w + y, IF s % 2 = 0 THEN n ELSE c - 1 - n>>
  BY <1>1, <1>3, <1>7, <1>8, <1>9
<1>11. s * w = w * s
  BY <1>1
<1>12. w * s + y \in Nat /\ w * s + y < w * r
  <2>1. r \in Nat \ {0}
    BY <1>1
  <2> QED
    BY <1>1, <2>1, InBlock
<1>13. i < c * plan.mTiles
  <2> DEFINE x == w * s + w
             t == plan.mTiles
  <2>1. x <= t /\ x \in Nat /\ t \in Nat
    <3>1. w * s + w <= w * r /\ w * s \in Nat /\ w * r \in Nat
      BY <1>1, TimesGrows
    <3> QED
      BY <1>1, <3>1
  <2>2. c * x = c * (w * s) + w * c /\ c * (w * s) \in Nat /\ w * c \in Nat
    BY <1>1
  <2>3. i < c * x
    BY <1>5, <1>6, <2>2
  <2> DEFINE u == c * x
             v == c * t
  <2> HIDE DEF x, t
  <2>4. c * x <= c * t /\ c * x \in Nat /\ c * t \in Nat
    BY <1>1, <2>1, TimesGrows
  <2>6. u <= v /\ u \in Nat /\ v \in Nat /\ i < u
    BY <2>3, <2>4
  <2> HIDE DEF u, v
  <2>7. i < v
    BY <1>6, <2>6
  <2>8. i < c * t
    BY <2>7 DEF v
  <2> QED
    BY <2>8 DEF t
<1>14. /\ plan.window * s + y = w * s + y /\ plan.window * plan.mainRow = w * r
       /\ plan.nTiles * plan.mTiles = c * plan.mTiles
  BY DEF w, r, c
<1>15. SlidingTile(i) = <<w * s + y, Turned(s, n)>>
  BY <1>4, <1>10, <1>11
<1>16. SlidingTile(i) = <<plan.window * s + y, Turned(s, n)>>
  BY <1>14, <1>15
<1> QED
  BY <1>6, <1>12, <1>13, <1>14, <1>16 DEF i

LEMMA TailTile ==
    ASSUME Grid, NEW n \in Nat, n < plan.nTiles, NEW y \in Nat, y < plan.tailWindow
    PROVE  /\ TailIndex(n, y) \in Nat
           /\ SlidingTile(TailIndex(n, y)) =
                <<plan.window * plan.mainRow + y, Turned(plan.mainRow, n)>>
           /\ TailIndex(n, y) < plan.nTiles * plan.mTiles
           /\ plan.window * plan.mainRow + y < plan.mTiles
           /\ plan.window * plan.mainRow \in Nat
<1> DEFINE w == plan.window
           c == plan.nTiles
           r == plan.mainRow
           h == plan.tailWindow
           e == h * n + y
           b == (c * w) * r
           i == TailIndex(n, y)
<1>1. /\ w \in Nat \ {0} /\ c \in Nat \ {0} /\ r \in Nat /\ n < c /\ y < h
      /\ h \in Nat \ {0} /\ plan.mTiles = w * r + h
  BY DEF Grid
<1>2. i = b + e
  BY DEF TailIndex
<1>3. SlidingTile(i) =
        LET inMain == (i \div c) \div w < r
            line == IF inMain THEN (i \div c) \div w ELSE r
            high == IF inMain THEN w ELSE h
            j    == IF inMain THEN i ELSE i - r * w * c
            k    == (j \div high) % c
        IN  <<line * w + (j % high), IF line % 2 = 0 THEN k ELSE c - 1 - k>>
  BY DEF SlidingTile
<1>4. Turned(r, n) = IF r % 2 = 0 THEN n ELSE c - 1 - n
  BY DEF Turned
<1>5. /\ plan.window * plan.mainRow + y = w * r + y /\ plan.window * plan.mainRow = w * r
      /\ plan.nTiles * plan.mTiles = c * plan.mTiles
  BY DEF w, r, c
<1> HIDE DEF w, c, r, h
<1>6. e \in Nat /\ e < h * c
  BY <1>1, InBlock
<1>7. b \in Nat /\ b = c * (w * r) /\ r * w * c = b /\ w * r \in Nat
  BY <1>1
<1>8. e \div h = n /\ e % h = y
  <2>1. y \in 0 .. h - 1
    BY <1>1
  <2> QED
    BY <1>1, <2>1, DivIs
<1> HIDE DEF e, b, i
<1>9. i \in Nat /\ i - r * w * c = e
  BY <1>2, <1>6, <1>7
<1>10. ~((i \div c) \div w < r)
  <2>1. Windows(c, w, r) <= i
    BY <1>2, <1>6, <1>7 DEF Windows
  <2>2. (i \div c) \div w \in Nat /\ (i \div c) \div w >= r
    BY <1>1, <1>9, <2>1, DividedTwice
  <2> DEFINE x == (i \div c) \div w
  <2> HIDE DEF x
  <2>3. x \in Nat /\ x >= r
    BY <2>2 DEF x
  <2>4. ~(x < r)
    BY <1>1, <2>3
  <2> QED
    BY <2>4 DEF x
<1>11. n % c = n
  BY <1>1
<1>12. SlidingTile(i) = <<r * w + y, IF r % 2 = 0 THEN n ELSE c - 1 - n>>
  BY <1>3, <1>8, <1>9, <1>10, <1>11
<1>13. r * w = w * r
  BY <1>1
<1>14. SlidingTile(i) = <<plan.window * plan.mainRow + y, Turned(plan.mainRow, n)>>
  BY <1>4, <1>5, <1>12, <1>13 DEF r
<1>15. i < c * plan.mTiles
  <2>1. c * (w * r + h) = b + h * c /\ h * c \in Nat
    BY <1>1, <1>7
  <2> DEFINE u == h * c
  <2>2. u \in Nat /\ e < u /\ c * (w * r + h) = b + u
    BY <1>6, <2>1
  <2> HIDE DEF u
  <2>3. i < b + u
    BY <1>2, <1>6, <1>7, <2>2
  <2> QED
    BY <1>1, <2>2, <2>3
<1>16. w * r + y < plan.mTiles
  BY <1>1, <1>7
<1> QED
  BY <1>5, <1>7, <1>9, <1>14, <1>15, <1>16 DEF i

\* Every number of a tile is that of a place in a window.
LEMMA IndexForm ==
    ASSUME Grid, NEW i \in Nat, i < plan.nTiles * plan.mTiles
    PROVE  \/ \E s, n, y \in Nat : /\ s < plan.mainRow /\ n < plan.nTiles
                                   /\ y < plan.window /\ i = MainIndex(s, n, y)
           \/ \E n, y \in Nat : /\ n < plan.nTiles /\ y < plan.tailWindow
                                /\ i = TailIndex(n, y)
<1> DEFINE w == plan.window
           c == plan.nTiles
           r == plan.mainRow
           h == plan.tailWindow
           d == w * c
           b == (c * w) * r
<1>1. /\ w \in Nat \ {0} /\ c \in Nat \ {0} /\ r \in Nat
      /\ h \in Nat \ {0} /\ plan.mTiles = w * r + h
      /\ i < c * plan.mTiles
  BY DEF Grid
<1>2. /\ \A s, n, y \in Nat : MainIndex(s, n, y) = d * s + (w * n + y)
      /\ \A n, y \in Nat : TailIndex(n, y) = b + (h * n + y)
  BY DEF MainIndex, TailIndex
<1>3. d \in Nat \ {0} /\ b \in Nat /\ b = d * r /\ c * plan.mTiles = b + h * c /\ h * c \in Nat
  <2>1. d \in Nat \ {0}
    BY <1>1, Quotients
  <2>2. b = d * r /\ b \in Nat /\ h * c \in Nat
    BY <1>1
  <2>3. c * (w * r + h) = b + h * c
    BY <1>1
  <2> QED
    BY <1>1, <2>1, <2>2, <2>3
<1>4. CASE i < b
  <2> DEFINE s == i \div d
             e == i % d
             n == e \div w
             y == e % w
  <2>1. s \in Nat /\ e \in 0 .. d - 1 /\ i = d * s + e
    <3> HIDE DEF d
    <3> QED
      BY <1>3, DivMod
  <2> HIDE DEF s, e
  <2>2. n \in Nat /\ y \in 0 .. w - 1 /\ e = w * n + y
    <3>1. e \in Nat
      BY <1>3, <2>1
    <3> HIDE DEF w
    <3> QED
      BY <1>1, <3>1, DivMod
  <2> HIDE DEF n, y
  <2>3. n < c
    <3>1. w * n \in Nat /\ w * c \in Nat /\ (w * n < w * c => n < c)
      BY <1>1, <2>2, TimesGrows
    <3>2. e < w * c
      BY <1>3, <2>1
    <3> DEFINE u == w * n
               v == w * c
    <3> HIDE DEF u, v
    <3>3. u \in Nat /\ v \in Nat /\ (u < v => n < c) /\ e = u + y /\ e < v
      BY <2>2, <3>1, <3>2 DEF u, v
    <3> QED
      BY <2>2, <3>3
  <2>4. s < r
    <3>1. d * s \in Nat /\ d * r \in Nat /\ (d * s < d * r => s < r)
      BY <1>1, <1>3, <2>1, TimesGrows
    <3> DEFINE u == d * s
               v == d * r
    <3> HIDE DEF u, v
    <3>2. u \in Nat /\ v \in Nat /\ (u < v => s < r) /\ i = u + e /\ i < v
      BY <1>3, <1>4, <2>1, <3>1 DEF u, v
    <3>3. e \in Nat
      BY <2>1, <1>3
    <3> QED
      BY <3>2, <3>3
  <2>5. i = MainIndex(s, n, y)
    BY <1>2, <2>1, <2>2
  <2>6. y \in Nat /\ y < w
    BY <1>1, <2>2
  <2> QED
    BY <2>1, <2>2, <2>3, <2>4, <2>5, <2>6
<1>5. CASE ~(i < b)
  <2> DEFINE e == i - b
             n == e \div h
             y == e % h
  <2>1. e \in Nat /\ i = b + e /\ e < h * c
    <3> DEFINE u == h * c
    <3>1. u \in Nat /\ i < b + u /\ b \in Nat
      BY <1>1, <1>3
    <3> HIDE DEF u, b
    <3>2. e \in Nat /\ i = b + e /\ e < u
      BY <1>5, <3>1
    <3> QED
      BY <3>2 DEF u
  <2> HIDE DEF e
  <2>2. n \in Nat /\ y \in 0 .. h - 1 /\ e = h * n + y
    <3> HIDE DEF h
    <3> QED
      BY <1>1, <2>1, DivMod
  <2> HIDE DEF n, y
  <2>3. n < c
    <3>1. h * n \in Nat /\ h * c \in Nat /\ (h * n < h * c => n < c)
      BY <1>1, <2>2, TimesGrows
    <3> DEFINE u == h * n
               v == h * c
    <3> HIDE DEF u, v
    <3>2. u \in Nat /\ v \in Nat /\ (u < v => n < c) /\ e = u + y /\ e < v
      BY <2>1, <2>2, <3>1 DEF u, v
    <3> QED
      BY <2>2, <3>2
  <2>4. i = TailIndex(n, y)
    BY <1>2, <2>1, <2>2
  <2>5. y \in Nat /\ y < h
    BY <1>1, <2>2
  <2> QED
    BY <2>2, <2>3, <2>4, <2>5
<1> QED
  BY <1>4, <1>5

LEMMA PairParts ==
    ASSUME NEW s, NEW a, NEW b, NEW c, NEW d, s = <<a, b>>, s = <<c, d>>
    PROVE  a = c /\ b = d
<1>1. s[1] = a /\ s[2] = b
  OBVIOUS
<1>2. s[1] = c /\ s[2] = d
  OBVIOUS
<1> QED
  BY <1>1, <1>2

\* The tile with a number, in the order of this call.
TileOf(i) == IF plan.tail = 0 THEN SlidingTile(i) ELSE RowMajorTile(i)

LEMMA TurnedFacts ==
    ASSUME Grid, NEW line \in Nat, NEW n \in Nat, n < plan.nTiles
    PROVE  /\ Turned(line, n) \in Nat /\ Turned(line, n) < plan.nTiles
           /\ Turned(line, Turned(line, n)) = n
BY DEF Grid, Turned

LEMMA TileRange ==
    ASSUME Grid, NEW i \in Nat, i < plan.nTiles * plan.mTiles
    PROVE  \E r, n \in Nat : r < plan.mTiles /\ n < plan.nTiles /\ TileOf(i) = <<r, n>>
<1> DEFINE c == plan.nTiles
           t == plan.mTiles
<1>1. c \in Nat \ {0} /\ t \in Nat \ {0} /\ i < c * t
  BY DEF Grid
<1>2. CASE plan.tail = 0
  <2>1. TileOf(i) = SlidingTile(i)
    BY <1>2 DEF TileOf
  <2>2. CASE \E s, n, y \in Nat : /\ s < plan.mainRow /\ n < plan.nTiles
                                  /\ y < plan.window /\ i = MainIndex(s, n, y)
    <3>1. PICK s \in Nat, n \in Nat, y \in Nat :
            /\ s < plan.mainRow /\ n < plan.nTiles
            /\ y < plan.window /\ i = MainIndex(s, n, y)
      BY <2>2
    <3> DEFINE x == plan.window * s + y
    <3>2. SlidingTile(i) = <<x, Turned(s, n)>> /\ x \in Nat
          /\ x < plan.window * plan.mainRow
      BY <3>1, MainTile
    <3> HIDE DEF x
    <3>3. x < plan.mTiles
      <4>1. /\ plan.window * plan.mainRow \in Nat
            /\ plan.window * plan.mainRow + plan.tailWindow = plan.mTiles
            /\ plan.tailWindow \in Nat \ {0}
        BY DEF Grid
      <4> DEFINE u == plan.window * plan.mainRow
                 v == plan.tailWindow
      <4> HIDE DEF u, v
      <4>2. u \in Nat /\ u + v = plan.mTiles /\ v \in Nat \ {0} /\ x < u
        BY <3>2, <4>1 DEF u, v
      <4> QED
        BY <3>2, <4>2
    <3>4. Turned(s, n) \in Nat /\ Turned(s, n) < plan.nTiles
      BY <3>1, TurnedFacts
    <3> QED
      BY <2>1, <3>2, <3>3, <3>4
  <2>3. CASE \E n, y \in Nat : /\ n < plan.nTiles /\ y < plan.tailWindow
                               /\ i = TailIndex(n, y)
    <3>1. PICK n \in Nat, y \in Nat :
            n < plan.nTiles /\ y < plan.tailWindow /\ i = TailIndex(n, y)
      BY <2>3
    <3> DEFINE x == plan.window * plan.mainRow + y
    <3>2. SlidingTile(i) = <<x, Turned(plan.mainRow, n)>> /\ x \in Nat /\ x < plan.mTiles
      BY <3>1, TailTile
    <3> HIDE DEF x
    <3>3. Turned(plan.mainRow, n) \in Nat /\ Turned(plan.mainRow, n) < plan.nTiles
      BY <3>1, TurnedFacts DEF Grid
    <3> QED
      BY <2>1, <3>2, <3>3
  <2> QED
    BY <2>2, <2>3, IndexForm
<1>3. CASE plan.tail # 0
  <2>1. TileOf(i) = <<i \div c, i % c>>
    BY <1>3 DEF TileOf, RowMajorTile
  <2> HIDE DEF c, t
  <2>2. i \div c \in Nat /\ i % c \in 0 .. c - 1 /\ c * (i \div c) <= i
        /\ c * (i \div c) \in Nat
    BY <1>1, DivMod, FloorIs
  <2>3. i \div c < t
    <3> DEFINE q == i \div c
    <3>1. q \in Nat /\ c * q <= i /\ c * q \in Nat
      BY <2>2
    <3> HIDE DEF q
    <3>2. c * t \in Nat /\ (c * q < c * t => q < t)
      BY <1>1, <3>1, TimesGrows
    <3> DEFINE u == c * q
               v == c * t
    <3> HIDE DEF u, v
    <3>3. u \in Nat /\ v \in Nat /\ u <= i /\ i < v /\ (u < v => q < t)
      BY <1>1, <3>1, <3>2 DEF u, v
    <3>4. q < t
      BY <3>3
    <3> QED
      BY <3>4 DEF q
  <2>4. i % c \in Nat /\ i % c < c
    BY <1>1, <2>2
  <2>5. \E r, n \in Nat : r < t /\ n < c /\ TileOf(i) = <<r, n>>
    BY <2>1, <2>2, <2>3, <2>4
  <2> QED
    BY <2>5 DEF c, t
<1> QED
  BY <1>2, <1>3

\* Two numbers with the same tile are the same, in the windows ...
LEMMA SlidingInjective ==
    ASSUME Grid, NEW i \in Nat, i < plan.nTiles * plan.mTiles,
           NEW j \in Nat, j < plan.nTiles * plan.mTiles,
           SlidingTile(i) = SlidingTile(j)
    PROVE  i = j
<1> DEFINE InMain(k, s, n, y) == /\ s < plan.mainRow /\ n < plan.nTiles
                               /\ y < plan.window /\ k = MainIndex(s, n, y)
           InTail(k, n, y) == n < plan.nTiles /\ y < plan.tailWindow /\ k = TailIndex(n, y)
           w == plan.window
           b == plan.window * plan.mainRow
<1>0. w \in Nat \ {0} /\ plan.mainRow \in Nat /\ b \in Nat
  <2>1. w \in Nat \ {0} /\ plan.mainRow \in Nat
    BY DEF Grid
  <2> QED
    BY <2>1
<1>1. ASSUME NEW k \in Nat, NEW s \in Nat, NEW n \in Nat, NEW y \in Nat, InMain(k, s, n, y)
      PROVE  /\ SlidingTile(k) = <<w * s + y, Turned(s, n)>>
             /\ w * s + y \in Nat /\ w * s + y < b
  BY <1>1, MainTile
<1>2. ASSUME NEW k \in Nat, NEW n \in Nat, NEW y \in Nat, InTail(k, n, y)
      PROVE  SlidingTile(k) = <<b + y, Turned(plan.mainRow, n)>>
  BY <1>2, TailTile
<1> HIDE DEF b
<1>3. ASSUME NEW s \in Nat, NEW n \in Nat, NEW y \in Nat, InMain(i, s, n, y),
             NEW q \in Nat, NEW p \in Nat, NEW z \in Nat, InMain(j, q, p, z)
      PROVE  i = j
  <2>1. w * s + y = w * q + z /\ Turned(s, n) = Turned(q, p)
    <3> DEFINE u == w * s + y
               v == w * q + z
               f == Turned(s, n)
               g == Turned(q, p)
    <3>1. SlidingTile(i) = <<u, f>>
      BY <1>1, <1>3
    <3>2. SlidingTile(j) = <<v, g>>
      BY <1>1, <1>3
    <3> HIDE DEF u, v, f, g
    <3>3. u = v /\ f = g
      BY <3>1, <3>2, PairParts
    <3> QED
      BY <3>3 DEF u, v, f, g
  <2>2. y \in 0 .. w - 1 /\ z \in 0 .. w - 1 /\ n < plan.nTiles /\ p < plan.nTiles
    <3>1. y < w /\ z < w /\ n < plan.nTiles /\ p < plan.nTiles
      BY <1>3
    <3> HIDE DEF w
    <3> QED
      BY <1>0, <3>1
  <2>3. s = q /\ y = z
    <3> HIDE DEF w
    <3>1. /\ (w * s + y) \div w = s /\ (w * s + y) % w = y
          /\ (w * q + z) \div w = q /\ (w * q + z) % w = z
      BY <1>0, <2>2, DivIs
    <3> QED
      BY <2>1, <3>1
  <2>4. n = p
    <3>1. Turned(s, Turned(s, n)) = n /\ Turned(q, Turned(q, p)) = p
      BY <2>2, TurnedFacts
    <3> QED
      BY <2>1, <2>3, <3>1
  <2> QED
    BY <1>3, <2>3, <2>4
<1>4. ASSUME NEW n \in Nat, NEW y \in Nat, InTail(i, n, y),
             NEW p \in Nat, NEW z \in Nat, InTail(j, p, z)
      PROVE  i = j
  <2>1. b + y = b + z /\ Turned(plan.mainRow, n) = Turned(plan.mainRow, p)
    <3> DEFINE u == b + y
               v == b + z
               f == Turned(plan.mainRow, n)
               g == Turned(plan.mainRow, p)
    <3>1. SlidingTile(i) = <<u, f>>
      BY <1>2, <1>4
    <3>2. SlidingTile(j) = <<v, g>>
      BY <1>2, <1>4
    <3> HIDE DEF u, v, f, g
    <3>3. u = v /\ f = g
      BY <3>1, <3>2, PairParts
    <3> QED
      BY <3>3 DEF u, v, f, g
  <2>2. y = z
    BY <1>0, <2>1
  <2>3. n = p
    <3>1. n < plan.nTiles /\ p < plan.nTiles
      BY <1>4
    <3>2. /\ Turned(plan.mainRow, Turned(plan.mainRow, n)) = n
          /\ Turned(plan.mainRow, Turned(plan.mainRow, p)) = p
      BY <1>0, <3>1, TurnedFacts
    <3> QED
      BY <2>1, <3>2
  <2> QED
    BY <1>4, <2>2, <2>3
<1>5. ASSUME NEW k \in Nat, NEW s \in Nat, NEW n \in Nat, NEW y \in Nat, InMain(k, s, n, y),
             NEW l \in Nat, NEW p \in Nat, NEW z \in Nat, InTail(l, p, z)
      PROVE  SlidingTile(k) # SlidingTile(l)
  <2> DEFINE x == w * s + y
  <2>1. SlidingTile(k) = <<x, Turned(s, n)>> /\ x \in Nat /\ x < b
    BY <1>1, <1>5
  <2>2. SlidingTile(l) = <<b + z, Turned(plan.mainRow, p)>>
    BY <1>2, <1>5
  <2> HIDE DEF x
  <2>3. x # b + z
    BY <1>0, <2>1
  <2> QED
    BY <2>1, <2>2, <2>3
<1>6. /\ (\E s, n, y \in Nat : InMain(i, s, n, y)) \/ (\E n, y \in Nat : InTail(i, n, y))
      /\ (\E s, n, y \in Nat : InMain(j, s, n, y)) \/ (\E n, y \in Nat : InTail(j, n, y))
  BY IndexForm
<1> HIDE DEF InMain, InTail
<1> QED
  BY <1>3, <1>4, <1>5, <1>6

\* ... and row by row.
LEMMA TileInjective ==
    ASSUME Grid, NEW i \in Nat, i < plan.nTiles * plan.mTiles,
           NEW j \in Nat, j < plan.nTiles * plan.mTiles, TileOf(i) = TileOf(j)
    PROVE  i = j
<1>1. CASE plan.tail = 0
  BY <1>1, SlidingInjective DEF TileOf
<1>2. CASE plan.tail # 0
  <2> DEFINE c == plan.nTiles
  <2>1. c \in Nat \ {0}
    BY DEF Grid
  <2>2. i \div c = j \div c /\ i % c = j % c
    BY <1>2 DEF TileOf, RowMajorTile
  <2> HIDE DEF c
  <2>3. i = c * (i \div c) + (i % c) /\ j = c * (j \div c) + (j % c)
    BY <2>1, DivMod
  <2> QED
    BY <2>2, <2>3
<1> QED
  BY <1>1, <1>2

\* Every tile has a number.
LEMMA TileFound ==
    ASSUME Grid, NEW r \in Nat, r < plan.mTiles, NEW n \in Nat, n < plan.nTiles
    PROVE  \E i \in Nat : i < plan.nTiles * plan.mTiles /\ TileOf(i) = <<r, n>>
<1> DEFINE c == plan.nTiles
           t == plan.mTiles
           w == plan.window
           b == plan.window * plan.mainRow
           h == plan.tailWindow
<1>1. /\ c \in Nat \ {0} /\ t \in Nat \ {0} /\ w \in Nat \ {0} /\ plan.mainRow \in Nat
      /\ h \in Nat \ {0} /\ b \in Nat /\ b + h = t /\ r < t /\ n < c /\ b = w * plan.mainRow
  <2>1. w \in Nat \ {0} /\ plan.mainRow \in Nat
    BY DEF Grid
  <2>2. b \in Nat
    BY <2>1
  <2> QED
    BY <2>1, <2>2 DEF Grid
<1>2. CASE plan.tail # 0
  <2> DEFINE i == c * r + n
  <2>1. i \in Nat /\ i < c * t
    <3> HIDE DEF c, t
    <3> QED
      BY <1>1, InBlock
  <2>2. i \div c = r /\ i % c = n
    <3> HIDE DEF c
    <3>1. n \in 0 .. c - 1
      BY <1>1
    <3> QED
      BY <1>1, <3>1, DivIs
  <2> HIDE DEF i
  <2>3. TileOf(i) = <<r, n>>
    BY <1>2, <2>2 DEF TileOf, RowMajorTile
  <2> QED
    BY <2>1, <2>3
<1>3. CASE plan.tail = 0 /\ r < b
  <2> DEFINE s == r \div w
             y == r % w
             k == Turned(s, n)
             i == MainIndex(s, k, y)
  <2>1. s \in Nat /\ y \in 0 .. w - 1 /\ r = w * s + y
    <3> HIDE DEF w
    <3> QED
      BY <1>1, DivMod
  <2>2. y \in Nat /\ y < w
    <3> HIDE DEF w
    <3> QED
      BY <1>1, <2>1
  <2> HIDE DEF s, y
  <2>3. s < plan.mainRow
    <3> DEFINE u == w * s
    <3>1. u \in Nat /\ r = u + y /\ (u < b => s < plan.mainRow)
      <4> HIDE DEF w, b
      <4> QED
        BY <1>1, <2>1, TimesGrows
    <3> HIDE DEF u, b
    <3> QED
      BY <1>1, <1>3, <2>2, <3>1
  <2>4. k \in Nat /\ k < c /\ Turned(s, k) = n
    BY <1>1, <2>1, TurnedFacts
  <2> HIDE DEF k
  <2>5. i \in Nat /\ SlidingTile(i) = <<w * s + y, Turned(s, k)>> /\ i < c * t
    BY <2>1, <2>2, <2>3, <2>4, MainTile
  <2> HIDE DEF i
  <2>6. TileOf(i) = <<r, n>>
    BY <1>3, <2>1, <2>4, <2>5 DEF TileOf
  <2> QED
    BY <2>5, <2>6
<1>4. CASE plan.tail = 0 /\ ~(r < b)
  <2> DEFINE y == r - b
             k == Turned(plan.mainRow, n)
             i == TailIndex(k, y)
  <2>1. y \in Nat /\ y < h /\ r = b + y
    <3> HIDE DEF b, h, t
    <3> QED
      BY <1>1, <1>4
  <2> HIDE DEF y
  <2>2. k \in Nat /\ k < c /\ Turned(plan.mainRow, k) = n
    BY <1>1, TurnedFacts
  <2> HIDE DEF k
  <2>3. i \in Nat /\ SlidingTile(i) = <<b + y, Turned(plan.mainRow, k)>> /\ i < c * t
    BY <2>1, <2>2, TailTile
  <2> HIDE DEF i
  <2>4. TileOf(i) = <<r, n>>
    BY <1>4, <2>1, <2>2, <2>3 DEF TileOf
  <2> QED
    BY <2>3, <2>4
<1> QED
  BY <1>2, <1>3, <1>4

-----------------------------------------------------------------------------
(* Stream-K: the sums.  Slab by slab, k is added once.                       *)

\* The slabs of a sum: where one begins and ends, and what is added.
From(z, s) == s * z
Until(z, s) == Smaller((s + 1) * z, call.k)
Slab(part, s, z) == <<part, From(z, s), Until(z, s)>>

\* All slabs of k, each in the part of k it belongs to.
AllSlabs(per, z) == {Slab(s \div per, s, z) : s \in 0 .. CeilDiv(call.k, z) - 1}

LEMMA SlabEdges ==
    ASSUME NEW z \in Nat \ {0}, call.k \in Nat \ {0}
    PROVE  LET n == CeilDiv(call.k, z) IN
           /\ n \in Nat \ {0}
           /\ From(z, 0) = 0 /\ Until(z, n - 1) = call.k
           /\ \A s \in Nat : s + 1 < n => Until(z, s) = From(z, s + 1)
           /\ \A s, t \in Nat : s < t /\ t < n =>
                 Until(z, s) <= From(z, t) /\ From(z, s) < From(z, t)
<1> DEFINE n == CeilDiv(call.k, z)
           k == call.k
<1>1. n \in Nat \ {0} /\ z * (n - 1) < k /\ k <= z * n /\ k \in Nat \ {0}
  BY CeilDivIs
<1> HIDE DEF n
<1>2. From(z, 0) = 0
  BY DEF From
<1>3. Until(z, n - 1) = k
  <2> DEFINE x == z * n
  <2>1. (n - 1 + 1) * z = x /\ x \in Nat /\ k <= x
    BY <1>1
  <2> HIDE DEF x, k
  <2>2. Smaller(x, k) = k
    BY <1>1, <2>1 DEF Smaller
  <2> QED
    BY <2>1, <2>2 DEF Until, k
<1>4. ASSUME NEW s \in Nat, NEW t \in Nat, s < t, t < n
      PROVE  /\ Until(z, s) <= From(z, t) /\ From(z, s) < From(z, t)
             /\ s + 1 = t => Until(z, s) = From(z, t)
  <2> DEFINE a == z * s
             b == z * t
             d == z * (n - 1)
             m == n - 1
  <2>1. m \in Nat /\ t <= m
    BY <1>1, <1>4
  <2>2. a \in Nat /\ b \in Nat /\ a + z <= b /\ z * m \in Nat /\ b <= z * m
    <3> HIDE DEF m
    <3> QED
      BY <1>4, <2>1, TimesGrows
  <2>3. From(z, s) = a /\ From(z, t) = b /\ (s + 1) * z = a + z
    BY DEF From
  <2>4. s + 1 = t => a + z = b
    BY <2>3
  <2>5. d < k /\ z * m = d
    BY <1>1
  <2> HIDE DEF a, b, d, m, k
  <2>6. b < k
    BY <1>1, <2>2, <2>5
  <2>7. Until(z, s) = Smaller(a + z, k)
    BY <2>3 DEF Until, k
  <2>8. Smaller(a + z, k) = a + z
    BY <1>1, <2>2, <2>6 DEF Smaller
  <2> QED
    BY <2>2, <2>3, <2>4, <2>7, <2>8
<1>5. ASSUME NEW s \in Nat, s + 1 < n PROVE Until(z, s) = From(z, s + 1)
  <2>1. s + 1 \in Nat /\ s < s + 1
    OBVIOUS
  <2> QED
    BY <1>4, <1>5, <2>1
<1> QED
  BY <1>1, <1>2, <1>3, <1>4, <1>5 DEF n, k

LEMMA SlabParts ==
    ASSUME NEW part, NEW s, NEW z
    PROVE  /\ Slab(part, s, z)[2] = From(z, s) /\ Slab(part, s, z)[3] = Until(z, s)
           /\ Slab(part, s, z)[1] = part
BY DEF Slab

LEMMA SlabsWhole ==
    ASSUME NEW z \in Nat \ {0}, NEW per \in Nat \ {0}, call.k \in Nat \ {0}
    PROVE  Whole(AllSlabs(per, z))
<1> DEFINE n == CeilDiv(call.k, z)
           sum == AllSlabs(per, z)
<1>1. /\ n \in Nat \ {0} /\ From(z, 0) = 0 /\ Until(z, n - 1) = call.k
      /\ \A s \in Nat : s + 1 < n => Until(z, s) = From(z, s + 1)
      /\ \A s, t \in Nat : s < t /\ t < n => Until(z, s) <= From(z, t)
  BY SlabEdges
<1>2. \A x \in sum : \E s \in Nat : s < n /\ x = Slab(s \div per, s, z)
  BY <1>1 DEF AllSlabs
<1>3. \A s \in Nat : s < n => Slab(s \div per, s, z) \in sum
  BY <1>1 DEF AllSlabs
<1> HIDE DEF n, sum
<1>4. Stale \notin sum
  <2> SUFFICES ASSUME Stale \in sum PROVE FALSE
    OBVIOUS
  <2>1. PICK s \in Nat : s < n /\ Stale = Slab(s \div per, s, z)
    BY <1>2
  <2>2. Stale[1] = s \div per
    BY <2>1, SlabParts
  <2>3. Stale[1] = -1
    BY DEF Stale
  <2>4. s \div per \in Nat
    BY DivMod
  <2> QED
    BY <2>2, <2>3, <2>4
<1>5. ASSUME NEW x \in sum, NEW y \in sum, x # y PROVE x[3] <= y[2] \/ y[3] <= x[2]
  <2>1. PICK s \in Nat : s < n /\ x = Slab(s \div per, s, z)
    BY <1>2
  <2>2. PICK t \in Nat : t < n /\ y = Slab(t \div per, t, z)
    BY <1>2
  <2>3. s # t
    BY <1>5, <2>1, <2>2
  <2>4. /\ x[2] = From(z, s) /\ x[3] = Until(z, s)
        /\ y[2] = From(z, t) /\ y[3] = Until(z, t)
    BY <2>1, <2>2, SlabParts
  <2>5. s < t \/ t < s
    BY <2>3
  <2> QED
    BY <1>1, <2>1, <2>2, <2>4, <2>5
<1>6. {x[2] : x \in sum} \cup {call.k} = {x[3] : x \in sum} \cup {0}
  <2>1. ASSUME NEW x \in sum PROVE x[2] \in {y[3] : y \in sum} \cup {0}
    <3>1. PICK s \in Nat : s < n /\ x = Slab(s \div per, s, z)
      BY <1>2
    <3>2. x[2] = From(z, s)
      BY <3>1, SlabParts
    <3>3. CASE s = 0
      BY <1>1, <3>2, <3>3
    <3>4. CASE s # 0
      <4> DEFINE r == s - 1
      <4>1. r \in Nat /\ r + 1 = s /\ r < n
        BY <1>1, <3>1, <3>4
      <4> HIDE DEF r
      <4>2. Slab(r \div per, r, z) \in sum /\ Slab(r \div per, r, z)[3] = Until(z, r)
        BY <1>3, <4>1, SlabParts
      <4>3. Until(z, r) = From(z, s)
        BY <1>1, <3>1, <4>1
      <4> QED
        BY <3>2, <4>2, <4>3
    <3> QED
      BY <3>3, <3>4
  <2>2. ASSUME NEW x \in sum PROVE x[3] \in {y[2] : y \in sum} \cup {call.k}
    <3>1. PICK s \in Nat : s < n /\ x = Slab(s \div per, s, z)
      BY <1>2
    <3>2. x[3] = Until(z, s)
      BY <3>1, SlabParts
    <3>3. CASE s = n - 1
      BY <1>1, <3>2, <3>3
    <3>4. CASE s # n - 1
      <4> DEFINE r == s + 1
      <4>1. r \in Nat /\ r = s + 1 /\ r < n
        BY <1>1, <3>1, <3>4
      <4> HIDE DEF r
      <4>2. Slab(r \div per, r, z) \in sum /\ Slab(r \div per, r, z)[2] = From(z, r)
        BY <1>3, <4>1, SlabParts
      <4>3. Until(z, s) = From(z, r)
        BY <1>1, <3>1, <4>1
      <4> QED
        BY <3>2, <4>2, <4>3
    <3> QED
      BY <3>3, <3>4
  <2>3. 0 \in {x[2] : x \in sum}
    <3>1. Slab(0 \div per, 0, z) \in sum /\ Slab(0 \div per, 0, z)[2] = From(z, 0)
      BY <1>1, <1>3, SlabParts
    <3> QED
      BY <1>1, <3>1
  <2>4. call.k \in {x[3] : x \in sum}
    <3> DEFINE r == n - 1
    <3>1. r \in Nat /\ r < n /\ Until(z, r) = call.k
      BY <1>1
    <3> HIDE DEF r
    <3>2. Slab(r \div per, r, z) \in sum /\ Slab(r \div per, r, z)[3] = Until(z, r)
      BY <1>3, <3>1, SlabParts
    <3> QED
      BY <3>1, <3>2
  <2> QED
    BY <2>1, <2>2, <2>3, <2>4
<1>7. \A x, y \in sum : x # y => x[3] <= y[2] \/ y[3] <= x[2]
  BY <1>5
<1> QED
  BY <1>4, <1>6, <1>7 DEF Whole, sum

\* All of k in one sum ...
LEMMA WholeAtOnce ==
    ASSUME NEW z \in Nat \ {0}, call.k \in Nat \ {0}
    PROVE  Whole(SumOf(0, 0 .. CeilDiv(call.k, z) - 1, 0, z))
<1> DEFINE n == CeilDiv(call.k, z)
<1>1. n \in Nat \ {0}
  BY SlabEdges
<1> HIDE DEF n
<1>2. ASSUME NEW s \in 0 .. n - 1 PROVE s \div n = 0
  <2>1. (n * 0 + s) \div n = 0
    BY <1>1, DivIs
  <2>2. n * 0 + s = s
    BY <1>1
  <2> QED
    BY <2>1, <2>2
<1>3. SumOf(0, 0 .. n - 1, 0, z) = {Slab(0, s, z) : s \in 0 .. n - 1}
  <2>1. 0 \in 0 .. n - 1
    BY <1>1
  <2> QED
    BY <2>1 DEF SumOf, Slab, From, Until
<1>4. {Slab(0, s, z) : s \in 0 .. n - 1} = {Slab(s \div n, s, z) : s \in 0 .. n - 1}
  BY <1>2
<1>5. Whole(AllSlabs(n, z))
  BY <1>1, SlabsWhole
<1>6. AllSlabs(n, z) = {Slab(s \div n, s, z) : s \in 0 .. n - 1}
  BY DEF AllSlabs, n
<1> QED
  BY <1>3, <1>4, <1>5, <1>6 DEF n

\* ... or in the sums of its parts, none of which is empty.
PartSum(part) ==
  SumOf(part, Cut(part * plan.slabsPer, plan.slabsPer, CeilDiv(call.k, plan.slabKSk)),
        part * plan.slabsPer, plan.slabKSk)

LEMMA PartSumIs ==
    ASSUME call.k \in Nat \ {0}, plan.slabKSk \in Nat \ {0}, plan.slabsPer \in Nat \ {0},
           plan.splits \in Nat \ {0},
           plan.slabsPer * (plan.splits - 1) < CeilDiv(call.k, plan.slabKSk),
           NEW part \in Nat, part < plan.splits
    PROVE  \A x : x \in PartSum(part) <=>
              \E s \in Nat : /\ s < CeilDiv(call.k, plan.slabKSk)
                             /\ s \div plan.slabsPer = part
                             /\ x = Slab(part, s, plan.slabKSk)
<1> DEFINE z == plan.slabKSk
           per == plan.slabsPer
           n == CeilDiv(call.k, z)
           last == plan.splits - 1
           from == part * per
           slabs == Cut(from, per, n)
<1>1. n \in Nat \ {0} /\ per \in Nat \ {0} /\ z \in Nat \ {0} /\ last \in Nat /\ part <= last
      /\ per * last < n
  BY SlabEdges
<1>2. PartSum(part) = SumOf(part, slabs, from, z)
  BY DEF PartSum
<1>3. from \in Nat /\ from < n
  <2>1. from = per * part
    BY <1>1
  <2> HIDE DEF from, per, n, last
  <2>2. per * part \in Nat /\ per * last \in Nat /\ per * part <= per * last
    BY <1>1, TimesGrows
  <2> QED
    BY <1>1, <2>1, <2>2
<1>4. ASSUME NEW s \in Nat
      PROVE  s \in slabs <=> s < n /\ s \div per = part
  <2>1. s \in slabs <=> from <= s /\ s < from + per /\ s < n
    <3> HIDE DEF from, per, n
    <3> QED
      BY <1>1, <1>3 DEF Cut, Smaller
  <2>2. s \div per = part <=> from <= s /\ s < from + per
    <3> DEFINE q == s \div per
               a == per * q
               b == per * part
    <3>1. q \in Nat /\ a <= s /\ s < a + per /\ a \in Nat
      BY <1>1, FloorIs
    <3>2. from = b /\ b \in Nat
      BY <1>1, <1>3
    <3> HIDE DEF q, per, from
    <3>3. /\ (q < part => a + per <= b) /\ (part < q => b + per <= a)
          /\ (q = part => a = b)
      BY <1>1, <3>1, TimesGrows
    <3> HIDE DEF a, b
    <3>4. q = part <=> b <= s /\ s < b + per
      BY <1>1, <3>1, <3>2, <3>3
    <3> QED
      BY <3>2, <3>4 DEF q
  <2> QED
    BY <2>1, <2>2
<1>5. slabs \subseteq Nat
  <2> HIDE DEF from, per, n
  <2> QED
    BY <1>1, <1>3 DEF Cut, Smaller
<1>6. from \in slabs
  <2> HIDE DEF from, per, n
  <2> QED
    BY <1>1, <1>3 DEF Cut, Smaller
<1> HIDE DEF slabs, from, z, per, n
<1>7. SumOf(part, slabs, from, z) = {Slab(part, s, z) : s \in slabs}
  BY <1>6 DEF SumOf, Slab, From, Until
<1>8. ASSUME NEW x
      PROVE  x \in PartSum(part) <=>
               \E s \in Nat : s < n /\ s \div per = part /\ x = Slab(part, s, z)
  BY <1>2, <1>4, <1>5, <1>7
<1> QED
  BY <1>8 DEF n, per, z

LEMMA WholeInParts ==
    ASSUME call.k \in Nat \ {0}, plan.slabKSk \in Nat \ {0}, plan.slabsPer \in Nat \ {0},
           plan.splits \in Nat \ {0},
           plan.slabsPer * (plan.splits - 1) < CeilDiv(call.k, plan.slabKSk),
           CeilDiv(call.k, plan.slabKSk) <= plan.slabsPer * plan.splits
    PROVE  Whole(UNION {PartSum(part) : part \in 0 .. plan.splits - 1})
<1> DEFINE z == plan.slabKSk
           per == plan.slabsPer
           n == CeilDiv(call.k, z)
           all == UNION {PartSum(part) : part \in 0 .. plan.splits - 1}
<1>1. n \in Nat \ {0} /\ per \in Nat \ {0} /\ z \in Nat \ {0} /\ plan.splits \in Nat \ {0}
      /\ n <= per * plan.splits
  BY SlabEdges
<1>2. ASSUME NEW s \in Nat, s < n
      PROVE  s \div per \in Nat /\ s \div per < plan.splits
  <2> DEFINE q == s \div per
             a == per * q
             b == per * plan.splits
  <2>1. q \in Nat /\ a <= s /\ a \in Nat
    BY <1>1, FloorIs
  <2> HIDE DEF q, per, n
  <2>2. b \in Nat /\ (a < b => q < plan.splits) /\ n <= b
    BY <1>1, <2>1, TimesGrows
  <2> HIDE DEF a, b
  <2>3. q < plan.splits
    BY <1>1, <1>2, <2>1, <2>2
  <2> QED
    BY <2>1, <2>3 DEF q
<1>3. \A part \in Nat : part < plan.splits =>
        \A x : x \in PartSum(part) <=>
               \E s \in Nat : s < n /\ s \div per = part /\ x = Slab(part, s, z)
  BY PartSumIs
<1> HIDE DEF n, per, z
<1>4. all = {Slab(s \div per, s, z) : s \in 0 .. n - 1}
  <2>1. ASSUME NEW x \in all PROVE x \in {Slab(s \div per, s, z) : s \in 0 .. n - 1}
    <3>1. PICK part \in 0 .. plan.splits - 1 : x \in PartSum(part)
      OBVIOUS
    <3>2. part \in Nat /\ part < plan.splits
      BY <1>1
    <3>3. PICK s \in Nat : s < n /\ s \div per = part /\ x = Slab(part, s, z)
      BY <1>3, <3>1, <3>2
    <3>4. s \in 0 .. n - 1
      BY <1>1, <3>3
    <3> QED
      BY <3>3, <3>4
  <2>2. ASSUME NEW s \in 0 .. n - 1 PROVE Slab(s \div per, s, z) \in all
    <3>1. s \in Nat /\ s < n
      BY <1>1
    <3>2. s \div per \in Nat /\ s \div per < plan.splits
      BY <1>2, <3>1
    <3>3. Slab(s \div per, s, z) \in PartSum(s \div per)
      BY <1>3, <3>1, <3>2
    <3>4. s \div per \in 0 .. plan.splits - 1
      BY <1>1, <3>2
    <3> QED
      BY <3>3, <3>4
  <2> QED
    BY <2>1, <2>2
<1>5. Whole(AllSlabs(per, z))
  BY <1>1, SlabsWhole
<1>6. AllSlabs(per, z) = {Slab(s \div per, s, z) : s \in 0 .. n - 1}
  BY DEF AllSlabs, n
<1> QED
  BY <1>4, <1>5, <1>6

-----------------------------------------------------------------------------
(* Stream-K: what has been done.  A unit does every so many-th piece of work. *)

LEMMA Turns ==
    ASSUME NEW d \in Nat \ {0}, NEW x \in Nat
    PROVE  /\ (x + d) % d = x % d
           /\ x % d \in Nat /\ x % d < d /\ x % d <= x
           /\ x < d => x % d = x
           /\ \A y \in Nat : y % d = x % d => (y < x + d <=> y < x \/ y = x)
<1> DEFINE q == x \div d
           r == x % d
           a == d * q
<1>1. q \in Nat /\ r \in 0 .. d - 1 /\ x = a + r /\ a \in Nat
  BY DivMod, TimesGrows
<1>2. (x + d) % d = r
  <2> DEFINE e == q + 1
  <2>1. e \in Nat /\ d * e = a + d
    BY <1>1
  <2>2. x + d = d * e + r
    <3> DEFINE b == d * e
    <3>1. b = a + d
      BY <2>1
    <3> HIDE DEF b, a, r
    <3>2. x + d = b + r
      BY <1>1, <3>1
    <3> QED
      BY <3>2 DEF b
  <2> HIDE DEF e, r
  <2>3. (d * e + r) % d = r
    BY <1>1, <2>1, DivIs
  <2> QED
    BY <2>2, <2>3
<1>3. r \in Nat /\ r < d /\ r <= x
  <2> HIDE DEF a, r
  <2> QED
    BY <1>1
<1>4. ASSUME x < d PROVE r = x
  <2>1. x \in 0 .. d - 1
    BY <1>4
  <2>2. (d * 0 + x) % d = x
    BY <2>1, DivIs
  <2>3. d * 0 + x = x
    OBVIOUS
  <2> QED
    BY <2>2, <2>3
<1>5. ASSUME NEW y \in Nat, y % d = r
      PROVE  y < x + d <=> y < x \/ y = x
  <2> DEFINE p == y \div d
             b == d * p
  <2>1. p \in Nat /\ y = b + r /\ b \in Nat
    BY <1>5, DivMod, TimesGrows
  <2> HIDE DEF p, q, r
  <2>2. (p < q => b + d <= a) /\ (q < p => a + d <= b) /\ (p = q => a = b)
    BY <1>1, <2>1, TimesGrows
  <2> HIDE DEF a, b
  <2> QED
    BY <1>1, <2>1, <2>2
<1> QED
  BY <1>2, <1>3, <1>4, <1>5

\* The tiles computed over all of k, and what is stored for one.
TileDone(i) == core[i % call.aic].path # "dp" \/ i < core[i % call.aic].work
TileStored(i) ==
  [by |-> <<"cube", i>>, rows |-> TileRows(TileOf(i)), cols |-> TileCols(TileOf(i)),
   sum |-> SumOf(0, 0 .. CeilDiv(call.k, plan.slabK) - 1, 0, plan.slabK)]

\* The parts of the other tiles, numbered tile by tile.
PartDone(w) ==
  \/ core[w % call.aic].path = "sync"
  \/ core[w % call.aic].path = "sk" /\ w < core[w % call.aic].work
PartSlot(w) == plan.dp * plan.splits + w

\* Their segments, numbered tile by tile, and what is stored for one.
SegmentDone(w) == w < lane[w % (TASK_RATIO * call.aic)]
SegmentTile(w) == plan.dp + w \div plan.perTile
SegmentOf(w) == w % plan.perTile
SegmentRows(w) ==
  TileRows(RowMajorTile(SegmentTile(w))) \cap
    Cut(RowMajorTile(SegmentTile(w))[1] * plan.tileM + SegmentOf(w) * plan.reduceM,
        plan.reduceM, call.m)
SegmentHolds(w) == SegmentOf(w) * plan.reduceM < plan.tileM /\ SegmentRows(w) # {}
SegmentStored(w) ==
  [by |-> <<"vector", w>>, rows |-> SegmentRows(w),
   cols |-> TileCols(RowMajorTile(SegmentTile(w))),
   sum |-> UNION {PartSum(part) : part \in 0 .. plan.splits - 1}]

TilesStored == {TileStored(i) : i \in {j \in 0 .. plan.dp - 1 : TileDone(j)}}
SegmentsStored ==
  {SegmentStored(w) : w \in {v \in 0 .. AivWork - 1 : SegmentDone(v) /\ SegmentHolds(v)}}

CubesWork ==
  /\ core \in [CubeUnits -> [path : {"dp", "sk", "sync"}, work : Nat]]
  /\ \A c \in CubeUnits : core[c].work % call.aic = c
LanesWork ==
  /\ lane \in [VectorUnits -> Nat]
  /\ \A l \in VectorUnits : lane[l] % (TASK_RATIO * call.aic) = l
PartsSummed ==
  /\ DOMAIN ws = 0 .. (plan.dp + plan.tail) * plan.splits - 1
  /\ \A w \in 0 .. SkWork - 1 : PartDone(w) => ws[PartSlot(w)] = PartSum(w % plan.splits)

\* The inductive invariant.
StreamInv ==
  /\ call \in Calls /\ plan = Plan(call)
  /\ CubesWork /\ LanesWork /\ PartsSummed
  /\ out = TilesStored \cup SegmentsStored

LEMMA StreamFacts ==
    ASSUME call \in Calls, plan = Plan(call)
    PROVE  /\ Grid /\ Divided(call, plan)
           /\ call.aic \in Nat \ {0} /\ call.m \in Nat \ {0} /\ call.n \in Nat \ {0}
           /\ call.k \in Nat \ {0}
           /\ TASK_RATIO * call.aic \in Nat \ {0}
           /\ CubeUnits = 0 .. call.aic - 1
           /\ VectorUnits = 0 .. TASK_RATIO * call.aic - 1
           /\ plan.dp \in Nat /\ plan.tail \in Nat /\ plan.splits \in Nat \ {0}
           /\ plan.perTile \in Nat \ {0} /\ plan.slabsPer \in Nat \ {0}
           /\ plan.slabK \in Nat \ {0} /\ plan.slabKSk \in Nat \ {0}
           /\ plan.dp + plan.tail = plan.nTiles * plan.mTiles
           /\ SkWork \in Nat /\ AivWork \in Nat
           /\ SkWork = plan.splits * plan.tail /\ AivWork = plan.perTile * plan.tail
           /\ plan.dp * plan.splits \in Nat
           /\ (plan.dp + plan.tail) * plan.splits = plan.dp * plan.splits + SkWork
<1>1. Divided(call, plan)
  BY PlanFacts
<1>2. /\ call.aic \in Nat \ {0} /\ call.m \in Nat \ {0} /\ call.n \in Nat \ {0}
      /\ call.k \in Nat \ {0}
  BY CallFacts
<1>3. /\ plan.dp \in Nat /\ plan.tail \in Nat /\ plan.splits \in Nat \ {0}
      /\ plan.perTile \in Nat \ {0} /\ plan.slabsPer \in Nat \ {0}
      /\ plan.slabK \in Nat \ {0} /\ plan.slabKSk \in Nat \ {0}
      /\ plan.dp + plan.tail = plan.nTiles * plan.mTiles
  BY <1>1 DEF Divided
<1>4. Grid
  BY <1>1 DEF Divided, Grid
<1>5. TASK_RATIO * call.aic \in Nat \ {0}
  BY <1>2 DEF TASK_RATIO
<1>6. CubeUnits = 0 .. call.aic - 1 /\ VectorUnits = 0 .. TASK_RATIO * call.aic - 1
  BY DEF CubeUnits, VectorUnits
<1>7. /\ SkWork = plan.splits * plan.tail /\ AivWork = plan.perTile * plan.tail
      /\ SkWork \in Nat /\ AivWork \in Nat
  BY <1>3 DEF SkWork, AivWork
<1>8. /\ plan.dp * plan.splits \in Nat
      /\ (plan.dp + plan.tail) * plan.splits = plan.dp * plan.splits + SkWork
  <2> DEFINE a == plan.dp
             b == plan.tail
             d == plan.splits
  <2>1. a \in Nat /\ b \in Nat /\ d \in Nat
    BY <1>3
  <2>2. SkWork = b * d
    BY DEF SkWork
  <2> HIDE DEF a, b, d
  <2>3. a * d \in Nat /\ (a + b) * d = a * d + b * d
    BY <2>1
  <2> QED
    BY <2>2, <2>3 DEF a, b, d
<1> QED
  BY <1>1, <1>2, <1>3, <1>4, <1>5, <1>6, <1>7, <1>8

\* The call and its plan stay, and with them what is to be stored.
LEMMA PlanKept ==
    ASSUME call' = call, plan' = plan
    PROVE  /\ CubeUnits' = CubeUnits /\ VectorUnits' = VectorUnits
           /\ SkWork' = SkWork /\ AivWork' = AivWork
           /\ \A i : TileStored(i)' = TileStored(i)
           /\ \A part : PartSum(part)' = PartSum(part)
           /\ \A w : /\ PartSlot(w)' = PartSlot(w)
                     /\ SegmentHolds(w)' = SegmentHolds(w)
                     /\ SegmentStored(w)' = SegmentStored(w)
<1>1. /\ CubeUnits' = CubeUnits /\ VectorUnits' = VectorUnits
      /\ SkWork' = SkWork /\ AivWork' = AivWork
  BY DEF CubeUnits, VectorUnits, SkWork, AivWork
<1>2. ASSUME NEW t PROVE TileRows(t)' = TileRows(t) /\ TileCols(t)' = TileCols(t)
  BY DEF TileRows, TileCols
<1>3. ASSUME NEW i PROVE TileOf(i)' = TileOf(i) /\ RowMajorTile(i)' = RowMajorTile(i)
  BY DEF TileOf, SlidingTile, RowMajorTile
<1>4. ASSUME NEW part, NEW slabs, NEW first, NEW size
      PROVE  SumOf(part, slabs, first, size)' = SumOf(part, slabs, first, size)
  BY DEF SumOf
<1>5. ASSUME NEW i PROVE TileStored(i)' = TileStored(i)
  BY DEF TileStored, TileRows, TileCols, TileOf, SlidingTile, RowMajorTile, SumOf
<1>6. ASSUME NEW part PROVE PartSum(part)' = PartSum(part)
  BY DEF PartSum, SumOf
<1>7. ASSUME NEW w
      PROVE  /\ PartSlot(w)' = PartSlot(w)
             /\ SegmentHolds(w)' = SegmentHolds(w)
             /\ SegmentRows(w)' = SegmentRows(w)
  BY DEF PartSlot, SegmentHolds, SegmentRows, SegmentTile, SegmentOf, RowMajorTile, TileRows
<1>8. ASSUME NEW w PROVE SegmentStored(w)' = SegmentStored(w)
  <2>1. SegmentRows(w)' = SegmentRows(w)
    BY <1>7
  <2>2. (UNION {PartSum(part) : part \in 0 .. plan.splits - 1})'
          = UNION {PartSum(part) : part \in 0 .. plan.splits - 1}
    BY DEF PartSum, SumOf
  <2>3. TileCols(RowMajorTile(SegmentTile(w)))' = TileCols(RowMajorTile(SegmentTile(w)))
    BY DEF TileCols, RowMajorTile, SegmentTile
  <2> QED
    BY <2>1, <2>2, <2>3 DEF SegmentStored
<1> QED
  BY <1>1, <1>5, <1>6, <1>7, <1>8

\* What a step that does no work of a kind keeps.
LEMMA TilesKept ==
    ASSUME call' = call, plan' = plan,
           \A i \in 0 .. plan.dp - 1 : TileDone(i)' <=> TileDone(i)
    PROVE  TilesStored' = TilesStored
<1>1. \A i : TileStored(i)' = TileStored(i)
  BY PlanKept
<1>2. {i \in 0 .. plan.dp - 1 : TileDone(i)'} = {i \in 0 .. plan.dp - 1 : TileDone(i)}
  OBVIOUS
<1>3. TilesStored' = {TileStored(i)' : i \in {j \in 0 .. plan.dp - 1 : TileDone(j)'}}
  BY DEF TilesStored
<1> QED
  BY <1>1, <1>2, <1>3 DEF TilesStored

LEMMA SegmentsKept ==
    ASSUME call' = call, plan' = plan,
           \A w \in 0 .. AivWork - 1 : SegmentDone(w)' <=> SegmentDone(w)
    PROVE  SegmentsStored' = SegmentsStored
<1>1. /\ \A w : SegmentStored(w)' = SegmentStored(w) /\ SegmentHolds(w)' = SegmentHolds(w)
      /\ AivWork' = AivWork
  BY PlanKept
<1>2. {w \in 0 .. AivWork - 1 : SegmentDone(w)' /\ SegmentHolds(w)'}
        = {w \in 0 .. AivWork - 1 : SegmentDone(w) /\ SegmentHolds(w)}
  BY <1>1
<1>3. SegmentsStored' =
        {SegmentStored(w)' : w \in {v \in 0 .. AivWork' - 1 : SegmentDone(v)' /\ SegmentHolds(v)'}}
  BY DEF SegmentsStored
<1> QED
  BY <1>1, <1>2, <1>3 DEF SegmentsStored

LEMMA LanesKept ==
    ASSUME call' = call, plan' = plan, lane' = lane, LanesWork
    PROVE  LanesWork' /\ SegmentsStored' = SegmentsStored
<1>1. \A w \in 0 .. AivWork - 1 : SegmentDone(w)' <=> SegmentDone(w)
  BY DEF SegmentDone
<1>2. SegmentsStored' = SegmentsStored
  BY <1>1, SegmentsKept
<1>3. LanesWork'
  BY PlanKept DEF LanesWork
<1> QED
  BY <1>2, <1>3

LEMMA PartsKept ==
    ASSUME call' = call, plan' = plan, ws' = ws, PartsSummed,
           \A w \in 0 .. SkWork - 1 : PartDone(w)' => PartDone(w)
    PROVE  PartsSummed'
<1>1. /\ \A w : PartSlot(w)' = PartSlot(w) /\ \A part : PartSum(part)' = PartSum(part)
      /\ SkWork' = SkWork
  BY PlanKept
<1>2. ASSUME NEW w \in 0 .. SkWork - 1, PartDone(w)'
      PROVE  ws'[PartSlot(w)'] = PartSum(w % plan.splits)'
  BY <1>1, <1>2 DEF PartsSummed
<1> QED
  BY <1>1, <1>2 DEF PartsSummed

\* What the state of a cube unit says of its turns.
LEMMA CubeTurn ==
    ASSUME call \in Calls, plan = Plan(call), CubesWork, NEW c \in CubeUnits
    PROVE  /\ c \in Nat /\ c < call.aic /\ c % call.aic = c
           /\ core[c].work \in Nat /\ core[c].work % call.aic = c
           /\ core[c].path \in {"dp", "sk", "sync"}
           /\ (core[c].work + call.aic) % call.aic = c
           /\ \A i \in Nat : /\ i % call.aic \in CubeUnits
                             /\ i % call.aic = c =>
                                  /\ i >= c
                                  /\ i < core[c].work + call.aic
                                       <=> i < core[c].work \/ i = core[c].work
<1> DEFINE d == call.aic
           x == core[c].work
<1>1. d \in Nat \ {0} /\ CubeUnits = 0 .. d - 1
  BY StreamFacts
<1>2. x \in Nat /\ x % d = c /\ core[c].path \in {"dp", "sk", "sync"}
  BY DEF CubesWork
<1> HIDE DEF d, x
<1>3. c \in Nat /\ c < d
  BY <1>1
<1>4. c % d = c
  BY <1>1, <1>3, Turns
<1>5. /\ (x + d) % d = c
      /\ \A i \in Nat : i % d = c => (i < x + d <=> i < x \/ i = x)
  BY <1>1, <1>2, Turns
<1>6. \A i \in Nat : i % d \in Nat /\ i % d < d /\ i % d <= i
  BY <1>1, Turns
<1>7. \A i \in Nat : i % d \in CubeUnits
  BY <1>1, <1>6
<1>8. \A i \in Nat : i % d = c => i >= c
  BY <1>6, <1>3
<1> QED
  BY <1>2, <1>3, <1>4, <1>5, <1>7, <1>8 DEF d, x

LEMMA DpTileStep ==
    ASSUME StreamInv, NEW c \in CubeUnits, DpTile(c)
    PROVE  StreamInv'
<1> DEFINE n == core[c].work
<1>1. /\ call \in Calls /\ plan = Plan(call) /\ CubesWork /\ LanesWork /\ PartsSummed
      /\ out = TilesStored \cup SegmentsStored
  BY DEF StreamInv
<1>2. /\ core[c].path = "dp" /\ n < plan.dp
      /\ out' = out \cup {TileStored(n)}
      /\ core' = [core EXCEPT ![c].work = @ + call.aic]
      /\ call' = call /\ plan' = plan /\ lane' = lane /\ ws' = ws
  BY DEF DpTile, TileStored, TileOf
<1>3. /\ n \in Nat /\ n % call.aic = c /\ (n + call.aic) % call.aic = c
      /\ \A i \in Nat : /\ i % call.aic \in CubeUnits
                        /\ i % call.aic = c => (i < n + call.aic <=> i < n \/ i = n)
      /\ call.aic \in Nat \ {0} /\ plan.dp \in Nat /\ SkWork \in Nat
  BY <1>1, CubeTurn, StreamFacts
<1>4. core \in [CubeUnits -> [path : {"dp", "sk", "sync"}, work : Nat]]
  BY <1>1 DEF CubesWork
<1>5. /\ core'[c].path = "dp" /\ core'[c].work = n + call.aic
      /\ \A d \in CubeUnits : d # c => core'[d] = core[d]
      /\ \A d \in CubeUnits : core'[d].path = core[d].path
      /\ core' \in [CubeUnits -> [path : {"dp", "sk", "sync"}, work : Nat]]
  BY <1>2, <1>3, <1>4
<1> HIDE DEF n
<1>6. CubesWork'
  <2>1. \A d \in CubeUnits : core'[d].work % call.aic = d
    BY <1>1, <1>3, <1>5 DEF CubesWork
  <2> QED
    BY <1>2, <1>5, <2>1, PlanKept DEF CubesWork
<1>7. TilesStored' = TilesStored \cup {TileStored(n)}
  <2>1. ASSUME NEW i \in 0 .. plan.dp - 1
        PROVE  TileDone(i)' <=> TileDone(i) \/ i = n
    <3>1. i \in Nat /\ i % call.aic \in CubeUnits
      BY <1>3
    <3>2. CASE i % call.aic = c
      <4>1. TileDone(i)' <=> i < n + call.aic
        BY <1>2, <1>5, <3>2 DEF TileDone
      <4>2. TileDone(i) <=> i < n
        BY <1>2, <3>2 DEF TileDone, n
      <4> QED
        BY <1>3, <3>1, <3>2, <4>1, <4>2
    <3>3. CASE i % call.aic # c
      <4>1. core'[i % call.aic] = core[i % call.aic]
        BY <1>5, <3>1, <3>3
      <4>2. i # n
        BY <1>3, <3>3
      <4> QED
        BY <1>2, <4>1, <4>2 DEF TileDone
    <3> QED
      BY <3>2, <3>3
  <2>2. n \in 0 .. plan.dp - 1
    BY <1>2, <1>3
  <2>3. {i \in 0 .. plan.dp - 1 : TileDone(i)'} = {i \in 0 .. plan.dp - 1 : TileDone(i)} \cup {n}
    BY <2>1, <2>2
  <2>4. TilesStored' = {TileStored(i)' : i \in {j \in 0 .. plan.dp - 1 : TileDone(j)'}}
    BY <1>2 DEF TilesStored
  <2>5. \A i : TileStored(i)' = TileStored(i)
    BY <1>2, PlanKept
  <2> QED
    BY <2>3, <2>4, <2>5 DEF TilesStored
<1>8. LanesWork' /\ SegmentsStored' = SegmentsStored
  BY <1>1, <1>2, LanesKept
<1>9. PartsSummed'
  <2>1. ASSUME NEW w \in 0 .. SkWork - 1, PartDone(w)' PROVE PartDone(w)
    <3>1. w % call.aic \in CubeUnits
      BY <1>3
    <3>2. w % call.aic # c
      BY <1>2, <1>5, <2>1 DEF PartDone
    <3> QED
      BY <1>2, <1>5, <2>1, <3>1, <3>2 DEF PartDone
  <2> QED
    BY <1>1, <1>2, <2>1, PartsKept
<1>10. out' = TilesStored' \cup SegmentsStored'
  BY <1>1, <1>2, <1>7, <1>8
<1> QED
  BY <1>1, <1>2, <1>6, <1>8, <1>9, <1>10 DEF StreamInv

LEMMA DpEndsStep ==
    ASSUME StreamInv, NEW c \in CubeUnits, DpEnds(c)
    PROVE  StreamInv'
<1> DEFINE n == core[c].work
<1>1. /\ call \in Calls /\ plan = Plan(call) /\ CubesWork /\ LanesWork /\ PartsSummed
      /\ out = TilesStored \cup SegmentsStored
  BY DEF StreamInv
<1>2. /\ core[c].path = "dp" /\ n >= plan.dp
      /\ core' = [core EXCEPT ![c] = [path |-> "sk", work |-> c]]
      /\ call' = call /\ plan' = plan /\ lane' = lane /\ ws' = ws /\ out' = out
  BY DEF DpEnds
<1>3. /\ n \in Nat /\ c \in Nat /\ c % call.aic = c
      /\ \A i \in Nat : /\ i % call.aic \in CubeUnits
                        /\ i % call.aic = c => i >= c
      /\ call.aic \in Nat \ {0} /\ plan.dp \in Nat /\ SkWork \in Nat
  BY <1>1, CubeTurn, StreamFacts
<1>4. core \in [CubeUnits -> [path : {"dp", "sk", "sync"}, work : Nat]]
  BY <1>1 DEF CubesWork
<1>5. /\ core'[c].path = "sk" /\ core'[c].work = c
      /\ \A d \in CubeUnits : d # c => core'[d] = core[d]
      /\ core' \in [CubeUnits -> [path : {"dp", "sk", "sync"}, work : Nat]]
  BY <1>2, <1>3, <1>4
<1> HIDE DEF n
<1>6. CubesWork'
  <2>1. \A d \in CubeUnits : core'[d].work % call.aic = d
    BY <1>1, <1>3, <1>5 DEF CubesWork
  <2> QED
    BY <1>2, <1>5, <2>1, PlanKept DEF CubesWork
<1>7. TilesStored' = TilesStored
  <2>1. ASSUME NEW i \in 0 .. plan.dp - 1
        PROVE  TileDone(i)' <=> TileDone(i)
    <3>1. i \in Nat /\ i % call.aic \in CubeUnits /\ i < plan.dp
      BY <1>3
    <3>2. CASE i % call.aic = c
      <4>1. i < n
        BY <1>2, <1>3, <3>1
      <4>2. TileDone(i)
        BY <3>2, <4>1 DEF TileDone, n
      <4>3. TileDone(i)'
        BY <1>2, <1>5, <3>2 DEF TileDone
      <4> QED
        BY <4>2, <4>3
    <3>3. CASE i % call.aic # c
      BY <1>2, <1>5, <3>1, <3>3 DEF TileDone
    <3> QED
      BY <3>2, <3>3
  <2> QED
    BY <1>2, <2>1, TilesKept
<1>8. LanesWork' /\ SegmentsStored' = SegmentsStored
  BY <1>1, <1>2, LanesKept
<1>9. PartsSummed'
  <2>1. ASSUME NEW w \in 0 .. SkWork - 1, PartDone(w)' PROVE PartDone(w)
    <3>1. w \in Nat /\ w % call.aic \in CubeUnits
      BY <1>3
    <3>2. w % call.aic # c
      BY <1>2, <1>3, <1>5, <2>1, <3>1 DEF PartDone
    <3> QED
      BY <1>2, <1>5, <2>1, <3>1, <3>2 DEF PartDone
  <2> QED
    BY <1>1, <1>2, <2>1, PartsKept
<1> QED
  BY <1>1, <1>2, <1>6, <1>7, <1>8, <1>9 DEF StreamInv

LEMMA SkEndsStep ==
    ASSUME StreamInv, NEW c \in CubeUnits, SkEnds(c)
    PROVE  StreamInv'
<1> DEFINE n == core[c].work
<1>1. /\ call \in Calls /\ plan = Plan(call) /\ CubesWork /\ LanesWork /\ PartsSummed
      /\ out = TilesStored \cup SegmentsStored
  BY DEF StreamInv
<1>2. /\ core[c].path = "sk" /\ n >= SkWork
      /\ core' = [core EXCEPT ![c].path = "sync"]
      /\ call' = call /\ plan' = plan /\ lane' = lane /\ ws' = ws /\ out' = out
  BY DEF SkEnds
<1>3. /\ n \in Nat /\ n % call.aic = c
      /\ \A i \in Nat : i % call.aic \in CubeUnits
      /\ call.aic \in Nat \ {0} /\ plan.dp \in Nat /\ SkWork \in Nat
  BY <1>1, CubeTurn, StreamFacts
<1>4. core \in [CubeUnits -> [path : {"dp", "sk", "sync"}, work : Nat]]
  BY <1>1 DEF CubesWork
<1>5. /\ core'[c].path = "sync" /\ core'[c].work = n
      /\ \A d \in CubeUnits : d # c => core'[d] = core[d]
      /\ core' \in [CubeUnits -> [path : {"dp", "sk", "sync"}, work : Nat]]
  BY <1>2, <1>3, <1>4
<1> HIDE DEF n
<1>6. CubesWork'
  <2>1. \A d \in CubeUnits : core'[d].work % call.aic = d
    BY <1>1, <1>3, <1>5 DEF CubesWork
  <2> QED
    BY <1>2, <1>5, <2>1, PlanKept DEF CubesWork
<1>7. TilesStored' = TilesStored
  <2>1. ASSUME NEW i \in 0 .. plan.dp - 1
        PROVE  TileDone(i)' <=> TileDone(i)
    <3>1. i \in Nat /\ i % call.aic \in CubeUnits
      BY <1>3
    <3>2. CASE i % call.aic = c
      BY <1>2, <1>5, <3>2 DEF TileDone
    <3>3. CASE i % call.aic # c
      BY <1>2, <1>5, <3>1, <3>3 DEF TileDone
    <3> QED
      BY <3>2, <3>3
  <2> QED
    BY <1>2, <2>1, TilesKept
<1>8. LanesWork' /\ SegmentsStored' = SegmentsStored
  BY <1>1, <1>2, LanesKept
<1>9. PartsSummed'
  <2>1. ASSUME NEW w \in 0 .. SkWork - 1, PartDone(w)' PROVE PartDone(w)
    <3>1. w \in Nat /\ w < SkWork /\ w % call.aic \in CubeUnits
      BY <1>3
    <3>2. CASE w % call.aic = c
      <4>1. w < n
        BY <1>2, <1>3, <3>1
      <4> QED
        BY <1>2, <3>2, <4>1 DEF PartDone, n
    <3>3. CASE w % call.aic # c
      BY <1>2, <1>5, <2>1, <3>1, <3>3 DEF PartDone
    <3> QED
      BY <3>2, <3>3
  <2> QED
    BY <1>1, <1>2, <2>1, PartsKept
<1> QED
  BY <1>1, <1>2, <1>6, <1>7, <1>8, <1>9 DEF StreamInv

\* The slot of a part, as the cube unit and as the vector unit count it.
LEMMA PartSlots ==
    ASSUME call \in Calls, plan = Plan(call)
    PROVE  /\ \A w \in Nat : w < SkWork =>
                /\ w \div plan.splits \in Nat
                /\ w % plan.splits \in Nat /\ w % plan.splits < plan.splits
                /\ (plan.dp + w \div plan.splits) * plan.splits + (w % plan.splits) = PartSlot(w)
                /\ PartSlot(w) \in 0 .. (plan.dp + plan.tail) * plan.splits - 1
           /\ \A q, part \in Nat : q < plan.tail /\ part < plan.splits =>
                \E w \in Nat : /\ w < SkWork /\ w % plan.splits = part
                               /\ (plan.dp + q) * plan.splits + part = PartSlot(w)
<1> DEFINE d == plan.splits
           t == plan.tail
           p == plan.dp
           sk == SkWork
           all == (plan.dp + plan.tail) * plan.splits
           x == p * d
<1>1. /\ d \in Nat \ {0} /\ t \in Nat /\ p \in Nat /\ sk = d * t /\ sk \in Nat
      /\ x \in Nat /\ all = x + sk
      /\ \A w : PartSlot(w) = x + w
  BY StreamFacts DEF PartSlot
<1>2. \A a \in Nat : (p + a) * d = x + d * a
  BY <1>1
<1> HIDE DEF d, t, p, sk, all, x
<1>3. ASSUME NEW w \in Nat, w < sk
      PROVE  /\ w \div d \in Nat /\ w % d \in Nat /\ w % d < d
             /\ (p + w \div d) * d + (w % d) = PartSlot(w)
             /\ PartSlot(w) \in 0 .. all - 1
  <2> DEFINE a == w \div d
             r == w % d
             y == d * a
  <2>1. a \in Nat /\ r \in 0 .. d - 1 /\ w = y + r /\ y \in Nat
    BY <1>1, DivMod, TimesGrows
  <2> HIDE DEF a, r
  <2>2. (p + a) * d = x + y
    BY <1>2, <2>1
  <2> HIDE DEF y
  <2>3. (p + a) * d + r = x + w
    BY <1>1, <2>1, <2>2
  <2>4. PartSlot(w) = x + w /\ x + w \in 0 .. all - 1
    BY <1>1, <1>3
  <2>5. r \in Nat /\ r < d
    BY <1>1, <2>1
  <2> QED
    BY <2>1, <2>3, <2>4, <2>5 DEF a, r
<1>4. ASSUME NEW q \in Nat, NEW part \in Nat, q < t, part < d
      PROVE  \E w \in Nat : /\ w < sk /\ w % d = part
                            /\ (p + q) * d + part = PartSlot(w)
  <2> DEFINE y == d * q
             w == y + part
  <2>1. y \in Nat /\ y + d <= d * t
    BY <1>1, <1>4, TimesGrows
  <2>2. part \in 0 .. d - 1
    BY <1>1, <1>4
  <2>3. w % d = part
    BY <1>1, <2>2, DivIs
  <2>4. (p + q) * d = x + y
    BY <1>2
  <2> HIDE DEF y
  <2>5. w \in Nat /\ w < sk
    <3> DEFINE z == d * t
    <3>1. y + d <= z /\ sk = z
      BY <1>1, <2>1
    <3> HIDE DEF z
    <3> QED
      BY <1>1, <1>4, <2>1, <3>1
  <2>6. (p + q) * d + part = x + w
    BY <1>1, <2>1, <2>4
  <2> HIDE DEF w
  <2> QED
    BY <1>1, <2>3, <2>5, <2>6
<1> QED
  BY <1>3, <1>4 DEF d, t, p, sk, all

LEMMA SkTileStep ==
    ASSUME StreamInv, NEW c \in CubeUnits, SkTile(c)
    PROVE  StreamInv'
<1> DEFINE n == core[c].work
           part == n % plan.splits
<1>1. /\ call \in Calls /\ plan = Plan(call) /\ CubesWork /\ LanesWork /\ PartsSummed
      /\ out = TilesStored \cup SegmentsStored
  BY DEF StreamInv
<1>2. /\ core[c].path = "sk" /\ n < SkWork
      /\ ws' = [ws EXCEPT ![(plan.dp + n \div plan.splits) * plan.splits + part] = PartSum(part)]
      /\ core' = [core EXCEPT ![c].work = @ + call.aic]
      /\ call' = call /\ plan' = plan /\ lane' = lane /\ out' = out
  BY DEF SkTile, PartSum
<1>3. /\ n \in Nat /\ n % call.aic = c /\ (n + call.aic) % call.aic = c
      /\ \A i \in Nat : /\ i % call.aic \in CubeUnits
                        /\ i % call.aic = c => (i < n + call.aic <=> i < n \/ i = n)
      /\ call.aic \in Nat \ {0} /\ plan.dp \in Nat /\ SkWork \in Nat
      /\ plan.dp * plan.splits \in Nat
  BY <1>1, CubeTurn, StreamFacts
<1>4. core \in [CubeUnits -> [path : {"dp", "sk", "sync"}, work : Nat]]
  BY <1>1 DEF CubesWork
<1>5. /\ core'[c].path = "sk" /\ core'[c].work = n + call.aic
      /\ \A d \in CubeUnits : d # c => core'[d] = core[d]
      /\ core' \in [CubeUnits -> [path : {"dp", "sk", "sync"}, work : Nat]]
  BY <1>2, <1>3, <1>4
<1>6. /\ (plan.dp + n \div plan.splits) * plan.splits + part = PartSlot(n)
      /\ PartSlot(n) \in DOMAIN ws
  BY <1>1, <1>2, <1>3, PartSlots DEF PartsSummed
<1>7. ws' = [ws EXCEPT ![PartSlot(n)] = PartSum(n % plan.splits)]
  BY <1>2, <1>6
<1> HIDE DEF n, part
<1>8. CubesWork'
  <2>1. \A d \in CubeUnits : core'[d].work % call.aic = d
    BY <1>1, <1>3, <1>5 DEF CubesWork
  <2> QED
    BY <1>2, <1>5, <2>1, PlanKept DEF CubesWork
<1>9. TilesStored' = TilesStored
  <2>1. ASSUME NEW i \in 0 .. plan.dp - 1
        PROVE  TileDone(i)' <=> TileDone(i)
    <3>1. i \in Nat /\ i % call.aic \in CubeUnits
      BY <1>3
    <3>2. CASE i % call.aic = c
      BY <1>2, <1>5, <3>2 DEF TileDone
    <3>3. CASE i % call.aic # c
      BY <1>2, <1>5, <3>1, <3>3 DEF TileDone
    <3> QED
      BY <3>2, <3>3
  <2> QED
    BY <1>2, <2>1, TilesKept
<1>10. LanesWork' /\ SegmentsStored' = SegmentsStored
  BY <1>1, <1>2, LanesKept
<1>11. PartsSummed'
  <2>1. /\ \A w : PartSlot(w)' = PartSlot(w)
        /\ \A p : PartSum(p)' = PartSum(p)
        /\ SkWork' = SkWork
    BY <1>2, PlanKept
  <2>2. DOMAIN ws' = 0 .. (plan'.dp + plan'.tail) * plan'.splits - 1
    BY <1>1, <1>2, <1>7 DEF PartsSummed
  <2>3. ASSUME NEW w \in 0 .. SkWork - 1, PartDone(w)'
        PROVE  ws'[PartSlot(w)] = PartSum(w % plan.splits)
    <3>1. w \in Nat /\ w % call.aic \in CubeUnits
      BY <1>3
    <3>2. CASE w = n
      BY <1>6, <1>7, <3>2
    <3>3. CASE w # n
      <4>1. PartDone(w)
        <5>1. CASE w % call.aic = c
          <6>1. w < n + call.aic
            BY <1>2, <1>5, <2>3, <5>1 DEF PartDone
          <6>2. w < n
            BY <1>3, <3>1, <3>3, <5>1, <6>1
          <6> QED
            BY <1>2, <5>1, <6>2 DEF PartDone, n
        <5>2. CASE w % call.aic # c
          BY <1>2, <1>5, <2>3, <3>1, <5>2 DEF PartDone
        <5> QED
          BY <5>1, <5>2
      <4>2. ws[PartSlot(w)] = PartSum(w % plan.splits)
        BY <1>1, <4>1 DEF PartsSummed
      <4>3. PartSlot(w) # PartSlot(n)
        <5> DEFINE x == plan.dp * plan.splits
        <5>1. x \in Nat /\ PartSlot(w) = x + w /\ PartSlot(n) = x + n
          BY <1>3 DEF PartSlot
        <5> HIDE DEF x
        <5> QED
          BY <1>3, <3>1, <3>3, <5>1
      <4>4. ws'[PartSlot(w)] = ws[PartSlot(w)]
        <5>1. PartSlot(w) \in DOMAIN ws
          <6>1. w < SkWork
            BY <1>3
          <6> QED
            BY <1>1, <3>1, <6>1, PartSlots DEF PartsSummed
        <5> QED
          BY <1>7, <4>3, <5>1
      <4> QED
        BY <4>2, <4>4
    <3> QED
      BY <3>2, <3>3
  <2> QED
    BY <1>2, <2>1, <2>2, <2>3 DEF PartsSummed
<1> QED
  BY <1>1, <1>2, <1>8, <1>9, <1>10, <1>11 DEF StreamInv

\* When the vector units start, all parts have been summed.
LEMMA AllSummed ==
    ASSUME StreamInv, Synced, NEW q \in Nat, q < plan.tail
    PROVE  \A part \in 0 .. plan.splits - 1 :
             ws[(plan.dp + q) * plan.splits + part] = PartSum(part)
<1>1. /\ call \in Calls /\ plan = Plan(call) /\ CubesWork /\ PartsSummed
  BY DEF StreamInv
<1>2. call.aic \in Nat \ {0} /\ SkWork \in Nat /\ plan.splits \in Nat \ {0}
      /\ CubeUnits = 0 .. call.aic - 1
  BY <1>1, StreamFacts
<1> SUFFICES ASSUME NEW part \in 0 .. plan.splits - 1
             PROVE  ws[(plan.dp + q) * plan.splits + part] = PartSum(part)
  OBVIOUS
<1>3. part \in Nat /\ part < plan.splits
  BY <1>2
<1>4. PICK w \in Nat : /\ w < SkWork /\ w % plan.splits = part
                       /\ (plan.dp + q) * plan.splits + part = PartSlot(w)
  BY <1>1, <1>3, PartSlots
<1>5. w % call.aic \in CubeUnits
  <2>1. w % call.aic \in Nat /\ w % call.aic < call.aic
    BY <1>2, Turns
  <2> QED
    BY <1>2, <2>1
<1>6. PartDone(w)
  BY <1>5 DEF Synced, PartDone
<1>7. w \in 0 .. SkWork - 1
  BY <1>2, <1>4
<1> QED
  BY <1>1, <1>4, <1>6, <1>7 DEF PartsSummed

LEMMA ReduceStep ==
    ASSUME StreamInv, NEW l \in VectorUnits, Reduce(l)
    PROVE  StreamInv'
<1> DEFINE n == lane[l]
           d == TASK_RATIO * call.aic
<1>1. /\ call \in Calls /\ plan = Plan(call) /\ CubesWork /\ LanesWork /\ PartsSummed
      /\ out = TilesStored \cup SegmentsStored
  BY DEF StreamInv
<1>2. /\ Synced /\ n < AivWork
      /\ lane' = [lane EXCEPT ![l] = n + d]
      /\ call' = call /\ plan' = plan /\ core' = core /\ ws' = ws
  BY DEF Reduce
<1>3. /\ d \in Nat \ {0} /\ VectorUnits = 0 .. d - 1 /\ AivWork \in Nat
      /\ plan.perTile \in Nat \ {0} /\ plan.tail \in Nat
      /\ AivWork = plan.perTile * plan.tail
  BY <1>1, StreamFacts
<1>4. lane \in [VectorUnits -> Nat] /\ n \in Nat /\ n % d = l
  BY <1>1 DEF LanesWork
<1> HIDE DEF n, d
<1>5. /\ (n + d) % d = l
      /\ \A w \in Nat : w % d = l => (w < n + d <=> w < n \/ w = n)
      /\ \A w \in Nat : w % d \in VectorUnits
  <2>1. /\ (n + d) % d = l
        /\ \A w \in Nat : w % d = l => (w < n + d <=> w < n \/ w = n)
    BY <1>3, <1>4, Turns
  <2>2. ASSUME NEW w \in Nat PROVE w % d \in VectorUnits
    <3>1. w % d \in Nat /\ w % d < d
      BY <1>3, Turns
    <3> QED
      BY <1>3, <3>1
  <2> QED
    BY <2>1, <2>2
<1>6. out' = out \cup IF SegmentHolds(n) THEN {SegmentStored(n)} ELSE {}
  <2> DEFINE q == n \div plan.perTile
             tile == plan.dp + q
             seg == n % plan.perTile
             t == RowMajorTile(tile)
             rows == TileRows(t) \cap
                       Cut(t[1] * plan.tileM + seg * plan.reduceM, plan.reduceM, call.m)
             sum == UNION {ws[tile * plan.splits + part] : part \in 0 .. plan.splits - 1}
  <2>1. q \in Nat /\ q < plan.tail
    <3> DEFINE a == plan.perTile * q
    <3>1. q \in Nat /\ a <= n /\ a \in Nat
      BY <1>3, <1>4, FloorIs
    <3> HIDE DEF q
    <3>2. a < plan.perTile * plan.tail => q < plan.tail
      BY <1>3, <3>1, TimesGrows
    <3> HIDE DEF a
    <3>3. a < AivWork
      BY <1>2, <1>3, <1>4, <3>1
    <3> QED
      BY <1>3, <3>1, <3>2, <3>3
  <2>2. out' = IF seg * plan.reduceM < plan.tileM /\ rows # {}
               THEN out \cup {[by |-> <<"vector", n>>, rows |-> rows,
                               cols |-> TileCols(t), sum |-> sum]}
               ELSE out
    BY DEF Reduce, n
  <2>3. sum = UNION {PartSum(part) : part \in 0 .. plan.splits - 1}
    <3> HIDE DEF q
    <3>1. \A part \in 0 .. plan.splits - 1 : ws[tile * plan.splits + part] = PartSum(part)
      BY <1>2, <2>1, AllSummed
    <3> QED
      BY <3>1
  <2>4. SegmentHolds(n) <=> seg * plan.reduceM < plan.tileM /\ rows # {}
    BY DEF SegmentHolds, SegmentRows, SegmentTile, SegmentOf
  <2>5. SegmentStored(n) = [by |-> <<"vector", n>>, rows |-> rows,
                            cols |-> TileCols(t), sum |-> sum]
    BY <2>3 DEF SegmentStored, SegmentRows, SegmentTile, SegmentOf
  <2> HIDE DEF seg, rows, t, sum
  <2> QED
    BY <2>2, <2>4, <2>5
<1>7. /\ lane'[l] = n + d /\ \A k \in VectorUnits : k # l => lane'[k] = lane[k]
      /\ lane' \in [VectorUnits -> Nat]
  BY <1>2, <1>3, <1>4
<1>8. LanesWork'
  <2>1. d' = d /\ VectorUnits' = VectorUnits
    BY <1>2, PlanKept DEF d
  <2>2. \A k \in VectorUnits : lane'[k] % d = k
    BY <1>1, <1>5, <1>7 DEF LanesWork, d
  <2> QED
    BY <1>2, <1>7, <2>1, <2>2 DEF LanesWork, d
<1>9. SegmentsStored' = SegmentsStored \cup IF SegmentHolds(n) THEN {SegmentStored(n)} ELSE {}
  <2>1. ASSUME NEW w \in 0 .. AivWork - 1
        PROVE  SegmentDone(w)' <=> SegmentDone(w) \/ w = n
    <3>1. w \in Nat /\ w % d \in VectorUnits
      BY <1>3, <1>5
    <3>2. (SegmentDone(w) <=> w < lane[w % d]) /\ (SegmentDone(w)' <=> w < lane'[w % d])
      BY <1>2 DEF SegmentDone, d
    <3>3. CASE w % d = l
      BY <1>5, <1>7, <3>1, <3>2, <3>3 DEF n
    <3>4. CASE w % d # l
      <4>1. w # n
        BY <1>4, <3>4
      <4> QED
        BY <1>7, <3>1, <3>2, <3>4, <4>1
    <3> QED
      BY <3>3, <3>4
  <2>2. n \in 0 .. AivWork - 1
    BY <1>2, <1>3, <1>4
  <2>3. /\ \A w : SegmentStored(w)' = SegmentStored(w) /\ SegmentHolds(w)' = SegmentHolds(w)
        /\ AivWork' = AivWork
    BY <1>2, PlanKept
  <2>4. {w \in 0 .. AivWork - 1 : SegmentDone(w)' /\ SegmentHolds(w)'}
          = {w \in 0 .. AivWork - 1 : SegmentDone(w) /\ SegmentHolds(w)}
              \cup IF SegmentHolds(n) THEN {n} ELSE {}
    BY <2>1, <2>2, <2>3
  <2>5. SegmentsStored' =
          {SegmentStored(w)' : w \in {v \in 0 .. AivWork' - 1 : SegmentDone(v)' /\ SegmentHolds(v)'}}
    BY DEF SegmentsStored
  <2> QED
    BY <2>3, <2>4, <2>5 DEF SegmentsStored
<1>10. TilesStored' = TilesStored
  <2>1. \A i \in 0 .. plan.dp - 1 : TileDone(i)' <=> TileDone(i)
    BY <1>2 DEF TileDone
  <2> QED
    BY <1>2, <2>1, TilesKept
<1>11. PartsSummed'
  <2>1. \A w \in 0 .. SkWork - 1 : PartDone(w)' => PartDone(w)
    BY <1>2 DEF PartDone
  <2> QED
    BY <1>1, <1>2, <2>1, PartsKept
<1>12. CubesWork'
  BY <1>1, <1>2, PlanKept DEF CubesWork
<1>13. out' = TilesStored' \cup SegmentsStored'
  BY <1>1, <1>6, <1>9, <1>10
<1> QED
  BY <1>1, <1>2, <1>8, <1>11, <1>12, <1>13 DEF StreamInv

LEMMA StreamStarts ==
    ASSUME StreamInit
    PROVE  StreamInv
<1>1. /\ call \in Calls /\ plan = Plan(call)
      /\ core = [c \in CubeUnits |-> [path |-> "dp", work |-> c]]
      /\ lane = [l \in VectorUnits |-> l]
      /\ DOMAIN ws = 0 .. (plan.dp + plan.tail) * plan.splits - 1
      /\ out = {}
  BY DEF StreamInit
<1>2. /\ CubeUnits = 0 .. call.aic - 1 /\ call.aic \in Nat \ {0}
      /\ VectorUnits = 0 .. TASK_RATIO * call.aic - 1
      /\ TASK_RATIO * call.aic \in Nat \ {0}
      /\ plan.dp \in Nat /\ SkWork \in Nat /\ AivWork \in Nat
  BY <1>1, StreamFacts
<1>3. CubesWork
  <2>1. ASSUME NEW c \in CubeUnits PROVE c \in Nat /\ c % call.aic = c
    <3>1. c \in Nat /\ c < call.aic
      BY <1>2
    <3> QED
      BY <1>2, <3>1, Turns
  <2> QED
    BY <1>1, <2>1 DEF CubesWork
<1>4. LanesWork
  <2> DEFINE d == TASK_RATIO * call.aic
  <2>1. ASSUME NEW l \in VectorUnits PROVE l \in Nat /\ l % d = l
    <3> HIDE DEF d
    <3>1. l \in Nat /\ l < d
      BY <1>2 DEF d
    <3>2. d \in Nat \ {0}
      BY <1>2 DEF d
    <3> QED
      BY <3>1, <3>2, Turns
  <2> QED
    BY <1>1, <2>1 DEF LanesWork
<1>5. PartsSummed
  <2>1. ASSUME NEW w \in 0 .. SkWork - 1 PROVE ~PartDone(w)
    <3>1. w \in Nat
      BY <1>2
    <3>2. w % call.aic \in CubeUnits
      <4>1. w % call.aic \in Nat /\ w % call.aic < call.aic
        BY <1>2, <3>1, Turns
      <4> QED
        BY <1>2, <4>1
    <3> QED
      BY <1>1, <3>2 DEF PartDone
  <2> QED
    BY <1>1, <2>1 DEF PartsSummed
<1>6. TilesStored = {}
  <2>1. ASSUME NEW i \in 0 .. plan.dp - 1 PROVE ~TileDone(i)
    <3>1. i \in Nat
      BY <1>2
    <3>2. /\ i % call.aic \in CubeUnits /\ i % call.aic \in Nat /\ i % call.aic <= i
      <4>1. i % call.aic \in Nat /\ i % call.aic < call.aic /\ i % call.aic <= i
        BY <1>2, <3>1, Turns
      <4> QED
        BY <1>2, <4>1
    <3>3. core[i % call.aic].path = "dp" /\ core[i % call.aic].work = i % call.aic
      BY <1>1, <3>2
    <3> QED
      BY <3>1, <3>2, <3>3 DEF TileDone
  <2> QED
    BY <2>1 DEF TilesStored
<1>7. SegmentsStored = {}
  <2>1. ASSUME NEW w \in 0 .. AivWork - 1 PROVE ~SegmentDone(w)
    <3> DEFINE d == TASK_RATIO * call.aic
    <3>1. w \in Nat /\ d \in Nat \ {0} /\ VectorUnits = 0 .. d - 1
      BY <1>2
    <3> HIDE DEF d
    <3>2. w % d \in Nat /\ w % d < d /\ w % d <= w
      BY <3>1, Turns
    <3>3. lane[w % d] = w % d
      BY <1>1, <3>1, <3>2
    <3> QED
      BY <3>1, <3>2, <3>3 DEF SegmentDone, d
  <2> QED
    BY <2>1 DEF SegmentsStored
<1> QED
  BY <1>1, <1>3, <1>4, <1>5, <1>6, <1>7 DEF StreamInv

LEMMA StreamStutters ==
    ASSUME StreamInv, UNCHANGED streamVars
    PROVE  StreamInv'
<1>1. /\ call \in Calls /\ plan = Plan(call) /\ CubesWork /\ LanesWork /\ PartsSummed
      /\ out = TilesStored \cup SegmentsStored
  BY DEF StreamInv
<1>2. /\ call' = call /\ plan' = plan /\ core' = core /\ lane' = lane
      /\ ws' = ws /\ out' = out
  BY DEF streamVars
<1>3. LanesWork' /\ SegmentsStored' = SegmentsStored
  BY <1>1, <1>2, LanesKept
<1>4. TilesStored' = TilesStored
  <2>1. \A i \in 0 .. plan.dp - 1 : TileDone(i)' <=> TileDone(i)
    BY <1>2 DEF TileDone
  <2> QED
    BY <1>2, <2>1, TilesKept
<1>5. PartsSummed'
  <2>1. \A w \in 0 .. SkWork - 1 : PartDone(w)' => PartDone(w)
    BY <1>2 DEF PartDone
  <2> QED
    BY <1>1, <1>2, <2>1, PartsKept
<1>6. CubesWork'
  BY <1>1, <1>2, PlanKept DEF CubesWork
<1> QED
  BY <1>1, <1>2, <1>3, <1>4, <1>5, <1>6 DEF StreamInv

\* The inductive invariant of Stream-K: the plan is that of the call, every
\* unit is at a turn of its own, what has been summed is in its slot, and C
\* holds the tiles and the segments that are done, whole.
THEOREM StreamInvariant == StreamSpec => []StreamInv
<1>1. StreamInit => StreamInv
  BY StreamStarts
<1>2. StreamInv /\ [StreamNext]_streamVars => StreamInv'
  <2> SUFFICES ASSUME StreamInv, [StreamNext]_streamVars PROVE StreamInv'
    OBVIOUS
  <2>1. ASSUME NEW c \in CubeUnits, DpTile(c) PROVE StreamInv'
    BY <2>1, DpTileStep
  <2>2. ASSUME NEW c \in CubeUnits, DpEnds(c) PROVE StreamInv'
    BY <2>2, DpEndsStep
  <2>3. ASSUME NEW c \in CubeUnits, SkTile(c) PROVE StreamInv'
    BY <2>3, SkTileStep
  <2>4. ASSUME NEW c \in CubeUnits, SkEnds(c) PROVE StreamInv'
    BY <2>4, SkEndsStep
  <2>5. ASSUME NEW l \in VectorUnits, Reduce(l) PROVE StreamInv'
    BY <2>5, ReduceStep
  <2>6. CASE Stopped
    BY <2>6, StreamStutters DEF Stopped
  <2>7. CASE UNCHANGED streamVars
    BY <2>7, StreamStutters
  <2> QED
    BY <2>1, <2>2, <2>3, <2>4, <2>5, <2>6, <2>7 DEF StreamNext
<1> QED
  BY <1>1, <1>2, PTL DEF StreamSpec

-----------------------------------------------------------------------------
(* Stream-K: no element of C is left out or stored twice.                    *)

LEMMA CutIs ==
    ASSUME NEW from \in Nat, NEW size \in Nat \ {0}, NEW end \in Nat
    PROVE  \A x : x \in Cut(from, size, end) <=>
                    x \in Nat /\ from <= x /\ x < from + size /\ x < end
BY DEF Cut, Smaller

\* Pieces of one size do not meet, and one of them has a number.
LEMMA CutsApart ==
    ASSUME NEW base \in Nat, NEW size \in Nat \ {0}, NEW end \in Nat,
           NEW a \in Nat, NEW b \in Nat, a # b
    PROVE  Cut(base + a * size, size, end) \cap Cut(base + b * size, size, end) = {}
<1> DEFINE u == a * size
           v == b * size
<1>1. u \in Nat /\ v \in Nat /\ u = size * a /\ v = size * b
  OBVIOUS
<1>2. a < b => u + size <= v
  BY <1>1, TimesGrows
<1>3. b < a => v + size <= u
  BY <1>1, TimesGrows
<1> HIDE DEF u, v
<1>4. u + size <= v \/ v + size <= u
  BY <1>2, <1>3
<1>5. base + u \in Nat /\ base + v \in Nat
  BY <1>1
<1>6. /\ \A x : x \in Cut(base + u, size, end) =>
                  x \in Nat /\ base + u <= x /\ x < base + u + size
      /\ \A x : x \in Cut(base + v, size, end) =>
                  x \in Nat /\ base + v <= x /\ x < base + v + size
  BY <1>5, CutIs
<1>7. Cut(base + u, size, end) \cap Cut(base + v, size, end) = {}
  BY <1>1, <1>4, <1>6
<1> QED
  BY <1>7 DEF u, v

LEMMA CutFound ==
    ASSUME NEW size \in Nat \ {0}, NEW end \in Nat, NEW x \in Nat, x < end
    PROVE  LET q == x \div size IN
           /\ q \in Nat /\ q * size \in Nat /\ q * size <= x /\ x < q * size + size
           /\ x \in Cut(q * size, size, end)
           /\ \A t \in Nat : x < size * t => q < t
<1> DEFINE q == x \div size
           a == size * q
<1>1. q \in Nat /\ a <= x /\ a \in Nat /\ x < a + size
  BY FloorIs
<1>2. q * size = a
  BY <1>1
<1>3. \A t \in Nat : x < size * t => q < t
  <2> SUFFICES ASSUME NEW t \in Nat, x < size * t PROVE q < t
    OBVIOUS
  <2> HIDE DEF q
  <2>1. size * t \in Nat /\ (a < size * t => q < t)
    BY <1>1, TimesGrows
  <2> HIDE DEF a
  <2> DEFINE b == size * t
  <2>2. b \in Nat /\ x < b /\ (a < b => q < t)
    BY <2>1
  <2> HIDE DEF b
  <2> QED
    BY <1>1, <2>2
<1> HIDE DEF a, q
<1>4. x \in Cut(a, size, end)
  BY <1>1, CutIs
<1> QED
  BY <1>1, <1>2, <1>3, <1>4 DEF q

\* Tiles with different numbers do not meet.
LEMMA TilesApart ==
    ASSUME StreamInv,
           NEW i \in Nat, i < plan.nTiles * plan.mTiles,
           NEW j \in Nat, j < plan.nTiles * plan.mTiles, i # j
    PROVE  \/ TileRows(TileOf(i)) \cap TileRows(TileOf(j)) = {}
           \/ TileCols(TileOf(i)) \cap TileCols(TileOf(j)) = {}
<1>1. call \in Calls /\ plan = Plan(call)
  BY DEF StreamInv
<1>2. /\ Grid /\ plan.tileM \in Nat \ {0} /\ plan.tileN \in Nat \ {0}
      /\ call.m \in Nat /\ call.n \in Nat
  <2>1. Grid /\ Divided(call, plan) /\ call.m \in Nat /\ call.n \in Nat
    BY <1>1, StreamFacts
  <2>2. plan.tileM \in 1 .. 256 /\ plan.tileN \in 1 .. 256
    BY <2>1 DEF Divided
  <2> QED
    BY <2>1, <2>2
<1>3. PICK r \in Nat, n \in Nat : TileOf(i) = <<r, n>>
  BY <1>2, TileRange
<1>4. PICK s \in Nat, p \in Nat : TileOf(j) = <<s, p>>
  BY <1>2, TileRange
<1>5. r # s \/ n # p
  <2>1. TileOf(i) # TileOf(j)
    BY <1>2, TileInjective
  <2> QED
    BY <1>3, <1>4, <2>1
<1>6. /\ TileRows(TileOf(i)) = Cut(r * plan.tileM, plan.tileM, call.m)
      /\ TileCols(TileOf(i)) = Cut(n * plan.tileN, plan.tileN, call.n)
      /\ TileRows(TileOf(j)) = Cut(s * plan.tileM, plan.tileM, call.m)
      /\ TileCols(TileOf(j)) = Cut(p * plan.tileN, plan.tileN, call.n)
  BY <1>3, <1>4 DEF TileRows, TileCols
<1>7. ASSUME NEW size \in Nat \ {0}, NEW end \in Nat, NEW a \in Nat, NEW b \in Nat, a # b
      PROVE  Cut(a * size, size, end) \cap Cut(b * size, size, end) = {}
  <2>1. Cut(0 + a * size, size, end) \cap Cut(0 + b * size, size, end) = {}
    BY <1>7, CutsApart
  <2>2. 0 + a * size = a * size /\ 0 + b * size = b * size
    OBVIOUS
  <2> QED
    BY <2>1, <2>2
<1> QED
  BY <1>2, <1>5, <1>6, <1>7

\* What the number of a segment says.
LEMMA SegmentFacts ==
    ASSUME StreamInv, NEW w \in 0 .. AivWork - 1
    PROVE  /\ plan.tail # 0 /\ w \in Nat
           /\ SegmentTile(w) \in Nat /\ SegmentTile(w) >= plan.dp
           /\ SegmentTile(w) < plan.nTiles * plan.mTiles
           /\ RowMajorTile(SegmentTile(w)) = TileOf(SegmentTile(w))
           /\ SegmentOf(w) \in Nat
           /\ SegmentRows(w) \subseteq TileRows(TileOf(SegmentTile(w)))
           /\ \E q \in Nat : /\ SegmentTile(w) = plan.dp + q
                             /\ w = plan.perTile * q + SegmentOf(w)
<1> DEFINE q == w \div plan.perTile
           a == plan.perTile * q
           b == plan.perTile * plan.tail
           all == plan.nTiles * plan.mTiles
<1>1. /\ plan.perTile \in Nat \ {0} /\ plan.tail \in Nat /\ plan.dp \in Nat
      /\ AivWork = b /\ AivWork \in Nat /\ plan.dp + plan.tail = all
  BY StreamFacts DEF StreamInv
<1>2. w \in Nat /\ w < b
  BY <1>1
<1>3. /\ q \in Nat /\ a \in Nat /\ a <= w /\ w % plan.perTile \in Nat
      /\ w = a + (w % plan.perTile)
  <2> DEFINE d == plan.perTile
  <2>1. d \in Nat \ {0} /\ w \in Nat
    BY <1>1, <1>2
  <2> HIDE DEF d
  <2>2. /\ w \div d \in Nat /\ w % d \in 0 .. d - 1 /\ w = d * (w \div d) + (w % d)
        /\ d * (w \div d) <= w /\ d * (w \div d) \in Nat
    BY <2>1, FloorIs, DivMod
  <2>3. w % d \in Nat
    BY <2>1, <2>2
  <2> QED
    BY <2>2, <2>3 DEF d
<1> HIDE DEF q
<1>4. a < b => q < plan.tail
  BY <1>1, <1>3, TimesGrows
<1> HIDE DEF a, b, all
<1>5. b \in Nat /\ q < plan.tail
  BY <1>1, <1>2, <1>3, <1>4
<1>6. SegmentTile(w) = plan.dp + q /\ SegmentOf(w) = w % plan.perTile
  BY DEF SegmentTile, SegmentOf, q
<1>7. plan.tail # 0 /\ SegmentTile(w) \in Nat /\ SegmentTile(w) >= plan.dp
      /\ SegmentTile(w) < all
  BY <1>1, <1>3, <1>5, <1>6
<1>8. RowMajorTile(SegmentTile(w)) = TileOf(SegmentTile(w))
  BY <1>7 DEF TileOf
<1>9. SegmentRows(w) \subseteq TileRows(TileOf(SegmentTile(w)))
  BY <1>8 DEF SegmentRows
<1>10. q \in Nat /\ SegmentTile(w) = plan.dp + q /\ w = a + SegmentOf(w)
  BY <1>3, <1>6
<1> QED
  BY <1>2, <1>3, <1>6, <1>7, <1>8, <1>9, <1>10 DEF all, a

\* Nor do segments, be they of one tile or of two.
LEMMA SegmentsApart ==
    ASSUME StreamInv, NEW w \in 0 .. AivWork - 1, NEW v \in 0 .. AivWork - 1, w # v
    PROVE  \/ SegmentRows(w) \cap SegmentRows(v) = {}
           \/ TileCols(TileOf(SegmentTile(w))) \cap TileCols(TileOf(SegmentTile(v))) = {}
<1>1. /\ SegmentTile(w) \in Nat /\ SegmentTile(w) < plan.nTiles * plan.mTiles
      /\ RowMajorTile(SegmentTile(w)) = TileOf(SegmentTile(w))
      /\ SegmentOf(w) \in Nat
      /\ SegmentRows(w) \subseteq TileRows(TileOf(SegmentTile(w)))
      /\ \E q \in Nat : /\ SegmentTile(w) = plan.dp + q
                        /\ w = plan.perTile * q + SegmentOf(w)
  BY SegmentFacts
<1>2. /\ SegmentTile(v) \in Nat /\ SegmentTile(v) < plan.nTiles * plan.mTiles
      /\ RowMajorTile(SegmentTile(v)) = TileOf(SegmentTile(v))
      /\ SegmentOf(v) \in Nat
      /\ SegmentRows(v) \subseteq TileRows(TileOf(SegmentTile(v)))
      /\ \E q \in Nat : /\ SegmentTile(v) = plan.dp + q
                        /\ v = plan.perTile * q + SegmentOf(v)
  BY SegmentFacts
<1>3. CASE SegmentTile(w) # SegmentTile(v)
  <2>1. \/ TileRows(TileOf(SegmentTile(w))) \cap TileRows(TileOf(SegmentTile(v))) = {}
        \/ TileCols(TileOf(SegmentTile(w))) \cap TileCols(TileOf(SegmentTile(v))) = {}
    BY <1>1, <1>2, <1>3, TilesApart
  <2> QED
    BY <1>1, <1>2, <2>1
<1>4. CASE SegmentTile(w) = SegmentTile(v)
  <2> DEFINE g == SegmentTile(w)
  <2>1. /\ call \in Calls /\ plan = Plan(call)
        /\ Grid /\ Divided(call, plan) /\ plan.dp \in Nat /\ call.m \in Nat
    BY StreamFacts DEF StreamInv
  <2>2. plan.tileM \in Nat /\ plan.reduceM \in Nat \ {0}
    BY <2>1 DEF Divided
  <2>3. SegmentOf(w) # SegmentOf(v)
    <3>1. PICK q \in Nat : /\ SegmentTile(w) = plan.dp + q
                           /\ w = plan.perTile * q + SegmentOf(w)
      BY <1>1
    <3>2. PICK p \in Nat : /\ SegmentTile(v) = plan.dp + p
                           /\ v = plan.perTile * p + SegmentOf(v)
      BY <1>2
    <3>3. q = p
      <4>1. plan.dp + q = plan.dp + p
        BY <1>4, <3>1, <3>2
      <4>2. plan.dp \in Nat
        BY <2>1
      <4> QED
        BY <4>1, <4>2
    <3> QED
      BY <3>1, <3>2, <3>3
  <2>4. PICK r \in Nat, n \in Nat : TileOf(g) = <<r, n>>
    BY <1>1, <2>1, TileRange
  <2>5. TileOf(g)[1] = r
    BY <2>4
  <2> DEFINE base == r * plan.tileM
  <2>6. base \in Nat
    BY <2>2
  <2>7. SegmentRows(w) \subseteq
          Cut(base + SegmentOf(w) * plan.reduceM, plan.reduceM, call.m)
    BY <1>1, <2>5 DEF SegmentRows
  <2>8. SegmentRows(v) \subseteq
          Cut(base + SegmentOf(v) * plan.reduceM, plan.reduceM, call.m)
    BY <1>2, <1>4, <2>5 DEF SegmentRows
  <2>9. Cut(base + SegmentOf(w) * plan.reduceM, plan.reduceM, call.m)
          \cap Cut(base + SegmentOf(v) * plan.reduceM, plan.reduceM, call.m) = {}
    <3> HIDE DEF base
    <3> QED
      BY <1>1, <1>2, <2>1, <2>2, <2>3, <2>6, CutsApart
  <2> QED
    BY <2>7, <2>8, <2>9
<1> QED
  BY <1>3, <1>4

\* A tile and a segment do not meet either: the segment is of another tile.
LEMMA TileAndSegmentApart ==
    ASSUME StreamInv, NEW i \in 0 .. plan.dp - 1, NEW w \in 0 .. AivWork - 1
    PROVE  \/ TileRows(TileOf(i)) \cap SegmentRows(w) = {}
           \/ TileCols(TileOf(i)) \cap TileCols(TileOf(SegmentTile(w))) = {}
<1>1. /\ SegmentTile(w) \in Nat /\ SegmentTile(w) >= plan.dp
      /\ SegmentTile(w) < plan.nTiles * plan.mTiles
      /\ SegmentRows(w) \subseteq TileRows(TileOf(SegmentTile(w)))
  BY SegmentFacts
<1>2. plan.dp \in Nat /\ plan.tail \in Nat /\ plan.dp + plan.tail = plan.nTiles * plan.mTiles
  BY StreamFacts DEF StreamInv
<1> DEFINE all == plan.nTiles * plan.mTiles
<1>3. plan.dp <= all
  <2> HIDE DEF all
  <2>1. plan.dp + plan.tail = all
    BY <1>2 DEF all
  <2> QED
    BY <1>2, <2>1
<1>4. i \in Nat /\ i < all /\ i # SegmentTile(w)
  <2> HIDE DEF all
  <2>1. all \in Nat
    BY <1>2 DEF all
  <2> QED
    BY <1>1, <1>2, <1>3, <2>1
<1>5. \/ TileRows(TileOf(i)) \cap TileRows(TileOf(SegmentTile(w))) = {}
      \/ TileCols(TileOf(i)) \cap TileCols(TileOf(SegmentTile(w))) = {}
  BY <1>1, <1>4, TilesApart
<1> QED
  BY <1>1, <1>5

\* What is stored in C, and by whom.
LEMMA Stores ==
    ASSUME StreamInv
    PROVE  \A s : s \in out <=>
             \/ \E i \in 0 .. plan.dp - 1 : TileDone(i) /\ s = TileStored(i)
             \/ \E w \in 0 .. AivWork - 1 :
                   SegmentDone(w) /\ SegmentHolds(w) /\ s = SegmentStored(w)
BY DEF StreamInv, TilesStored, SegmentsStored

LEMMA StoresApart ==
    ASSUME StreamInv, NEW s \in out, NEW u \in out, s # u
    PROVE  s.rows \cap u.rows = {} \/ s.cols \cap u.cols = {}
<1> DEFINE Tile(x, i) == /\ x = TileStored(i)
                         /\ x.rows = TileRows(TileOf(i)) /\ x.cols = TileCols(TileOf(i))
           Segment(x, w) == /\ x = SegmentStored(w) /\ x.rows = SegmentRows(w)
                            /\ x.cols = TileCols(TileOf(SegmentTile(w)))
<1>1. ASSUME NEW x \in out
      PROVE  \/ \E i \in 0 .. plan.dp - 1 : Tile(x, i)
             \/ \E w \in 0 .. AivWork - 1 : Segment(x, w)
  <2>1. CASE \E i \in 0 .. plan.dp - 1 : x = TileStored(i)
    BY <2>1 DEF TileStored
  <2>2. CASE \E w \in 0 .. AivWork - 1 : x = SegmentStored(w)
    <3>1. PICK w \in 0 .. AivWork - 1 : x = SegmentStored(w)
      BY <2>2
    <3>2. RowMajorTile(SegmentTile(w)) = TileOf(SegmentTile(w))
      BY SegmentFacts
    <3> QED
      BY <3>1, <3>2 DEF SegmentStored
  <2> QED
    BY <2>1, <2>2, Stores
<1>2. ASSUME NEW i \in 0 .. plan.dp - 1, NEW j \in 0 .. plan.dp - 1, Tile(s, i), Tile(u, j)
      PROVE  s.rows \cap u.rows = {} \/ s.cols \cap u.cols = {}
  <2>1. i # j
    BY <1>2
  <2>2. plan.dp \in Nat /\ plan.tail \in Nat /\ plan.dp + plan.tail = plan.nTiles * plan.mTiles
    BY StreamFacts DEF StreamInv
  <2> DEFINE all == plan.nTiles * plan.mTiles
  <2>3. plan.dp + plan.tail = all
    BY <2>2
  <2> HIDE DEF all
  <2>4. i \in Nat /\ j \in Nat /\ i < all /\ j < all
    BY <2>2, <2>3
  <2>5. \/ TileRows(TileOf(i)) \cap TileRows(TileOf(j)) = {}
        \/ TileCols(TileOf(i)) \cap TileCols(TileOf(j)) = {}
    BY <2>1, <2>4, TilesApart DEF all
  <2> QED
    BY <1>2, <2>5
<1>3. ASSUME NEW x \in out, NEW y \in out,
             NEW i \in 0 .. plan.dp - 1, NEW w \in 0 .. AivWork - 1, Tile(x, i), Segment(y, w)
      PROVE  x.rows \cap y.rows = {} \/ x.cols \cap y.cols = {}
  BY <1>3, TileAndSegmentApart
<1>4. ASSUME NEW w \in 0 .. AivWork - 1, NEW v \in 0 .. AivWork - 1,
             Segment(s, w), Segment(u, v)
      PROVE  s.rows \cap u.rows = {} \/ s.cols \cap u.cols = {}
  <2>1. w # v
    BY <1>4
  <2> QED
    BY <1>4, <2>1, SegmentsApart
<1> HIDE DEF Tile, Segment
<1> QED
  BY <1>1, <1>2, <1>3, <1>4

LEMMA StoresWhole ==
    ASSUME StreamInv, NEW s \in out
    PROVE  Whole(s.sum)
<1>1. /\ Divided(call, plan) /\ call.k \in Nat \ {0}
      /\ plan.slabK \in Nat \ {0} /\ plan.slabKSk \in Nat \ {0}
      /\ plan.slabsPer \in Nat \ {0} /\ plan.splits \in Nat \ {0}
  BY StreamFacts DEF StreamInv
<1>2. CASE \E i \in 0 .. plan.dp - 1 : s = TileStored(i)
  <2>1. s.sum = SumOf(0, 0 .. CeilDiv(call.k, plan.slabK) - 1, 0, plan.slabK)
    BY <1>2 DEF TileStored
  <2> QED
    BY <1>1, <2>1, WholeAtOnce
<1>3. CASE \E w \in 0 .. AivWork - 1 : s = SegmentStored(w)
  <2>1. s.sum = UNION {PartSum(part) : part \in 0 .. plan.splits - 1}
    BY <1>3 DEF SegmentStored
  <2>2. plan.tail # 0
    BY <1>3, SegmentFacts
  <2>3. /\ plan.slabsPer * (plan.splits - 1) < CeilDiv(call.k, plan.slabKSk)
        /\ CeilDiv(call.k, plan.slabKSk) <= plan.slabsPer * plan.splits
    BY <1>1, <2>2 DEF Divided
  <2> QED
    BY <1>1, <2>1, <2>3, WholeInParts
<1> QED
  BY <1>2, <1>3, Stores

\* The last piece of work ends all of them.
LEMMA AllDone ==
    ASSUME StreamInv, Reduced
    PROVE  /\ \A i \in Nat : TileDone(i)
           /\ \A w \in Nat : w < AivWork => SegmentDone(w)
<1>1. /\ call.aic \in Nat \ {0} /\ CubeUnits = 0 .. call.aic - 1
      /\ TASK_RATIO * call.aic \in Nat \ {0}
      /\ VectorUnits = 0 .. TASK_RATIO * call.aic - 1 /\ AivWork \in Nat
      /\ lane \in [VectorUnits -> Nat]
  BY StreamFacts DEF StreamInv, LanesWork
<1>2. ASSUME NEW i \in Nat PROVE TileDone(i)
  <2>1. i % call.aic \in Nat /\ i % call.aic < call.aic
    BY <1>1, Turns
  <2>2. i % call.aic \in CubeUnits
    BY <1>1, <2>1
  <2> QED
    BY <2>2 DEF TileDone, Reduced
<1>3. ASSUME NEW w \in Nat, w < AivWork PROVE SegmentDone(w)
  <2> DEFINE d == TASK_RATIO * call.aic
  <2>1. d \in Nat \ {0} /\ VectorUnits = 0 .. d - 1
    BY <1>1
  <2> HIDE DEF d
  <2>2. w % d \in Nat /\ w % d < d
    BY <2>1, Turns
  <2>3. w % d \in VectorUnits
    BY <2>1, <2>2
  <2>4. lane[w % d] \in Nat /\ lane[w % d] >= AivWork
    BY <1>1, <2>3 DEF Reduced
  <2> QED
    BY <1>1, <1>3, <2>4 DEF SegmentDone, d
<1> QED
  BY <1>2, <1>3

LEMMA StoredEverywhere ==
    ASSUME StreamInv, Reduced,
           NEW i \in Nat, i < call.m, NEW j \in Nat, j < call.n
    PROVE  \E s \in out : i \in s.rows /\ j \in s.cols
<1> DEFINE r == i \div plan.tileM
           n == j \div plan.tileN
           high == plan.tileM * plan.mTiles
           wide == plan.tileN * plan.nTiles
           all == plan.nTiles * plan.mTiles
           base == r * plan.tileM
<1>1. /\ Grid /\ Divided(call, plan) /\ call.m \in Nat /\ call.n \in Nat
      /\ plan.dp \in Nat /\ plan.tail \in Nat /\ plan.dp + plan.tail = all
      /\ plan.perTile \in Nat \ {0} /\ AivWork \in Nat
      /\ AivWork = plan.perTile * plan.tail
  BY StreamFacts DEF StreamInv
<1>2. /\ plan.tileM \in Nat \ {0} /\ plan.tileN \in Nat \ {0}
      /\ plan.mTiles \in Nat /\ plan.nTiles \in Nat
      /\ plan.reduceM \in Nat \ {0}
      /\ call.m <= high /\ call.n <= wide
      /\ plan.tileM <= plan.reduceM * plan.perTile \/ call.m <= plan.reduceM * plan.perTile
  <2>1. /\ plan.tileM \in 1 .. 256 /\ plan.tileN \in 1 .. 256
    BY <1>1 DEF Divided
  <2>2. plan.tileM \in Nat \ {0} /\ plan.tileN \in Nat \ {0}
    BY <2>1
  <2> QED
    BY <1>1, <2>2 DEF Divided
<1>3. high \in Nat /\ wide \in Nat
  BY <1>2
<1>4. i < high /\ j < wide
  <2> HIDE DEF high, wide
  <2> QED
    BY <1>1, <1>2, <1>3
<1>5. /\ r \in Nat /\ base \in Nat /\ base <= i /\ i < base + plan.tileM
      /\ i \in Cut(base, plan.tileM, call.m) /\ r < plan.mTiles
  BY <1>1, <1>2, <1>4, CutFound
<1>6. n \in Nat /\ j \in Cut(n * plan.tileN, plan.tileN, call.n) /\ n < plan.nTiles
  BY <1>1, <1>2, <1>4, CutFound
<1> HIDE DEF r, n, high, wide
<1>7. PICK g \in Nat : g < all /\ TileOf(g) = <<r, n>>
  BY <1>1, <1>5, <1>6, TileFound
<1>8. i \in TileRows(TileOf(g)) /\ j \in TileCols(TileOf(g)) /\ TileOf(g)[1] = r
  BY <1>5, <1>6, <1>7 DEF TileRows, TileCols
<1>9. CASE g < plan.dp
  <2>1. g \in 0 .. plan.dp - 1 /\ TileDone(g)
    BY <1>1, <1>9, AllDone
  <2>2. TileStored(g) \in out
    BY <2>1, Stores
  <2>3. TileStored(g).rows = TileRows(TileOf(g)) /\ TileStored(g).cols = TileCols(TileOf(g))
    BY DEF TileStored
  <2> QED
    BY <1>8, <2>2, <2>3
<1>10. CASE ~(g < plan.dp)
  <2> DEFINE q == g - plan.dp
             x == i - base
             seg == x \div plan.reduceM
             w == plan.perTile * q + seg
             room == plan.reduceM * plan.perTile
  <2> HIDE DEF all, base
  <2>1. q \in Nat /\ q < plan.tail /\ g = plan.dp + q
    <3>1. all \in Nat
      BY <1>1
    <3> QED
      BY <1>1, <1>7, <1>10, <3>1
  <2>2. x \in Nat /\ i = base + x /\ x < plan.tileM /\ x < call.m
    BY <1>1, <1>2, <1>5
  <2> HIDE DEF q, x
  <2>3. x < room
    <3>1. room \in Nat
      BY <1>1, <1>2
    <3>2. plan.tileM <= room \/ call.m <= room
      BY <1>2
    <3> HIDE DEF room
    <3> QED
      BY <1>1, <1>2, <2>2, <3>1, <3>2
  <2>4. /\ seg \in Nat /\ seg * plan.reduceM \in Nat /\ seg * plan.reduceM <= x
        /\ x < seg * plan.reduceM + plan.reduceM /\ seg < plan.perTile
    BY <1>1, <1>2, <2>2, <2>3, CutFound
  <2> HIDE DEF seg, room
  <2>5. seg \in 0 .. plan.perTile - 1
    BY <1>1, <2>4
  <2>6. w \in Nat /\ w \div plan.perTile = q /\ w % plan.perTile = seg
    BY <1>1, <2>1, <2>5, DivIs
  <2>7. w < AivWork
    <3> DEFINE y == plan.perTile * q
               z == plan.perTile * plan.tail
    <3>1. y \in Nat /\ y + plan.perTile <= z /\ AivWork = z
      BY <1>1, <2>1, TimesGrows
    <3> HIDE DEF y, z
    <3>2. y + seg < AivWork
      BY <1>1, <2>4, <3>1
    <3> QED
      BY <3>2 DEF y
  <2> HIDE DEF w
  <2>8. w \in 0 .. AivWork - 1
    BY <1>1, <2>6, <2>7
  <2>9. SegmentTile(w) = g /\ SegmentOf(w) = seg
    BY <2>1, <2>6 DEF SegmentTile, SegmentOf
  <2>10. RowMajorTile(g) = TileOf(g)
    BY <2>8, <2>9, SegmentFacts
  <2>11. SegmentRows(w) = TileRows(TileOf(g)) \cap
                            Cut(base + seg * plan.reduceM, plan.reduceM, call.m)
    BY <1>8, <2>9, <2>10 DEF SegmentRows, base
  <2> DEFINE y == seg * plan.reduceM
  <2>12. i \in Cut(base + y, plan.reduceM, call.m) /\ y < plan.tileM
    <3>1. y \in Nat /\ y <= x /\ x < y + plan.reduceM
      BY <2>4
    <3> HIDE DEF y
    <3>2. /\ base + y \in Nat /\ base + y <= i /\ i < base + y + plan.reduceM
          /\ y < plan.tileM
      BY <1>2, <1>5, <2>2, <3>1
    <3> QED
      BY <1>1, <1>2, <3>2, CutIs
  <2>13. i \in SegmentRows(w) /\ SegmentHolds(w)
    BY <1>8, <2>9, <2>11, <2>12 DEF SegmentHolds
  <2>14. SegmentDone(w)
    BY <2>6, <2>7, AllDone
  <2>15. SegmentStored(w) \in out
    BY <2>8, <2>13, <2>14, Stores
  <2>16. SegmentStored(w).rows = SegmentRows(w)
         /\ SegmentStored(w).cols = TileCols(TileOf(g))
    BY <2>9, <2>10 DEF SegmentStored
  <2> QED
    BY <1>8, <2>13, <2>15, <2>16
<1> QED
  BY <1>9, <1>10

\* Every product stored in C is whole, none is stored twice, and in the end
\* there is one for every element: for every size of the matrices, every
\* number of cores, and every order in which they do their work.
THEOREM ProductsAlwaysWhole == StreamSpec => []ProductWhole
<1>1. ASSUME StreamInv PROVE ProductWhole
  <2>1. \A s \in out : Whole(s.sum)
    BY <1>1, StoresWhole
  <2>2. \A s, u \in out : s # u => s.rows \cap u.rows = {} \/ s.cols \cap u.cols = {}
    BY <1>1, StoresApart
  <2>3. ASSUME Reduced, NEW i \in 0 .. call.m - 1, NEW j \in 0 .. call.n - 1
        PROVE  \E s \in out : i \in s.rows /\ j \in s.cols
    <3>1. call.m \in Nat /\ call.n \in Nat
      BY <1>1, StreamFacts DEF StreamInv
    <3>2. i \in Nat /\ i < call.m /\ j \in Nat /\ j < call.n
      BY <3>1
    <3> QED
      BY <1>1, <2>3, <3>2, StoredEverywhere
  <2> QED
    BY <2>1, <2>2, <2>3 DEF ProductWhole
<1> QED
  BY <1>1, StreamInvariant, PTL

\* The buffers of a core hold what the plan puts into them, on a device with
\* so few cores that two rows of partial sums of each fit into UB.
THEOREM BuffersAlwaysFit == FewCores => (StreamSpec => []BuffersFit)
<1> SUFFICES ASSUME FewCores PROVE StreamSpec => []BuffersFit
  OBVIOUS
<1>1. ASSUME StreamInv PROVE BuffersFit
  BY <1>1, BuffersOfCall DEF StreamInv
<1> QED
  BY <1>1, StreamInvariant, PTL
=============================================================================
