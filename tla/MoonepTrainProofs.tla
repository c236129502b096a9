------------------------- MODULE MoonepTrainProofs -------------------------
(***************************************************************************)
(* Which training loops keep their slots: MoonepTrain for every group and   *)
(* every program in which the barriers stand where they have to.            *)
(*                                                                         *)
(* The argument is one count.  A kernel of a step is behind as many         *)
(* barriers on every rank, Phase; a rank that runs it has left that many,   *)
(* so every other rank has reached as many.  Hence two kernels that are no  *)
(* barriers run at the same time only if they are in the same phase.        *)
(*                                                                         *)
(* The last part is about the inside of the pull kernel, MoonepPull.        *)
(***************************************************************************)
EXTENDS MoonepTrain, MoonepPull, FiniteSetTheorems, TLAPS

Positions(p) == 1 .. Len(p.kernels)
Uses(p) == {i \in Positions(p) : p.kernels[i] = "use"}
Pushes(p) == {i \in Positions(p) : p.kernels[i] = "push"}
Grads(p) == {i \in Positions(p) : p.kernels[i] = "grad"}
Pulls(p) == {i \in Positions(p) : p.kernels[i] = "pull"}
Barriers(p) == {i \in Positions(p) : p.kernels[i] = "barrier"}

\* Some barrier stands between kernel i of a step and kernel j of the next.
Parted(p, i, j) == \E b \in Barriers(p) : b < j \/ b > i

\* The weights are pushed and a barrier passed before they are used, and with
\* one slot there is a barrier before the next step's push.
WeightsParted(p) ==
    \A u \in Uses(p) :
        /\ \E q \in Pushes(p), b \in Barriers(p) : q < b /\ b < u
        /\ p.slots = 1 => \A x \in Uses(p) \cup Pushes(p), q \in Pushes(p) : Parted(p, x, q)

\* The gradient is written and a barrier passed before it is pulled, and
\* there is a barrier before the next step writes it again.
GradientsParted(p) ==
    \A l \in Pulls(p) :
        /\ \E g \in Grads(p), b \in Barriers(p) : g < b /\ b < l
        /\ \A g \in Grads(p) : Parted(p, l, g)

-----------------------------------------------------------------------------
\* The barriers of a step before its i-th kernel, all of a step, and those of
\* the program before kernel i of step n.
BarriersBefore(p, i) == Cardinality({b \in Barriers(p) : b < i})
PerStep(p) == Cardinality(Barriers(p))
Phase(p, n, i) == (n - 1) * PerStep(p) + BarriersBefore(p, i)

\* Rank r has come to kernel i of step n, or has finished it.
Reached(r, n, i) == step[r] > n \/ (step[r] = n /\ pos[r] >= i)
Done(r, n, i) == step[r] > n \/ (step[r] = n /\ pos[r] > i)
LeftBarriers(r) == Phase(prog, step[r], pos[r])

TrainTypes ==
    /\ prog \in Programs
    /\ etc \in [1 .. prog.steps -> prog.plans]
    /\ step \in [Ranks -> 1 .. prog.steps + 1]
    /\ pos \in [Ranks -> 1 .. Len(prog.kernels)]
    /\ \A r \in Ranks : step[r] = prog.steps + 1 => pos[r] = 1
    /\ served \in [Ranks -> SUBSET Ranks]
    /\ at \in [Ranks -> 0 .. MaxBarriers]
    /\ inside \in [Ranks -> BOOLEAN]
    /\ window \in [Ranks -> [0 .. prog.slots - 1 -> Nat]]
    /\ grads \in [Ranks -> Nat]

\* at counts the barriers of the program a rank has reached.
AtCounts ==
    \A r \in Ranks :
        /\ at[r] = LeftBarriers(r) + (IF inside[r] THEN 1 ELSE 0)
        /\ inside[r] => Running(r, "barrier")

\* Nobody has left a barrier that somebody has not reached.
Together == \A r, s \in Ranks : LeftBarriers(r) <= at[s]

\* A slot with the weights of a step: its home has come to push them.
WindowFilled ==
    \A c \in Ranks, s \in 0 .. prog.slots - 1 :
        LET m == window[c][s]
        IN  m # 0 => /\ m \in 1 .. prog.steps /\ SlotOf(m) = s
                     /\ etc[m][c] \in Ranks
                     /\ \E q \in Pushes(prog) : Reached(etc[m][c], m, q)

\* If the program parts its kernels so, nothing older overwrites what a home
\* has pushed.
WindowKept ==
    WeightsParted(prog) /\ Uses(prog) # {} =>
        \A c \in Ranks, n \in 1 .. prog.steps, q \in Pushes(prog) :
            LET h == etc[n][c]
            IN  /\ h \in Ranks
                /\ \/ Done(h, n, q)
                   \/ step[h] = n /\ pos[h] = q /\ c \in served[h]
                => window[c][SlotOf(n)] >= n

\* The gradient slot is of the last step whose gradient has been written.
GradsWritten ==
    \A c \in Ranks :
        /\ \A n \in 1 .. prog.steps, g \in Grads(prog) : Done(c, n, g) => grads[c] >= n
        /\ grads[c] # 0 => /\ grads[c] \in 1 .. prog.steps
                           /\ \E g \in Grads(prog) : Done(c, grads[c], g)

TrainInv == TrainTypes /\ AtCounts /\ Together /\ WindowFilled /\ WindowKept /\ GradsWritten

-----------------------------------------------------------------------------
\* What the assumptions say of the program that runs and of its plans.
LEMMA ProgramFacts ==
  ASSUME TrainTypes
  PROVE  /\ Len(prog.kernels) \in Nat /\ Len(prog.kernels) >= 1
         /\ prog.kernels \in Seq(Kernels)
         /\ prog.slots \in Nat \ {0} /\ prog.steps \in Nat \ {0}
         /\ \A n \in 1 .. prog.steps : IsPlan(etc[n])
<1>1. prog \in Programs /\ etc \in [1 .. prog.steps -> prog.plans]
  BY DEF TrainTypes
<1> QED
  BY <1>1, ProgramsAssumption, MaxStepsAssumption, MaxLoopAssumption

\* BarriersBefore counts up, by one at each barrier.
LEMMA BarrierCount ==
  ASSUME NEW p, Len(p.kernels) \in Nat
  PROVE  /\ PerStep(p) \in Nat
         /\ \A i \in Int : BarriersBefore(p, i) \in 0 .. PerStep(p)
         /\ \A i, j \in Int : i <= j => BarriersBefore(p, i) <= BarriersBefore(p, j)
         /\ \A i \in Positions(p) : BarriersBefore(p, i + 1)
              = BarriersBefore(p, i) + (IF p.kernels[i] = "barrier" THEN 1 ELSE 0)
         /\ BarriersBefore(p, 1) = 0
         /\ BarriersBefore(p, Len(p.kernels) + 1) = PerStep(p)
<1> DEFINE Bef(i) == {b \in Barriers(p) : b < i}
<1>1. IsFiniteSet(Barriers(p)) /\ Barriers(p) \subseteq Positions(p)
  <2>1. IsFiniteSet(Positions(p))
    BY FS_Interval DEF Positions
  <2> QED
    BY <2>1, FS_Subset DEF Barriers
<1>2. PerStep(p) \in Nat
  BY <1>1, FS_CardinalityType DEF PerStep
<1>3. \A i \in Int : IsFiniteSet(Bef(i)) /\ Cardinality(Bef(i)) \in Nat
                     /\ Cardinality(Bef(i)) <= PerStep(p)
  BY <1>1, FS_Subset, FS_CardinalityType DEF PerStep
<1>4. \A i, j \in Int : i <= j => Cardinality(Bef(i)) <= Cardinality(Bef(j))
  <2> SUFFICES ASSUME NEW i \in Int, NEW j \in Int, i <= j
               PROVE  Cardinality(Bef(i)) <= Cardinality(Bef(j))
    OBVIOUS
  <2>1. Bef(i) \subseteq Bef(j)
    BY <1>1 DEF Positions
  <2> HIDE DEF Bef
  <2> QED
    BY <1>3, <2>1, FS_Subset
<1>5. ASSUME NEW i \in Positions(p)
      PROVE  Cardinality(Bef(i + 1))
               = Cardinality(Bef(i)) + (IF p.kernels[i] = "barrier" THEN 1 ELSE 0)
  <2>1. i \in Int
    BY <1>5 DEF Positions
  <2>2. CASE p.kernels[i] = "barrier"
    <3>1. Bef(i + 1) = Bef(i) \cup {i} /\ i \notin Bef(i)
      BY <1>1, <1>5, <2>1, <2>2 DEF Barriers, Positions
    <3> HIDE DEF Bef
    <3> QED
      BY <1>3, <2>1, <2>2, <3>1, FS_AddElement
  <2>3. CASE p.kernels[i] # "barrier"
    <3>1. Bef(i + 1) = Bef(i)
      BY <1>1, <1>5, <2>1, <2>3 DEF Barriers, Positions
    <3>2. Cardinality(Bef(i)) \in Nat
      BY <1>3, <2>1
    <3> HIDE DEF Bef
    <3> QED
      BY <2>3, <3>1, <3>2
  <2> QED
    BY <2>2, <2>3
<1>6. Bef(1) = {} /\ Bef(Len(p.kernels) + 1) = Barriers(p)
  BY <1>1 DEF Positions
<1>7. Cardinality({}) = 0
  BY FS_EmptySet
<1>8. \A i : BarriersBefore(p, i) = Cardinality(Bef(i))
  BY DEF BarriersBefore
<1>9. \A i \in Int : BarriersBefore(p, i) \in 0 .. PerStep(p)
  <2> SUFFICES ASSUME NEW i \in Int PROVE BarriersBefore(p, i) \in 0 .. PerStep(p)
    OBVIOUS
  <2>1. BarriersBefore(p, i) \in Nat /\ BarriersBefore(p, i) <= PerStep(p)
    BY <1>3, <1>8
  <2> QED
    BY <1>2, <2>1
<1> HIDE DEF Bef
<1> QED
  BY <1>2, <1>4, <1>5, <1>6, <1>7, <1>8, <1>9 DEF PerStep

\* A barrier between two kernels of a step tells their phases apart.
LEMMA BarrierBetween ==
  ASSUME NEW p, Len(p.kernels) \in Nat, NEW b \in Barriers(p), NEW i \in Positions(p)
  PROVE  /\ b < i => BarriersBefore(p, i) >= BarriersBefore(p, b) + 1
                     /\ BarriersBefore(p, i) >= 1
         /\ b > i => BarriersBefore(p, i) < PerStep(p)
         /\ PerStep(p) >= 1
<1>1. b \in Positions(p) /\ p.kernels[b] = "barrier" /\ b \in Int /\ i \in Int
      /\ b <= Len(p.kernels)
  BY DEF Barriers, Positions
<1>2. BarriersBefore(p, b + 1) = BarriersBefore(p, b) + 1
  BY <1>1, BarrierCount
<1>3. /\ BarriersBefore(p, b) \in Nat /\ BarriersBefore(p, i) \in Nat /\ PerStep(p) \in Nat
      /\ BarriersBefore(p, b + 1) <= PerStep(p) /\ BarriersBefore(p, b + 1) \in Nat
  BY <1>1, BarrierCount
<1>4. b < i => BarriersBefore(p, b + 1) <= BarriersBefore(p, i)
  BY <1>1, BarrierCount
<1>5. b > i => BarriersBefore(p, i) <= BarriersBefore(p, b)
  BY <1>1, BarrierCount
<1> QED
  BY <1>2, <1>3, <1>4, <1>5

\* Phases of a program are numbered in the order of its kernels.
LEMMA PhaseFacts ==
  ASSUME NEW p, Len(p.kernels) \in Nat
  PROVE  /\ \A n, i \in Int : Phase(p, n, i) \in Int
         /\ \A n, i, j \in Int : i <= j => Phase(p, n, i) <= Phase(p, n, j)
         /\ \A m, n, i, j \in Int : m < n => Phase(p, m, i) <= Phase(p, n, j)
         /\ \A n \in Int : Phase(p, n + 1, 1) = Phase(p, n, Len(p.kernels) + 1)
<1> DEFINE N == PerStep(p)
           B(i) == BarriersBefore(p, i)
<1>1. N \in Nat /\ \A i \in Int : B(i) \in Nat /\ B(i) <= N
  BY BarrierCount
<1>2. \A i, j \in Int : i <= j => B(i) <= B(j)
  BY BarrierCount
<1>3. B(1) = 0 /\ B(Len(p.kernels) + 1) = N
  BY BarrierCount
<1>4. \A n, i : Phase(p, n, i) = (n - 1) * N + B(i)
  BY DEF Phase
<1> HIDE DEF N, B
<1>5. \A n \in Int : (n - 1) * N \in Int
  BY <1>1
<1>6. \A m, n \in Int : m < n => (m - 1) * N + N <= (n - 1) * N
  <2> SUFFICES ASSUME NEW m \in Int, NEW n \in Int, m < n
               PROVE  (m - 1) * N + N <= (n - 1) * N
    OBVIOUS
  <2>1. (n - 1) * N - ((m - 1) * N + N) = (n - m - 1) * N
    BY <1>1
  <2>2. n - m - 1 \in Nat
    OBVIOUS
  <2>3. (n - m - 1) * N >= 0
    BY <1>1, <2>2
  <2> QED
    BY <1>1, <1>5, <2>1, <2>3
<1>7. \A n \in Int : n * N = (n - 1) * N + N
  BY <1>1
<1>8. \A n, i \in Int : Phase(p, n, i) \in Int
  BY <1>1, <1>4, <1>5
<1>9. \A n, i, j \in Int : i <= j => Phase(p, n, i) <= Phase(p, n, j)
  <2> SUFFICES ASSUME NEW n \in Int, NEW i \in Int, NEW j \in Int, i <= j
               PROVE  Phase(p, n, i) <= Phase(p, n, j)
    OBVIOUS
  <2>1. B(i) \in Int /\ B(j) \in Int /\ B(i) <= B(j)
    <3>1. B(i) \in Nat /\ B(j) \in Nat
      BY <1>1
    <3> QED
      BY <1>2, <3>1
  <2>2. (n - 1) * N \in Int
    BY <1>5
  <2> QED
    BY <1>4, <2>1, <2>2
<1>10. \A m, n, i, j \in Int : m < n => Phase(p, m, i) <= Phase(p, n, j)
  <2> SUFFICES ASSUME NEW m \in Int, NEW n \in Int, NEW i \in Int, NEW j \in Int, m < n
               PROVE  Phase(p, m, i) <= Phase(p, n, j)
    OBVIOUS
  <2>1. /\ B(i) \in Nat /\ B(i) <= N /\ B(j) \in Nat /\ N \in Nat
        /\ (n - 1) * N \in Int /\ (m - 1) * N \in Int
        /\ (m - 1) * N + N <= (n - 1) * N
    BY <1>1, <1>5, <1>6
  <2> DEFINE a == (m - 1) * N
             c == (n - 1) * N
  <2>2. Phase(p, m, i) = a + B(i) /\ Phase(p, n, j) = c + B(j)
    BY <1>4
  <2> HIDE DEF a, c
  <2>3. a \in Int /\ c \in Int /\ a + N <= c
    BY <2>1 DEF a, c
  <2> QED
    BY <2>1, <2>2, <2>3
<1>11. \A n \in Int : Phase(p, n + 1, 1) = Phase(p, n, Len(p.kernels) + 1)
  <2> SUFFICES ASSUME NEW n \in Int
               PROVE  Phase(p, n + 1, 1) = Phase(p, n, Len(p.kernels) + 1)
    OBVIOUS
  <2>1. Phase(p, n + 1, 1) = (n + 1 - 1) * N + 0
        /\ Phase(p, n, Len(p.kernels) + 1) = (n - 1) * N + N
    BY <1>3, <1>4
  <2>2. n + 1 - 1 = n
    OBVIOUS
  <2>3. n * N = (n - 1) * N + N /\ n * N \in Int
    BY <1>1, <1>7
  <2>4. (n + 1 - 1) * N + 0 = n * N
    BY <2>2, <2>3
  <2> QED
    BY <2>1, <2>3, <2>4
<1> QED
  BY <1>8, <1>9, <1>10, <1>11

\* A kernel of a later step in no later a phase: it is of the next step, with
\* no barrier between the two.
LEMMA PhaseGap ==
  ASSUME NEW p, Len(p.kernels) \in Nat, NEW n \in Int, NEW m \in Int, n < m,
         NEW i \in Positions(p), NEW j \in Positions(p),
         Phase(p, n, i) >= Phase(p, m, j), Barriers(p) # {}
  PROVE  m = n + 1 /\ ~ Parted(p, i, j)
<1> DEFINE N == PerStep(p)
           x == BarriersBefore(p, i)
           y == BarriersBefore(p, j)
<1>1. N \in Nat /\ N >= 1 /\ x \in Nat /\ x <= N /\ y \in Nat
  BY BarrierCount, BarrierBetween DEF Positions
<1>2. (n - 1) * N + x >= (m - 1) * N + y
  BY DEF Phase
<1>3. Parted(p, i, j) => x < N \/ y >= 1
  BY <1>1, BarrierBetween DEF Parted
<1> HIDE DEF N, x, y
<1>4. (m - 1) * N = (n - 1) * N + (m - n) * N /\ (m - 1) * N \in Int /\ (n - 1) * N \in Int
      /\ (m - n) * N \in Int
  BY <1>1
<1>5. (m - n) * N + y <= x
  BY <1>1, <1>2, <1>4
<1>6. m = n + 1
  <2> SUFFICES ASSUME m - n >= 2 PROVE FALSE
    OBVIOUS
  <2>1. (m - n) * N = 2 * N + (m - n - 2) * N /\ (m - n - 2) * N >= 0
        /\ (m - n - 2) * N \in Int
    BY <1>1
  <2> QED
    BY <1>1, <1>5, <2>1
<1>7. (m - n) * N = N
  BY <1>1, <1>6
<1> QED
  BY <1>1, <1>3, <1>5, <1>6, <1>7

\* A rank that is short of a kernel has reached no more barriers than there
\* are before it.
LEMMA NotReached ==
  ASSUME TrainTypes, AtCounts, NEW h \in Ranks, NEW n \in 1 .. prog.steps,
         NEW b \in Positions(prog), ~ Reached(h, n, b)
  PROVE  at[h] <= Phase(prog, n, b)
<1> DEFINE m == step[h]
           i == pos[h]
<1>1. /\ Len(prog.kernels) \in Nat /\ prog.steps \in Nat
      /\ m \in Int /\ i \in Positions(prog) /\ i \in Int /\ i <= Len(prog.kernels)
      /\ n \in Int /\ b \in Int
  BY ProgramFacts DEF TrainTypes, Positions
<1>2. m < n \/ (m = n /\ i < b)
  BY <1>1 DEF Reached
<1>3. at[h] = Phase(prog, m, i) + (IF inside[h] THEN 1 ELSE 0)
      /\ (inside[h] => prog.kernels[i] = "barrier")
  BY DEF AtCounts, LeftBarriers, Running, Kernel
<1> HIDE DEF m, i
<1>4. Phase(prog, m, i + 1)
        = Phase(prog, m, i) + (IF prog.kernels[i] = "barrier" THEN 1 ELSE 0)
  <2>1. BarriersBefore(prog, i + 1)
          = BarriersBefore(prog, i) + (IF prog.kernels[i] = "barrier" THEN 1 ELSE 0)
    BY <1>1, BarrierCount
  <2>2. BarriersBefore(prog, i) \in Int /\ PerStep(prog) \in Int
        /\ (m - 1) * PerStep(prog) \in Int
    BY <1>1, BarrierCount
  <2> QED
    BY <2>1, <2>2 DEF Phase
<1>5. Phase(prog, m, i) \in Int /\ Phase(prog, m, i + 1) \in Int
      /\ Phase(prog, n, b) \in Int
  <2>1. i + 1 \in Int
    BY <1>1
  <2> QED
    BY <1>1, <2>1, PhaseFacts
<1>6. at[h] <= Phase(prog, m, i + 1)
  BY <1>3, <1>4, <1>5
<1>7. Phase(prog, m, i + 1) <= Phase(prog, n, b)
  BY <1>1, <1>2, PhaseFacts
<1>8. at[h] \in Int
  BY DEF TrainTypes, MaxBarriers
<1> QED
  BY <1>5, <1>6, <1>7, <1>8

\* What a rank has reached or finished is behind it in phases too.
LEMMA ReachedPhase ==
  ASSUME TrainTypes, NEW h \in Ranks, NEW n \in 1 .. prog.steps,
         NEW q \in Positions(prog), Reached(h, n, q)
  PROVE  Phase(prog, n, q) <= LeftBarriers(h)
<1>1. /\ Len(prog.kernels) \in Nat /\ prog.steps \in Nat
      /\ step[h] \in Int /\ pos[h] \in Int /\ n \in Int /\ q \in Int
  BY ProgramFacts DEF TrainTypes, Positions
<1> QED
  BY <1>1, PhaseFacts DEF Reached, LeftBarriers

\* With two slots or more, two steps in a row use different ones.
LEMMA NextSlotDiffers ==
  ASSUME NEW n \in Nat, NEW s \in Nat \ {0}, (n + 1) % s = n % s
  PROVE  s = 1
<1> SUFFICES ASSUME s >= 2 PROVE FALSE
  OBVIOUS
<1> DEFINE a == n \div s
           b == (n + 1) \div s
           m == n % s
<1>1. a \in Int /\ b \in Int /\ m \in Int /\ n = s * a + m /\ n + 1 = s * b + m
  OBVIOUS
<1> HIDE DEF a, b, m
<1>2. s * b = s * a + 1
  <2>1. s * b \in Int /\ s * a \in Int
    BY <1>1
  <2> QED
    BY <1>1, <2>1
<1>3. s * (b - a) = 1
  <2>1. s * (b - a) = s * b - s * a /\ s * b \in Int /\ s * a \in Int
    BY <1>1
  <2> QED
    BY <1>2, <2>1
<1>4. CASE b - a <= 0
  <2>1. s * (b - a) <= 0
    BY <1>1, <1>4
  <2> QED
    BY <1>3, <2>1
<1>5. CASE b - a >= 1
  <2>1. s * (b - a) >= s
    BY <1>1, <1>5
  <2> QED
    BY <1>3, <2>1
<1> QED
  BY <1>1, <1>4, <1>5

\* The place of a rank and the barriers behind it are numbers.
LEMMA PlaceTypes ==
  ASSUME TrainTypes, NEW h \in Ranks
  PROVE  /\ step[h] \in Int /\ pos[h] \in Positions(prog) /\ pos[h] \in Int
         /\ Len(prog.kernels) \in Nat /\ LeftBarriers(h) \in Int
<1>1. step[h] \in Int /\ pos[h] \in Positions(prog) /\ pos[h] \in Int
  BY DEF TrainTypes, Positions
<1>2. Len(prog.kernels) \in Nat
  BY ProgramFacts
<1> QED
  BY <1>1, <1>2, PhaseFacts DEF LeftBarriers

-----------------------------------------------------------------------------
\* What Advance does to the place of a rank.
LEMMA AdvanceFacts ==
  ASSUME TrainTypes, NEW r \in Ranks, step[r] <= prog.steps, Advance(r), prog' = prog
  PROVE  /\ step' \in [Ranks -> 1 .. prog.steps + 1]
         /\ pos' \in [Ranks -> 1 .. Len(prog.kernels)]
         /\ \A s \in Ranks : step'[s] = prog.steps + 1 => pos'[s] = 1
         /\ served' \in [Ranks -> SUBSET Ranks]
         /\ served'[r] = {}
         /\ \A s \in Ranks : s # r => /\ step'[s] = step[s] /\ pos'[s] = pos[s]
                                      /\ served'[s] = served[s]
         /\ \A h \in Ranks, n \in 1 .. prog.steps, i \in Positions(prog) :
              /\ Done(h, n, i)' <=> \/ Done(h, n, i)
                                    \/ h = r /\ n = step[r] /\ i = pos[r]
              /\ Reached(h, n, i) => Reached(h, n, i)'
         /\ LeftBarriers(r)' = LeftBarriers(r) + (IF Kernel(r) = "barrier" THEN 1 ELSE 0)
<1> DEFINE K == Len(prog.kernels)
<1>1. /\ K \in Nat /\ K >= 1 /\ prog.steps \in Nat
      /\ step \in [Ranks -> 1 .. prog.steps + 1] /\ pos \in [Ranks -> 1 .. K]
      /\ served \in [Ranks -> SUBSET Ranks]
      /\ \A s \in Ranks : step[s] = prog.steps + 1 => pos[s] = 1
  BY ProgramFacts DEF TrainTypes
<1>2. step[r] \in 1 .. prog.steps /\ pos[r] \in 1 .. K
  BY <1>1
<1>3. served' = [served EXCEPT ![r] = {}]
  BY DEF Advance
<1>4. \/ /\ pos[r] < K /\ pos' = [pos EXCEPT ![r] = pos[r] + 1] /\ step' = step
      \/ /\ pos[r] = K /\ pos' = [pos EXCEPT ![r] = 1]
         /\ step' = [step EXCEPT ![r] = step[r] + 1]
  BY <1>1, <1>2 DEF Advance
<1> HIDE DEF K
<1>5. \/ /\ pos[r] < K /\ pos'[r] = pos[r] + 1 /\ step'[r] = step[r]
      \/ /\ pos[r] = K /\ pos'[r] = 1 /\ step'[r] = step[r] + 1
  BY <1>1, <1>4
<1>6. \A s \in Ranks : s # r => step'[s] = step[s] /\ pos'[s] = pos[s]
  BY <1>1, <1>4
<1>7. step' \in [Ranks -> 1 .. prog.steps + 1] /\ pos' \in [Ranks -> 1 .. K]
  BY <1>1, <1>2, <1>4
<1>8. \A s \in Ranks : step'[s] = prog.steps + 1 => pos'[s] = 1
  BY <1>1, <1>2, <1>5, <1>6
<1>9. /\ served' \in [Ranks -> SUBSET Ranks] /\ served'[r] = {}
      /\ \A s \in Ranks : s # r => served'[s] = served[s]
  BY <1>1, <1>3
<1>10. ASSUME NEW h \in Ranks, NEW n \in 1 .. prog.steps, NEW i \in Positions(prog)
       PROVE  /\ Done(h, n, i)' <=> Done(h, n, i) \/ (h = r /\ n = step[r] /\ i = pos[r])
              /\ Reached(h, n, i) => Reached(h, n, i)'
  <2>1. i \in 1 .. K
    BY DEF Positions, K
  <2>2. CASE h # r
    BY <1>6, <2>2 DEF Done, Reached
  <2>3. CASE h = r
    <3>1. Done(r, n, i)' <=> step'[r] > n \/ (step'[r] = n /\ pos'[r] > i)
      BY DEF Done
    <3>2. Reached(r, n, i)' <=> step'[r] > n \/ (step'[r] = n /\ pos'[r] >= i)
      BY DEF Reached
    <3>3. Done(r, n, i)' <=> Done(r, n, i) \/ (n = step[r] /\ i = pos[r])
      BY <1>1, <1>2, <1>5, <2>1, <3>1 DEF Done
    <3>4. Reached(r, n, i) => Reached(r, n, i)'
      BY <1>1, <1>2, <1>5, <2>1, <3>2 DEF Reached
    <3> QED
      BY <2>3, <3>3, <3>4
  <2> QED
    BY <2>2, <2>3
<1>11. LeftBarriers(r)' = LeftBarriers(r) + (IF Kernel(r) = "barrier" THEN 1 ELSE 0)
  <2> DEFINE i == pos[r]
             n == step[r]
  <2>1. LeftBarriers(r)' = Phase(prog, n, i + 1)
    <3>1. LeftBarriers(r)' = Phase(prog, step'[r], pos'[r])
      BY DEF LeftBarriers
    <3>2. i = K => Phase(prog, n + 1, 1) = Phase(prog, n, i + 1)
      BY <1>1, <1>2, PhaseFacts DEF K
    <3> QED
      BY <1>5, <3>1, <3>2
  <2>2. BarriersBefore(prog, i + 1)
          = BarriersBefore(prog, i) + (IF prog.kernels[i] = "barrier" THEN 1 ELSE 0)
    BY <1>1, <1>2, BarrierCount DEF K, Positions
  <2>3. BarriersBefore(prog, i) \in Int /\ PerStep(prog) \in Int
        /\ (n - 1) * PerStep(prog) \in Int
    BY <1>1, <1>2, BarrierCount DEF K
  <2>4. LeftBarriers(r) = Phase(prog, n, i) /\ Kernel(r) = prog.kernels[i]
    BY DEF LeftBarriers, Kernel
  <2> HIDE DEF i, n
  <2>5. Phase(prog, n, i + 1)
          = Phase(prog, n, i) + (IF prog.kernels[i] = "barrier" THEN 1 ELSE 0)
    BY <2>2, <2>3 DEF Phase
  <2> QED
    BY <2>1, <2>4, <2>5
<1> QED
  BY <1>6, <1>7, <1>8, <1>9, <1>10, <1>11 DEF K

\* A rank goes on with the next kernel and changes no slot: a push or pull is
\* through with its consumers, and nothing that is Done is new but the kernel.
LEMMA AdvanceKeeps ==
  ASSUME TrainInv, NEW r \in Ranks, step[r] <= prog.steps, Advance(r),
         UNCHANGED <<prog, etc, at, window>>,
         inside' \in [Ranks -> BOOLEAN], ~ inside'[r],
         \A s \in Ranks : s # r => inside'[s] = inside[s],
         at[r] = LeftBarriers(r) + (IF Kernel(r) = "barrier" THEN 1 ELSE 0),
         Kernel(r) = "barrier" => \A s \in Ranks : at[r] <= at[s],
         Kernel(r) = "push" => served[r] = Consumers(step[r], r),
         grads' \in [Ranks -> Nat],
         Kernel(r) # "grad" => grads' = grads,
         Kernel(r) = "grad" => grads' = [grads EXCEPT ![r] = step[r]]
  PROVE  TrainInv'
<1>1. /\ TrainTypes /\ AtCounts /\ Together /\ WindowFilled /\ WindowKept /\ GradsWritten
      /\ prog' = prog /\ etc' = etc /\ at' = at /\ window' = window
  BY DEF TrainInv
<1>2. /\ step' \in [Ranks -> 1 .. prog.steps + 1]
      /\ pos' \in [Ranks -> 1 .. Len(prog.kernels)]
      /\ \A s \in Ranks : step'[s] = prog.steps + 1 => pos'[s] = 1
      /\ served' \in [Ranks -> SUBSET Ranks]
      /\ served'[r] = {}
      /\ \A s \in Ranks : s # r => /\ step'[s] = step[s] /\ pos'[s] = pos[s]
                                   /\ served'[s] = served[s]
  BY <1>1, AdvanceFacts
<1>3. \A h \in Ranks, n \in 1 .. prog.steps, i \in Positions(prog) :
              /\ Done(h, n, i)' <=> \/ Done(h, n, i)
                                    \/ h = r /\ n = step[r] /\ i = pos[r]
              /\ Reached(h, n, i) => Reached(h, n, i)'
  BY <1>1, AdvanceFacts
<1>4. LeftBarriers(r)' = at[r]
  BY <1>1, AdvanceFacts
<1>5. \A s \in Ranks : s # r => LeftBarriers(s)' = LeftBarriers(s)
  BY <1>1, <1>2 DEF LeftBarriers
<1>6. TrainTypes'
  BY <1>1, <1>2 DEF TrainTypes
<1>7. AtCounts'
  <2> SUFFICES ASSUME NEW s \in Ranks
               PROVE  /\ at'[s] = LeftBarriers(s)' + (IF inside'[s] THEN 1 ELSE 0)
                      /\ inside'[s] => Running(s, "barrier")'
    BY DEF AtCounts
  <2>1. CASE s = r
    <3>1. at[r] \in Int
      BY <1>1 DEF TrainTypes
    <3> QED
      BY <1>1, <1>4, <2>1, <3>1
  <2>2. CASE s # r
    <3>1. /\ at[s] = LeftBarriers(s) + (IF inside[s] THEN 1 ELSE 0)
          /\ inside[s] => step[s] <= prog.steps /\ prog.kernels[pos[s]] = "barrier"
      BY <1>1 DEF AtCounts, Running, Kernel
    <3>2. inside'[s] = inside[s]
      BY <2>2
    <3>3. inside'[s] => Running(s, "barrier")'
      BY <1>1, <1>2, <2>2, <3>1, <3>2 DEF Running, Kernel
    <3> QED
      BY <1>1, <1>5, <2>2, <3>1, <3>2, <3>3
  <2> QED
    BY <2>1, <2>2
<1>8. Together'
  <2> SUFFICES ASSUME NEW s \in Ranks, NEW t \in Ranks PROVE LeftBarriers(s)' <= at[t]
    BY <1>1 DEF Together
  <2>1. CASE s = r /\ Kernel(r) = "barrier"
    BY <1>4, <2>1
  <2>2. CASE s = r /\ Kernel(r) # "barrier"
    <3>1. LeftBarriers(r) \in Int
      BY <1>1, PlaceTypes
    <3>2. at[r] = LeftBarriers(r)
      BY <2>2, <3>1
    <3> QED
      BY <1>1, <1>4, <2>2, <3>2 DEF Together
  <2>3. CASE s # r
    BY <1>1, <1>5, <2>3 DEF Together
  <2> QED
    BY <2>1, <2>2, <2>3
<1>9. WindowFilled'
  <2> SUFFICES ASSUME NEW c \in Ranks, NEW s \in 0 .. prog.slots - 1, window[c][s] # 0
               PROVE  LET m == window[c][s]
                      IN  /\ m \in 1 .. prog.steps /\ SlotOf(m)' = s
                          /\ etc[m][c] \in Ranks
                          /\ \E q \in Pushes(prog) : Reached(etc[m][c], m, q)'
    BY <1>1 DEF WindowFilled
  <2> DEFINE m == window[c][s]
  <2>1. m \in 1 .. prog.steps /\ SlotOf(m) = s /\ etc[m][c] \in Ranks
    BY <1>1 DEF WindowFilled
  <2>2. PICK q \in Pushes(prog) : Reached(etc[m][c], m, q)
    BY <1>1 DEF WindowFilled
  <2>3. q \in Positions(prog)
    BY DEF Pushes
  <2>4. Reached(etc[m][c], m, q)'
    <3> HIDE DEF m
    <3>1. \A h \in Ranks, n \in 1 .. prog.steps :
            Reached(h, n, q) => step'[h] > n \/ (step'[h] = n /\ pos'[h] >= q)
      BY <1>3, <2>3 DEF Reached
    <3>2. step'[etc[m][c]] > m \/ (step'[etc[m][c]] = m /\ pos'[etc[m][c]] >= q)
      BY <2>1, <2>2, <3>1
    <3> QED
      BY <1>1, <3>2 DEF Reached, m
  <2>5. SlotOf(m)' = SlotOf(m)
    BY <1>1 DEF SlotOf
  <2> QED
    BY <1>1, <2>1, <2>4, <2>5
<1>10. WindowKept'
  <2> SUFFICES ASSUME WeightsParted(prog), Uses(prog) # {}, NEW c \in Ranks, NEW n \in 1 .. prog.steps,
                      NEW q \in Pushes(prog), etc[n][c] \in Ranks,
                      \/ Done(etc[n][c], n, q)'
                      \/ step'[etc[n][c]] = n /\ pos'[etc[n][c]] = q
                         /\ c \in served'[etc[n][c]]
               PROVE  window[c][SlotOf(n)] >= n
    BY <1>1 DEF WindowKept, SlotOf, Done
  <2> DEFINE h == etc[n][c]
  <2>1. q \in Positions(prog) /\ prog.kernels[q] = "push"
    BY DEF Pushes
  <2>2. Done(h, n, q)' <=> step'[h] > n \/ (step'[h] = n /\ pos'[h] > q)
    BY <1>1 DEF Done
  <2> HIDE DEF h
  <2>3. h \in Ranks
    BY DEF h
  <2>4. \/ Done(h, n, q) \/ (h = r /\ n = step[r] /\ q = pos[r])
        \/ h # r /\ step[h] = n /\ pos[h] = q /\ c \in served[h]
    <3>1. CASE Done(h, n, q)'
      <4>1. \A g \in Ranks : step'[g] > n \/ (step'[g] = n /\ pos'[g] > q)
              => Done(g, n, q) \/ (g = r /\ n = step[r] /\ q = pos[r])
        BY <1>3, <2>1 DEF Done
      <4> QED
        BY <2>2, <2>3, <3>1, <4>1
    <3>2. CASE step'[h] = n /\ pos'[h] = q /\ c \in served'[h]
      BY <1>2, <2>3, <3>2
    <3> QED
      BY <3>1, <3>2 DEF h
  <2>5. Done(h, n, q) \/ (step[h] = n /\ pos[h] = q /\ c \in served[h])
    <3>1. CASE h = r /\ n = step[r] /\ q = pos[r]
      <4>1. Kernel(r) = "push"
        BY <2>1, <3>1 DEF Kernel
      <4>2. c \in Consumers(step[r], r)
        BY <3>1 DEF Consumers, h
      <4> QED
        BY <3>1, <4>1, <4>2
    <3> QED
      BY <2>4, <3>1
  <2> QED
    BY <1>1, <2>3, <2>5 DEF WindowKept, h
<1>11. GradsWritten'
  <2>a. \A n \in 1 .. prog.steps, g \in Grads(prog), c \in Ranks :
          Done(c, n, g)' <=> step'[c] > n \/ (step'[c] = n /\ pos'[c] > g)
    BY DEF Done
  <2>b. \A g \in Grads(prog) : g \in Positions(prog) /\ prog.kernels[g] = "grad"
    BY DEF Grads
  <2>c. grads \in [Ranks -> Nat] /\ step[r] \in 1 .. prog.steps /\ pos[r] \in Positions(prog)
    <3>1. step[r] \in 1 .. prog.steps + 1 /\ prog.steps \in Nat
      BY <1>1, ProgramFacts DEF TrainTypes
    <3> QED
      BY <1>1, <3>1 DEF TrainTypes, Positions
  <2>d. \A s \in Ranks : s # r \/ Kernel(r) # "grad" => grads'[s] = grads[s]
    BY <2>c
  <2>e. Kernel(r) = "grad" => grads'[r] = step[r]
    BY <2>c
  <2>1. ASSUME NEW c \in Ranks, NEW n \in 1 .. prog.steps, NEW g \in Grads(prog),
               Done(c, n, g)'
        PROVE  grads'[c] >= n
    <3>1. Done(c, n, g) \/ (c = r /\ n = step[r] /\ g = pos[r])
      BY <1>3, <2>1, <2>b
    <3>2. CASE Kernel(r) = "grad" /\ c = r
      <4>1. step[r] >= n
        BY <1>1, <2>c, <3>1, <3>2 DEF Done
      <4> QED
        BY <2>e, <3>2, <4>1
    <3>3. CASE ~ (Kernel(r) = "grad" /\ c = r)
      <4>1. Done(c, n, g)
        BY <2>b, <3>1, <3>3 DEF Kernel
      <4> QED
        BY <1>1, <2>d, <3>3, <4>1 DEF GradsWritten
    <3> QED
      BY <3>2, <3>3
  <2>2. ASSUME NEW c \in Ranks, grads'[c] # 0
        PROVE  /\ grads'[c] \in 1 .. prog.steps
               /\ \E g \in Grads(prog) : Done(c, grads[c], g)'
    <3>1. CASE Kernel(r) = "grad" /\ c = r
      <4>1. grads'[c] = step[r]
        BY <2>e, <3>1
      <4>2. pos[r] \in Grads(prog)
        BY <2>c, <3>1 DEF Grads, Kernel
      <4>4. step'[r] > step[r] \/ (step'[r] = step[r] /\ pos'[r] > pos[r])
        <5>1. \A n \in 1 .. prog.steps, i \in Positions(prog) :
                n = step[r] /\ i = pos[r] => step'[r] > n \/ (step'[r] = n /\ pos'[r] > i)
          BY <1>3 DEF Done
        <5> QED
          BY <2>c, <5>1
      <4>5. \E g \in Grads(prog) : step'[c] > step[r] \/ (step'[c] = step[r] /\ pos'[c] > g)
        BY <3>1, <4>2, <4>4
      <4>6. \E g \in Grads(prog) : step'[c] > grads'[c] \/ (step'[c] = grads'[c] /\ pos'[c] > g)
        BY <4>1, <4>5
      <4> QED
        BY <2>c, <4>1, <4>6 DEF Done
    <3>2. CASE ~ (Kernel(r) = "grad" /\ c = r)
      <4>1. grads'[c] = grads[c]
        BY <2>d, <3>2
      <4>2. grads[c] \in 1 .. prog.steps
        BY <1>1, <2>2, <4>1 DEF GradsWritten
      <4>3. PICK g \in Grads(prog) : Done(c, grads[c], g)
        BY <1>1, <2>2, <4>1 DEF GradsWritten
      <4>4. \A n \in 1 .. prog.steps : Done(c, n, g)
              => step'[c] > n \/ (step'[c] = n /\ pos'[c] > g)
        BY <1>3, <2>b DEF Done
      <4>5. step'[c] > grads[c] \/ (step'[c] = grads[c] /\ pos'[c] > g)
        BY <4>2, <4>3, <4>4
      <4>6. step'[c] > grads'[c] \/ (step'[c] = grads'[c] /\ pos'[c] > g)
        BY <4>1, <4>5
      <4>7. Done(c, grads[c], g)'
        BY <4>6 DEF Done
      <4> QED
        BY <4>1, <4>2, <4>7
    <3> QED
      BY <3>1, <3>2
  <2>3. prog' = prog
    BY <1>1
  <2> QED
    BY <2>1, <2>2, <2>3 DEF GradsWritten
<1> QED
  BY <1>6, <1>7, <1>8, <1>9, <1>10, <1>11 DEF TrainInv

\* A home puts the rows of one consumer into its slot.  What the slot is to
\* keep is not newer: the home that has pushed it would be a phase ahead.
LEMMA PushRowsKeeps == ASSUME TrainInv, NEW r \in Ranks, PushRows(r) PROVE TrainInv'
<1>1. /\ TrainTypes /\ AtCounts /\ Together /\ WindowFilled /\ WindowKept /\ GradsWritten
  BY DEF TrainInv
<1>2. /\ step[r] <= prog.steps /\ prog.kernels[pos[r]] = "push"
      /\ prog' = prog /\ etc' = etc /\ step' = step /\ pos' = pos /\ at' = at
      /\ inside' = inside /\ grads' = grads
  BY DEF PushRows, Running, Kernel
<1>3. PICK d \in Consumers(step[r], r) \ served[r] :
        /\ window' = [window EXCEPT ![d][SlotOf(step[r])] = step[r]]
        /\ served' = [served EXCEPT ![r] = @ \cup {d}]
  BY DEF PushRows
<1>4. /\ step[r] \in 1 .. prog.steps /\ pos[r] \in Pushes(prog) /\ d \in Ranks
      /\ etc[step[r]][d] = r
  <2>1. prog.steps \in Nat
    BY <1>1, ProgramFacts
  <2> QED
    BY <1>1, <1>2, <1>3, <2>1 DEF TrainTypes, Pushes, Positions, Consumers
<1>5. SlotOf(step[r]) \in 0 .. prog.slots - 1 /\ step[r] \in Nat /\ step[r] # 0
  <2>1. prog.slots \in Nat \ {0} /\ prog.steps \in Nat
    BY <1>1, ProgramFacts
  <2> QED
    BY <1>4, <2>1 DEF SlotOf
<1> DEFINE n == step[r]
           sl == SlotOf(n)
<1>6. /\ window' \in [Ranks -> [0 .. prog.slots - 1 -> Nat]]
      /\ window'[d][sl] = n
      /\ \A c \in Ranks, s \in 0 .. prog.slots - 1 :
            c # d \/ s # sl => window'[c][s] = window[c][s]
  <2>1. window \in [Ranks -> [0 .. prog.slots - 1 -> Nat]]
    BY <1>1 DEF TrainTypes
  <2>2. window' = [window EXCEPT ![d][sl] = n]
    BY <1>3
  <2>3. n \in Nat /\ sl \in 0 .. prog.slots - 1
    BY <1>5
  <2> HIDE DEF n, sl
  <2> QED
    BY <1>4, <2>1, <2>2, <2>3
<1>7. /\ served' \in [Ranks -> SUBSET Ranks]
      /\ served'[r] = served[r] \cup {d}
      /\ \A s \in Ranks : s # r => served'[s] = served[s]
  <2>1. served \in [Ranks -> SUBSET Ranks]
    BY <1>1 DEF TrainTypes
  <2> QED
    BY <1>3, <1>4, <2>1
<1>8. TrainTypes'
  BY <1>1, <1>2, <1>6, <1>7 DEF TrainTypes
<1>9. AtCounts' /\ Together' /\ GradsWritten'
  <2>1. AtCounts'
    BY <1>1, <1>2 DEF AtCounts, LeftBarriers, Running, Kernel
  <2>2. Together'
    BY <1>1, <1>2 DEF Together, LeftBarriers
  <2>3. GradsWritten'
    BY <1>1, <1>2 DEF GradsWritten, Done
  <2> QED
    BY <2>1, <2>2, <2>3
<1>10. WindowFilled'
  <2> SUFFICES ASSUME NEW c \in Ranks, NEW s \in 0 .. prog.slots - 1, window'[c][s] # 0
               PROVE  LET m == window'[c][s]
                      IN  /\ m \in 1 .. prog.steps /\ SlotOf(m) = s
                          /\ etc[m][c] \in Ranks
                          /\ \E q \in Pushes(prog) : Reached(etc[m][c], m, q)
    BY <1>2 DEF WindowFilled, SlotOf, Reached
  <2>1. CASE c = d /\ s = sl
    <3>1. Reached(r, n, pos[r])
      <4>1. pos[r] \in Int
        BY <1>4 DEF Pushes, Positions
      <4> QED
        BY <1>5, <4>1 DEF Reached
    <3> QED
      BY <1>4, <1>6, <2>1, <3>1
  <2>2. CASE c # d \/ s # sl
    BY <1>1, <1>6, <2>2 DEF WindowFilled
  <2> QED
    BY <2>1, <2>2
<1>11. WindowKept'
  <2> SUFFICES ASSUME WeightsParted(prog), Uses(prog) # {}, NEW c \in Ranks,
                      NEW m \in 1 .. prog.steps, NEW q \in Pushes(prog),
                      etc[m][c] \in Ranks,
                      \/ Done(etc[m][c], m, q)
                      \/ step[etc[m][c]] = m /\ pos[etc[m][c]] = q
                         /\ c \in served'[etc[m][c]]
               PROVE  window'[c][SlotOf(m)] >= m
    BY <1>2 DEF WindowKept, SlotOf, Done
  <2> DEFINE h == etc[m][c]
  <2>0. prog.slots \in Nat \ {0} /\ m \in Int
    BY <1>1, ProgramFacts
  <2>1. SlotOf(m) \in 0 .. prog.slots - 1
    BY <2>0 DEF SlotOf
  <2>h. h \in Ranks /\ step[h] \in Int /\ pos[h] \in Int /\ Len(prog.kernels) \in Nat
    <3>1. h \in Ranks
      OBVIOUS
    <3> HIDE DEF h
    <3> QED
      BY <1>1, <3>1, PlaceTypes
  <2>2. CASE c = d /\ SlotOf(m) = sl
    <3> SUFFICES ASSUME m > n PROVE FALSE
      BY <1>5, <1>6, <2>0, <2>2
    <3>1. q \in Positions(prog) /\ pos[r] \in Positions(prog) /\ n \in 1 .. prog.steps
          /\ q \in Int /\ pos[r] \in Int
      BY <1>4 DEF Pushes, Positions
    <3>2. Reached(h, m, q)
      BY <3>1, <2>h DEF Done, Reached
    <3>3. Phase(prog, m, q) <= LeftBarriers(h)
      BY <1>1, <3>1, <3>2, ReachedPhase
    <3>4. LeftBarriers(h) <= at[r] /\ at[r] = LeftBarriers(r)
      <4>1. ~ inside[r]
        BY <1>1, <1>2 DEF AtCounts, Running, Kernel
      <4>2. LeftBarriers(r) \in Int
        BY <1>1, PlaceTypes
      <4> QED
        BY <1>1, <4>1, <4>2 DEF Together, AtCounts
    <3>5. Phase(prog, n, pos[r]) >= Phase(prog, m, q)
      <4>1. Phase(prog, n, pos[r]) \in Int /\ Phase(prog, m, q) \in Int
            /\ LeftBarriers(h) \in Int
        <5>1. LeftBarriers(h) \in Int
          <6> HIDE DEF h
          <6> QED
            BY <1>1, <2>h, PlaceTypes
        <5>2. n \in Int
          BY <1>5
        <5> HIDE DEF h, n
        <5> QED
          BY <2>0, <2>h, <3>1, <5>1, <5>2, PhaseFacts
      <4> QED
        BY <3>3, <3>4, <4>1 DEF LeftBarriers
    <3>6. Barriers(prog) # {}
      BY DEF WeightsParted
    <3>7. m = n + 1 /\ ~ Parted(prog, pos[r], q)
      <4>1. n \in Int /\ Len(prog.kernels) \in Nat
        BY <1>1, <1>5, ProgramFacts
      <4> HIDE DEF n
      <4> QED
        BY <2>0, <3>1, <3>5, <3>6, <4>1, PhaseGap
    <3>8. prog.slots = 1
      <4>1. (n + 1) % prog.slots = n % prog.slots
        BY <2>2, <3>7 DEF SlotOf
      <4> HIDE DEF n
      <4>2. n \in Nat
        BY <1>5 DEF n
      <4> QED
        BY <2>0, <4>1, <4>2, NextSlotDiffers
    <3>9. Parted(prog, pos[r], q)
      BY <1>4, <3>8 DEF WeightsParted
    <3> QED
      BY <3>7, <3>9
  <2>3. CASE ~ (c = d /\ SlotOf(m) = sl)
    <3>1. window'[c][SlotOf(m)] = window[c][SlotOf(m)]
      BY <1>6, <2>1, <2>3
    <3>2. \/ Done(h, m, q)
          \/ step[h] = m /\ pos[h] = q /\ c \in served[h]
      <4>1. CASE h = r /\ step[h] = m
        BY <1>7, <2>3, <4>1
      <4>2. CASE h # r \/ step[h] # m
        BY <1>7, <4>2
      <4> QED
        BY <4>1, <4>2
    <3> QED
      BY <1>1, <3>1, <3>2 DEF WindowKept
  <2> QED
    BY <2>2, <2>3
<1> QED
  BY <1>8, <1>9, <1>10, <1>11 DEF TrainInv

\* A pull reads slots and changes none.
LEMMA PullRowsKeeps == ASSUME TrainInv, NEW r \in Ranks, PullRows(r) PROVE TrainInv'
<1>1. /\ TrainTypes /\ AtCounts /\ Together /\ WindowFilled /\ WindowKept /\ GradsWritten
  BY DEF TrainInv
<1>2. /\ prog.kernels[pos[r]] = "pull"
      /\ prog' = prog /\ etc' = etc /\ step' = step /\ pos' = pos /\ at' = at
      /\ inside' = inside /\ grads' = grads /\ window' = window
      /\ \E d \in Ranks : served' = [served EXCEPT ![r] = @ \cup {d}]
  BY DEF PullRows, Running, Kernel, Consumers
<1>3. /\ served' \in [Ranks -> SUBSET Ranks]
      /\ \A s \in Ranks : s # r => served'[s] = served[s]
  <2>1. served \in [Ranks -> SUBSET Ranks]
    BY <1>1 DEF TrainTypes
  <2> QED
    BY <1>2, <2>1
<1>4. TrainTypes'
  BY <1>1, <1>2, <1>3 DEF TrainTypes
<1>5. AtCounts'
  BY <1>1, <1>2 DEF AtCounts, LeftBarriers, Running, Kernel
<1>6. Together'
  BY <1>1, <1>2 DEF Together, LeftBarriers
<1>7. GradsWritten'
  BY <1>1, <1>2 DEF GradsWritten, Done
<1>8. WindowFilled'
  BY <1>1, <1>2 DEF WindowFilled, Reached, SlotOf
<1>9. WindowKept'
  <2> SUFFICES ASSUME WeightsParted(prog), Uses(prog) # {}, NEW c \in Ranks,
                      NEW m \in 1 .. prog.steps, NEW q \in Pushes(prog),
                      etc[m][c] \in Ranks,
                      \/ Done(etc[m][c], m, q)
                      \/ step[etc[m][c]] = m /\ pos[etc[m][c]] = q
                         /\ c \in served'[etc[m][c]]
               PROVE  window[c][SlotOf(m)] >= m
    BY <1>2 DEF WindowKept, SlotOf, Done
  <2>1. prog.kernels[q] = "push"
    BY DEF Pushes
  <2>2. \/ Done(etc[m][c], m, q)
        \/ step[etc[m][c]] = m /\ pos[etc[m][c]] = q /\ c \in served[etc[m][c]]
    BY <1>2, <1>3, <2>1
  <2> QED
    BY <1>1, <2>2 DEF WindowKept
<1> QED
  BY <1>4, <1>5, <1>6, <1>7, <1>8, <1>9 DEF TrainInv

\* A rank reaches the next barrier: the one after those it has left.
LEMMA ReachBarrierKeeps == ASSUME TrainInv, NEW r \in Ranks, ReachBarrier(r) PROVE TrainInv'
<1>1. /\ TrainTypes /\ AtCounts /\ Together /\ WindowFilled /\ WindowKept /\ GradsWritten
  BY DEF TrainInv
<1>2. /\ Running(r, "barrier") /\ ~ inside[r]
      /\ prog' = prog /\ etc' = etc /\ step' = step /\ pos' = pos
      /\ served' = served /\ grads' = grads /\ window' = window
      /\ inside' = [inside EXCEPT ![r] = TRUE]
  BY DEF ReachBarrier, Barrier!Arrive
<1>3. at \in [Ranks -> 0 .. MaxBarriers] /\ inside \in [Ranks -> BOOLEAN] /\ MaxBarriers \in Nat
  BY <1>1, MaxStepsAssumption, MaxLoopAssumption DEF TrainTypes, MaxBarriers
<1>4. at' = [at EXCEPT ![r] = at[r] + 1] /\ at[r] + 1 \in 1 .. MaxBarriers
  <2>1. PICK k \in 1 .. MaxBarriers : Barrier!IsNextBarrier(r, at[r], k) /\ at' = [at EXCEPT ![r] = k]
    BY DEF ReachBarrier, Barrier!Arrive
  <2>2. at[r] < k /\ \A j \in at[r] + 1 .. k - 1 : r \notin Ranks
    BY <1>3, <2>1 DEF Barrier!IsNextBarrier
  <2>3. at[r] + 1 \in 1 .. MaxBarriers
    BY <1>3, <2>2
  <2>4. k = at[r] + 1
    BY <1>3, <2>2
  <2> QED
    BY <2>1, <2>3, <2>4
<1>5. /\ at'[r] = at[r] + 1 /\ inside'[r]
      /\ \A s \in Ranks : s # r => at'[s] = at[s] /\ inside'[s] = inside[s]
      /\ at' \in [Ranks -> 0 .. MaxBarriers] /\ inside' \in [Ranks -> BOOLEAN]
  BY <1>2, <1>3, <1>4
<1>6. TrainTypes'
  BY <1>1, <1>2, <1>5 DEF TrainTypes
<1>7. AtCounts'
  <2> SUFFICES ASSUME NEW s \in Ranks
               PROVE  /\ at'[s] = LeftBarriers(s) + (IF inside'[s] THEN 1 ELSE 0)
                      /\ inside'[s] => Running(s, "barrier")
    BY <1>2 DEF AtCounts, LeftBarriers, Running, Kernel
  <2>1. CASE s = r
    <3>1. LeftBarriers(r) \in Int
      BY <1>1, PlaceTypes
    <3>2. at[r] = LeftBarriers(r) + 0
      BY <1>1, <1>2 DEF AtCounts
    <3> QED
      BY <1>2, <1>5, <2>1, <3>1, <3>2
  <2>2. CASE s # r
    BY <1>1, <1>5, <2>2 DEF AtCounts
  <2> QED
    BY <2>1, <2>2
<1>8. Together'
  <2> SUFFICES ASSUME NEW s \in Ranks, NEW t \in Ranks PROVE LeftBarriers(s) <= at'[t]
    BY <1>2 DEF Together, LeftBarriers
  <2>1. LeftBarriers(s) <= at[t] /\ at[t] \in Int /\ at'[t] \in Int /\ at[t] <= at'[t]
    BY <1>1, <1>3, <1>5 DEF Together
  <2>2. LeftBarriers(s) \in Int
    BY <1>1, PlaceTypes
  <2> QED
    BY <2>1, <2>2
<1>9. GradsWritten' /\ WindowFilled' /\ WindowKept'
  <2>1. GradsWritten'
    BY <1>1, <1>2 DEF GradsWritten, Done
  <2>2. WindowFilled'
    BY <1>1, <1>2 DEF WindowFilled, Reached, SlotOf
  <2>3. WindowKept'
    BY <1>1, <1>2 DEF WindowKept, Done, SlotOf
  <2> QED
    BY <2>1, <2>2, <2>3
<1> QED
  BY <1>6, <1>7, <1>8, <1>9 DEF TrainInv

\* Nothing is in a window or a slot before the first step.
LEMMA TrainInit == Init => TrainInv
<1> SUFFICES ASSUME Init PROVE TrainInv
  OBVIOUS
<1>1. /\ prog \in Programs /\ etc \in [1 .. prog.steps -> prog.plans]
      /\ step = [r \in Ranks |-> 1] /\ pos = [r \in Ranks |-> 1]
      /\ served = [r \in Ranks |-> {}] /\ at = [r \in Ranks |-> 0]
      /\ inside = [r \in Ranks |-> FALSE]
      /\ window = [c \in Ranks |-> [s \in 0 .. prog.slots - 1 |-> 0]]
      /\ grads = [c \in Ranks |-> 0]
  BY DEF Init
<1>2. /\ Len(prog.kernels) \in Nat /\ Len(prog.kernels) >= 1
      /\ prog.slots \in Nat \ {0} /\ prog.steps \in Nat \ {0}
  BY <1>1, ProgramsAssumption, MaxStepsAssumption, MaxLoopAssumption
<1>3. TrainTypes
  <2>1. MaxBarriers \in Nat
    BY MaxStepsAssumption, MaxLoopAssumption DEF MaxBarriers
  <2> QED
    BY <1>1, <1>2, <2>1 DEF TrainTypes
<1>4. \A r \in Ranks : LeftBarriers(r) = 0
  <2> SUFFICES ASSUME NEW r \in Ranks PROVE LeftBarriers(r) = 0
    OBVIOUS
  <2>1. BarriersBefore(prog, 1) = 0 /\ PerStep(prog) \in Nat
    BY <1>2, BarrierCount
  <2>2. LeftBarriers(r) = (1 - 1) * PerStep(prog) + BarriersBefore(prog, 1)
    BY <1>1 DEF LeftBarriers, Phase
  <2>3. (1 - 1) * PerStep(prog) = 0
    BY <2>1
  <2> QED
    BY <2>1, <2>2, <2>3
<1>5. AtCounts /\ Together
  BY <1>1, <1>4 DEF AtCounts, Together
<1>6. WindowFilled
  BY <1>1 DEF WindowFilled
<1>7. WindowKept
  <2> SUFFICES ASSUME NEW c \in Ranks, NEW n \in 1 .. prog.steps, NEW q \in Pushes(prog),
                      etc[n][c] \in Ranks
               PROVE  /\ ~ Done(etc[n][c], n, q)
                      /\ c \notin served[etc[n][c]]
    BY DEF WindowKept
  <2>1. step[etc[n][c]] = 1 /\ pos[etc[n][c]] = 1 /\ served[etc[n][c]] = {}
    BY <1>1
  <2>2. q \in 1 .. Len(prog.kernels)
    BY DEF Pushes, Positions
  <2> QED
    BY <1>2, <2>1, <2>2 DEF Done
<1>8. GradsWritten
  <2> SUFFICES ASSUME NEW c \in Ranks, NEW n \in 1 .. prog.steps, NEW g \in Grads(prog)
               PROVE  ~ Done(c, n, g)
    BY <1>1 DEF GradsWritten
  <2>1. step[c] = 1 /\ pos[c] = 1
    BY <1>1
  <2>2. g \in 1 .. Len(prog.kernels)
    BY DEF Grads, Positions
  <2> QED
    BY <1>2, <2>1, <2>2 DEF Done
<1> QED
  BY <1>3, <1>5, <1>6, <1>7, <1>8 DEF TrainInv

\* The kernels that end without a barrier: nothing to wait for, and the count
\* of barriers stays what it is.
LEMMA KernelEndKeeps ==
  ASSUME TrainInv, NEW r \in Ranks, NEW k, Running(r, k), k # "barrier", Advance(r),
         UNCHANGED <<prog, etc, at, inside, window>>,
         k = "push" => served[r] = Consumers(step[r], r),
         k # "grad" => grads' = grads,
         k = "grad" => grads' = [grads EXCEPT ![r] = step[r]]
  PROVE  TrainInv'
<1>1. TrainTypes /\ AtCounts /\ step[r] <= prog.steps /\ Kernel(r) = k
  BY DEF TrainInv, Running
<1>2. ~ inside[r] /\ inside' = inside /\ inside \in [Ranks -> BOOLEAN]
  BY <1>1 DEF AtCounts, Running, TrainTypes
<1>3. at[r] = LeftBarriers(r) + 0
  BY <1>1, <1>2 DEF AtCounts
<1>4. grads' \in [Ranks -> Nat]
  <2>1. grads \in [Ranks -> Nat] /\ step[r] \in Nat
    BY <1>1 DEF TrainTypes
  <2> QED
    BY <2>1
<1> QED
  BY <1>1, <1>2, <1>3, <1>4, AdvanceKeeps

\* Every step of every rank keeps the invariant.
LEMMA TrainNext == TrainInv /\ [Next]_vars => TrainInv'
<1> SUFFICES ASSUME TrainInv, [Next]_vars PROVE TrainInv'
  OBVIOUS
<1>1. ASSUME NEW r \in Ranks, PushRows(r) PROVE TrainInv'
  BY <1>1, PushRowsKeeps
<1>2. ASSUME NEW r \in Ranks, PushDone(r) PROVE TrainInv'
  <2>1. Running(r, "push")
    BY <1>2 DEF PushDone
  <2> QED
    BY <1>2, <2>1, KernelEndKeeps DEF PushDone
<1>3. ASSUME NEW r \in Ranks, ReachBarrier(r) PROVE TrainInv'
  BY <1>3, ReachBarrierKeeps
<1>4. ASSUME NEW r \in Ranks, LeaveBarrier(r) PROVE TrainInv'
  <2>1. /\ TrainTypes /\ AtCounts /\ step[r] <= prog.steps /\ Kernel(r) = "barrier"
        /\ Advance(r) /\ prog' = prog /\ etc' = etc /\ window' = window /\ grads' = grads
    BY <1>4 DEF LeaveBarrier, TrainInv, Running
  <2>2. inside[r] /\ at' = at /\ inside' = [inside EXCEPT ![r] = FALSE]
    BY <1>4 DEF LeaveBarrier, Barrier!Leave
  <2>3. at[r] = LeftBarriers(r) + 1
    BY <2>1, <2>2 DEF AtCounts
  <2>4. inside' \in [Ranks -> BOOLEAN] /\ ~ inside'[r]
        /\ \A s \in Ranks : s # r => inside'[s] = inside[s]
    BY <2>1, <2>2 DEF TrainTypes
  <2>5. grads' \in [Ranks -> Nat]
    BY <2>1 DEF TrainTypes
  <2>6. \A s \in Ranks : at[r] <= at[s]
    <3>1. at[r] \in 1 .. MaxBarriers
      <4>1. at[r] \in 0 .. MaxBarriers /\ MaxBarriers \in Nat
        BY <2>1, MaxStepsAssumption, MaxLoopAssumption DEF TrainTypes, MaxBarriers
      <4>2. LeftBarriers(r) \in Nat
        <5>1. step[r] \in Nat \ {0} /\ pos[r] \in Int /\ Len(prog.kernels) \in Nat
          BY <2>1, ProgramFacts DEF TrainTypes
        <5>2. BarriersBefore(prog, pos[r]) \in Nat /\ PerStep(prog) \in Nat
          <6>1. PerStep(prog) \in Nat
            BY <5>1, BarrierCount
          <6>2. BarriersBefore(prog, pos[r]) \in 0 .. PerStep(prog)
            BY <5>1, BarrierCount
          <6> QED
            BY <6>1, <6>2
        <5>3. (step[r] - 1) * PerStep(prog) \in Nat
          BY <5>1, <5>2
        <5> QED
          BY <5>2, <5>3 DEF LeftBarriers, Phase
      <4> QED
        BY <2>3, <4>1, <4>2
    <3> QED
      BY <1>4, <3>1 DEF LeaveBarrier, Barrier!Leave
  <2> QED
    BY <2>1, <2>2, <2>3, <2>4, <2>5, <2>6, AdvanceKeeps
<1>5. ASSUME NEW r \in Ranks, UseDone(r) PROVE TrainInv'
  <2>1. Running(r, "use")
    BY <1>5 DEF UseDone
  <2> QED
    BY <1>5, <2>1, KernelEndKeeps DEF UseDone
<1>6. ASSUME NEW r \in Ranks, GradDone(r) PROVE TrainInv'
  <2>1. Running(r, "grad")
    BY <1>6 DEF GradDone
  <2> QED
    BY <1>6, <2>1, KernelEndKeeps DEF GradDone
<1>7. ASSUME NEW r \in Ranks, PullRows(r) PROVE TrainInv'
  BY <1>7, PullRowsKeeps
<1>8. ASSUME NEW r \in Ranks, PullDone(r) PROVE TrainInv'
  <2>1. Running(r, "pull")
    BY <1>8 DEF PullDone
  <2> QED
    BY <1>8, <2>1, KernelEndKeeps DEF PullDone
<1>9. CASE UNCHANGED vars
  <2>1. /\ prog' = prog /\ etc' = etc /\ step' = step /\ pos' = pos /\ at' = at
        /\ inside' = inside /\ grads' = grads /\ window' = window /\ served' = served
    BY <1>9 DEF vars
  <2>2. TrainTypes'
    BY <2>1 DEF TrainInv, TrainTypes
  <2>3. AtCounts' /\ Together'
    BY <2>1 DEF TrainInv, AtCounts, Together, LeftBarriers, Running, Kernel
  <2>4. WindowFilled' /\ WindowKept' /\ GradsWritten'
    BY <2>1 DEF TrainInv, WindowFilled, WindowKept, GradsWritten, Done, Reached, SlotOf
  <2> QED
    BY <2>2, <2>3, <2>4 DEF TrainInv
<1> QED
  BY <1>1, <1>2, <1>3, <1>4, <1>5, <1>6, <1>7, <1>8, <1>9 DEF Next, Finished

\* A rank that runs a kernel other than a barrier, and any other rank.
LEMMA RunningPhase ==
  ASSUME TrainInv, NEW r \in Ranks, NEW k, Running(r, k), k # "barrier", NEW h \in Ranks
  PROVE  /\ step[r] \in 1 .. prog.steps /\ pos[r] \in Positions(prog)
         /\ at[r] = Phase(prog, step[r], pos[r])
         /\ Phase(prog, step[r], pos[r]) <= at[h]
         /\ LeftBarriers(h) <= Phase(prog, step[r], pos[r])
<1>1. TrainTypes /\ AtCounts /\ Together
  BY DEF TrainInv
<1>2. step[r] \in 1 .. prog.steps /\ pos[r] \in Positions(prog)
  <2>1. prog.steps \in Nat /\ step[r] \in 1 .. prog.steps + 1 /\ step[r] <= prog.steps
    BY <1>1, ProgramFacts DEF TrainTypes, Running
  <2> QED
    BY <1>1, <2>1 DEF TrainTypes, Positions
<1>3. at[r] = LeftBarriers(r) + 0
  BY <1>1 DEF AtCounts, Running
<1>4. LeftBarriers(r) \in Int /\ LeftBarriers(r) = Phase(prog, step[r], pos[r])
  BY <1>1, PlaceTypes DEF LeftBarriers
<1> QED
  BY <1>1, <1>2, <1>3, <1>4 DEF Together

\* Behind a barrier of its step a rank knows that the others have come to it.
LEMMA BehindBarrier ==
  ASSUME TrainInv, NEW r \in Ranks, NEW k, Running(r, k), k # "barrier", NEW h \in Ranks,
         NEW b \in Barriers(prog), b < pos[r], NEW i \in Positions(prog), i < b
  PROVE  Done(h, step[r], i)
<1>1. TrainTypes /\ AtCounts
  BY DEF TrainInv
<1>2. /\ step[r] \in 1 .. prog.steps /\ pos[r] \in Positions(prog)
      /\ Phase(prog, step[r], pos[r]) <= at[h]
  BY RunningPhase
<1>3. /\ Len(prog.kernels) \in Nat /\ step[r] \in Int /\ pos[r] \in Int /\ b \in Positions(prog)
      /\ b \in Int /\ i \in Int /\ at[h] \in Int /\ step[h] \in Int /\ pos[h] \in Int
  BY <1>1, <1>2, ProgramFacts DEF TrainTypes, Positions, Barriers
<1>4. Phase(prog, step[r], pos[r]) >= Phase(prog, step[r], b) + 1
      /\ Phase(prog, step[r], b) \in Int /\ Phase(prog, step[r], pos[r]) \in Int
  <2>1. BarriersBefore(prog, pos[r]) >= BarriersBefore(prog, b) + 1
    BY <1>2, <1>3, BarrierBetween
  <2>2. BarriersBefore(prog, pos[r]) \in Int /\ BarriersBefore(prog, b) \in Int
        /\ (step[r] - 1) * PerStep(prog) \in Int
    <3>1. BarriersBefore(prog, pos[r]) \in Int /\ BarriersBefore(prog, b) \in Int
          /\ PerStep(prog) \in Int
      <4>1. PerStep(prog) \in Nat /\ \A x \in Int : BarriersBefore(prog, x) \in 0 .. PerStep(prog)
        BY <1>3, BarrierCount
      <4>2. BarriersBefore(prog, pos[r]) \in 0 .. PerStep(prog)
            /\ BarriersBefore(prog, b) \in 0 .. PerStep(prog)
        BY <1>3, <4>1
      <4> QED
        BY <4>1, <4>2
    <3> QED
      BY <1>3, <3>1
  <2> QED
    BY <2>1, <2>2 DEF Phase
<1>5. ~ (at[h] <= Phase(prog, step[r], b))
  BY <1>2, <1>3, <1>4
<1>6. Reached(h, step[r], b)
  BY <1>1, <1>2, <1>3, <1>5, NotReached
<1> QED
  BY <1>3, <1>6 DEF Reached, Done

\* A kernel of a later step that another rank has reached is not behind a
\* barrier that the running kernel is before.
LEMMA AheadOfBarrier ==
  ASSUME TrainInv, NEW r \in Ranks, NEW k, Running(r, k), k # "barrier", NEW h \in Ranks,
         NEW m \in 1 .. prog.steps, m > step[r], NEW q \in Positions(prog),
         Reached(h, m, q), Barriers(prog) # {}
  PROVE  m = step[r] + 1 /\ ~ Parted(prog, pos[r], q)
<1>1. TrainTypes
  BY DEF TrainInv
<1>2. /\ step[r] \in 1 .. prog.steps /\ pos[r] \in Positions(prog)
      /\ LeftBarriers(h) <= Phase(prog, step[r], pos[r])
  BY RunningPhase
<1>3. Phase(prog, m, q) <= LeftBarriers(h)
  BY <1>1, ReachedPhase
<1>4. /\ Len(prog.kernels) \in Nat /\ step[r] \in Int /\ pos[r] \in Int
      /\ m \in Int /\ q \in Int /\ step[h] \in Int /\ pos[h] \in Int
  BY <1>1, <1>2, ProgramFacts DEF TrainTypes, Positions
<1>5. Phase(prog, m, q) \in Int /\ LeftBarriers(h) \in Int /\ Phase(prog, step[r], pos[r]) \in Int
  BY <1>4, PhaseFacts DEF LeftBarriers
<1>6. Phase(prog, step[r], pos[r]) >= Phase(prog, m, q)
  BY <1>2, <1>3, <1>5
<1> QED
  BY <1>2, <1>4, <1>6, PhaseGap

\* A use of weights is behind the barrier after their push, and no home has
\* come to push later ones into the same slot.
LEMMA WeightsFromInv == TrainInv => (WeightsParted(prog) => WeightsHeld)
<1> SUFFICES ASSUME TrainInv, WeightsParted(prog), NEW c \in Ranks, Running(c, "use"),
                    etc[step[c]][c] # None
             PROVE  window[c][SlotOf(step[c])] = step[c]
  BY DEF WeightsHeld
<1> DEFINE n == step[c]
           h == etc[n][c]
           m == window[c][SlotOf(n)]
<1>1. TrainTypes /\ WindowFilled /\ WindowKept
  BY DEF TrainInv
<1>2. n \in 1 .. prog.steps /\ pos[c] \in Uses(prog) /\ n \in Nat
  <2>1. n \in 1 .. prog.steps /\ pos[c] \in Positions(prog)
    BY RunningPhase
  <2> QED
    BY <2>1 DEF Running, Kernel, Uses
<1>3. h \in Ranks
  BY <1>1, <1>2, ProgramFacts DEF IsPlan
<1>4. PICK q \in Pushes(prog), b \in Barriers(prog) : q < b /\ b < pos[c]
  BY <1>2 DEF WeightsParted
<1>5. \A x \in Pushes(prog) : x \in Positions(prog)
  BY DEF Pushes
<1> HIDE DEF h
<1>6. Done(h, n, q)
  BY <1>3, <1>4, <1>5, BehindBarrier
<1>7. m >= n
  BY <1>1, <1>2, <1>3, <1>6 DEF WindowKept, h
<1>8. prog.slots \in Nat \ {0} /\ SlotOf(n) \in 0 .. prog.slots - 1 /\ m \in Nat
  <2>1. prog.slots \in Nat \ {0}
    BY <1>1, ProgramFacts
  <2>2. SlotOf(n) \in 0 .. prog.slots - 1
    BY <1>2, <2>1 DEF SlotOf
  <2> QED
    BY <1>1, <2>1, <2>2 DEF TrainTypes
<1>9. CASE m > n
  <2>1. /\ m \in 1 .. prog.steps /\ SlotOf(m) = SlotOf(n) /\ etc[m][c] \in Ranks
        /\ \E x \in Pushes(prog) : Reached(etc[m][c], m, x)
    <3>1. m # 0
      BY <1>2, <1>7
    <3> QED
      BY <1>1, <1>8, <3>1 DEF WindowFilled
  <2>2. PICK x \in Pushes(prog) : Reached(etc[m][c], m, x)
    BY <2>1
  <2>3. Barriers(prog) # {}
    BY <1>4
  <2> HIDE DEF m
  <2>4. m = n + 1 /\ ~ Parted(prog, pos[c], x)
    BY <1>5, <1>9, <2>1, <2>2, <2>3, AheadOfBarrier
  <2>5. prog.slots = 1
    <3>1. (n + 1) % prog.slots = n % prog.slots
      BY <2>1, <2>4 DEF SlotOf
    <3> HIDE DEF n
    <3> QED
      BY <1>2, <1>8, <3>1, NextSlotDiffers
  <2> QED
    BY <1>2, <2>4, <2>5 DEF WeightsParted
<1> QED
  BY <1>2, <1>7, <1>8, <1>9

\* A pull is behind the barrier after the gradient was written, and its
\* consumer has not come to write the next one.
LEMMA GradientsFromInv == TrainInv => (GradientsParted(prog) => GradientsHeld)
<1> SUFFICES ASSUME TrainInv, GradientsParted(prog), NEW r \in Ranks, Running(r, "pull"),
                    NEW c \in Consumers(step[r], r)
             PROVE  grads[c] = step[r]
  BY DEF GradientsHeld
<1> DEFINE n == step[r]
           m == grads[c]
<1>1. TrainTypes /\ GradsWritten /\ c \in Ranks
  BY DEF TrainInv, Consumers
<1>2. n \in 1 .. prog.steps /\ pos[r] \in Pulls(prog) /\ n \in Nat /\ m \in Nat
  <2>1. n \in 1 .. prog.steps /\ pos[r] \in Positions(prog)
    BY RunningPhase
  <2> QED
    BY <1>1, <2>1 DEF Running, Kernel, Pulls, TrainTypes
<1>3. PICK g \in Grads(prog), b \in Barriers(prog) : g < b /\ b < pos[r]
  BY <1>2 DEF GradientsParted
<1>4. \A x \in Grads(prog) : x \in Positions(prog)
  BY DEF Grads
<1>5. Done(c, n, g)
  BY <1>1, <1>3, <1>4, BehindBarrier
<1>6. m >= n
  BY <1>1, <1>2, <1>5 DEF GradsWritten
<1>7. CASE m > n
  <2>1. m \in 1 .. prog.steps /\ \E x \in Grads(prog) : Done(c, m, x)
    <3>1. m # 0
      BY <1>2, <1>7
    <3> QED
      BY <1>1, <3>1 DEF GradsWritten
  <2>2. PICK x \in Grads(prog) : Done(c, m, x)
    BY <2>1
  <2> HIDE DEF m
  <2>3. Reached(c, m, x)
    <3>1. pos[c] \in Int /\ x \in Int
      BY <1>1, <1>4 DEF TrainTypes, Positions
    <3> QED
      BY <2>2, <3>1 DEF Done, Reached
  <2>4. Barriers(prog) # {}
    BY <1>3
  <2>5. ~ Parted(prog, pos[r], x)
    BY <1>1, <1>4, <1>7, <2>1, <2>3, <2>4, AheadOfBarrier
  <2> QED
    BY <1>2, <2>5 DEF GradientsParted
<1> QED
  BY <1>2, <1>6, <1>7

(* The invariant holds of every program, parted or not.                     *)
THEOREM TrainInvariant == Spec => []TrainInv
  BY TrainInit, TrainNext, PTL DEF Spec

(* Every rank computes with the weights of its step, in every program whose *)
(* barriers part the pushes from the uses (prefetch_weight.py, and the      *)
(* loops of its tests): for every number of ranks, steps, slots, and plan.   *)
THEOREM TrainWeights ==
  ASSUME \A p \in Programs : WeightsParted(p)
  PROVE  Spec => []WeightsHeld
<1>1. TrainInv => WeightsHeld
  BY WeightsFromInv DEF TrainInv, TrainTypes
<1> QED
  BY <1>1, TrainInvariant, PTL

(* Every rank reduces the gradients of its step, in every program whose     *)
(* barriers part the pulls from the writing of the gradients.               *)
THEOREM TrainGradients ==
  ASSUME \A p \in Programs : GradientsParted(p)
  PROVE  Spec => []GradientsHeld
<1>1. TrainInv => GradientsHeld
  BY GradientsFromInv DEF TrainInv, TrainTypes
<1> QED
  BY <1>1, TrainInvariant, PTL

-----------------------------------------------------------------------------
\* The loop of test_moonep_mem.py, prefetch and reduce with their defaults:
\* its two barriers part all its kernels, even with one slot.
LEMMA LoopTrain ==
  ASSUME NEW p, p.kernels = <<"push", "barrier", "use", "grad", "barrier", "pull">>
  PROVE  WeightsParted(p) /\ GradientsParted(p)
<1>1. Positions(p) = 1 .. 6
  BY DEF Positions
<1>2. /\ p.kernels[1] = "push" /\ p.kernels[2] = "barrier" /\ p.kernels[3] = "use"
      /\ p.kernels[4] = "grad" /\ p.kernels[5] = "barrier" /\ p.kernels[6] = "pull"
  OBVIOUS
<1>3. \A i \in 1 .. 6 : i = 1 \/ i = 2 \/ i = 3 \/ i = 4 \/ i = 5 \/ i = 6
  OBVIOUS
<1>4. /\ Uses(p) = {3} /\ Pushes(p) = {1} /\ Grads(p) = {4} /\ Pulls(p) = {6}
      /\ Barriers(p) = {2, 5}
  BY <1>1, <1>2, <1>3 DEF Uses, Pushes, Grads, Pulls, Barriers
<1>5. Parted(p, 3, 1) /\ Parted(p, 1, 1) /\ Parted(p, 6, 4)
  BY <1>4 DEF Parted
<1> QED
  BY <1>4, <1>5 DEF WeightsParted, GradientsParted

\* Several forward layers in a row: parted with two slots, not with one.
LEMMA LoopLayers ==
  ASSUME NEW p, p.kernels = <<"push", "barrier", "use">>
  PROVE  WeightsParted(p) <=> p.slots # 1
<1>1. Positions(p) = 1 .. 3
  BY DEF Positions
<1>2. p.kernels[1] = "push" /\ p.kernels[2] = "barrier" /\ p.kernels[3] = "use"
  OBVIOUS
<1>3. \A i \in 1 .. 3 : i = 1 \/ i = 2 \/ i = 3
  OBVIOUS
<1>4. Uses(p) = {3} /\ Pushes(p) = {1} /\ Barriers(p) = {2}
  BY <1>1, <1>2, <1>3 DEF Uses, Pushes, Barriers
<1>5. ~ Parted(p, 3, 1)
  BY <1>4 DEF Parted
<1> QED
  BY <1>4, <1>5 DEF WeightsParted

\* Several backward layers in a row: parted if reduce_grad is closed by its
\* barrier, not with its default.
LEMMA LoopReduce ==
  /\ \A p : p.kernels = <<"grad", "barrier", "pull", "barrier">> => GradientsParted(p)
  /\ \A p : p.kernels = <<"grad", "barrier", "pull">> => ~ GradientsParted(p)
<1>1. ASSUME NEW p, p.kernels = <<"grad", "barrier", "pull", "barrier">>
      PROVE  GradientsParted(p)
  <2>1. Positions(p) = 1 .. 4
    BY <1>1 DEF Positions
  <2>2. p.kernels[1] = "grad" /\ p.kernels[2] = "barrier" /\ p.kernels[3] = "pull"
        /\ p.kernels[4] = "barrier"
    BY <1>1
  <2>3. \A i \in 1 .. 4 : i = 1 \/ i = 2 \/ i = 3 \/ i = 4
    OBVIOUS
  <2>4. Pulls(p) = {3} /\ Grads(p) = {1} /\ Barriers(p) = {2, 4}
    BY <2>1, <2>2, <2>3 DEF Pulls, Grads, Barriers
  <2> QED
    BY <2>4 DEF GradientsParted, Parted
<1>2. ASSUME NEW p, p.kernels = <<"grad", "barrier", "pull">>
      PROVE  ~ GradientsParted(p)
  <2>1. Positions(p) = 1 .. 3
    BY <1>2 DEF Positions
  <2>2. p.kernels[1] = "grad" /\ p.kernels[2] = "barrier" /\ p.kernels[3] = "pull"
    BY <1>2
  <2>3. \A i \in 1 .. 3 : i = 1 \/ i = 2 \/ i = 3
    OBVIOUS
  <2>4. Pulls(p) = {3} /\ Grads(p) = {1} /\ Barriers(p) = {2}
    BY <2>1, <2>2, <2>3 DEF Pulls, Grads, Barriers
  <2> QED
    BY <2>4 DEF GradientsParted, Parted
<1> QED
  BY <1>1, <1>2

\* A sequence of kernels that goes on behind another one.
LEMMA JoinIs ==
  ASSUME NEW s \in Seq(Kernels), NEW t \in Seq(Kernels), NEW u \in Seq(Kernels),
         Len(u) = Len(s) + Len(t),
         \A i \in 1 .. Len(s) : u[i] = s[i],
         \A i \in 1 .. Len(t) : u[Len(s) + i] = t[i]
  PROVE  s \o t = u
<1>1. /\ s \o t \in Seq(Kernels) /\ Len(s \o t) = Len(s) + Len(t)
      /\ Len(s) \in Nat /\ Len(t) \in Nat
      /\ \A i \in 1 .. Len(s) : (s \o t)[i] = s[i]
      /\ \A i \in Len(s) + 1 .. Len(s) + Len(t) : (s \o t)[i] = t[i - Len(s)]
  OBVIOUS
<1>2. ASSUME NEW i \in 1 .. Len(u) PROVE u[i] = (s \o t)[i]
  <2>1. CASE i <= Len(s)
    BY <1>1, <2>1
  <2>2. CASE i > Len(s)
    <3>1. i - Len(s) \in 1 .. Len(t) /\ i = Len(s) + (i - Len(s))
      BY <1>1, <2>2
    <3> QED
      BY <1>1, <2>2, <3>1
  <2> QED
    BY <1>1, <2>1, <2>2
<1>3. Len(u) = Len(s \o t)
  BY <1>1
<1> DEFINE v == s \o t
<1>4. v \in Seq(Kernels) /\ Len(u) = Len(v) /\ \A i \in 1 .. Len(u) : u[i] = v[i]
  BY <1>1, <1>2, <1>3
<1> HIDE DEF v
<1>5. u = v
  BY <1>4
<1> QED
  BY <1>5 DEF v

\* That loop is what the wrappers with their defaults make of a step.
LEMMA LoopKernels ==
  PrefetchWeight(FALSE) \o <<"use", "grad">> \o ReduceGrad(TRUE)
    = <<"push", "barrier", "use", "grad", "barrier", "pull">>
<1>1. FinishOp(TRUE) = << >> /\ FinishOp(FALSE) = <<"barrier">>
  BY DEF FinishOp
<1> DEFINE a == <<"push">>
           b == <<"barrier">>
           ab == <<"push", "barrier">>
           c == <<"use", "grad">>
           abc == <<"push", "barrier", "use", "grad">>
           d == <<"barrier", "pull">>
           n == << >>
           all == <<"push", "barrier", "use", "grad", "barrier", "pull">>
<1>2. /\ a \in Seq(Kernels) /\ b \in Seq(Kernels) /\ ab \in Seq(Kernels)
      /\ c \in Seq(Kernels) /\ abc \in Seq(Kernels) /\ d \in Seq(Kernels)
      /\ n \in Seq(Kernels) /\ all \in Seq(Kernels)
  BY DEF Kernels
<1>3. /\ Len(a) = 1 /\ Len(b) = 1 /\ Len(ab) = 2 /\ Len(c) = 2 /\ Len(abc) = 4
      /\ Len(d) = 2 /\ Len(n) = 0 /\ Len(all) = 6
  OBVIOUS
<1>4. /\ a[1] = "push" /\ b[1] = "barrier"
      /\ ab[1] = "push" /\ ab[2] = "barrier"
      /\ c[1] = "use" /\ c[2] = "grad"
      /\ abc[1] = "push" /\ abc[2] = "barrier" /\ abc[3] = "use"
      /\ abc[4] = "grad"
      /\ d[1] = "barrier" /\ d[2] = "pull"
      /\ all[1] = "push" /\ all[2] = "barrier" /\ all[3] = "use"
      /\ all[4] = "grad" /\ all[5] = "barrier" /\ all[6] = "pull"
  OBVIOUS
<1>5. PrefetchWeight(FALSE) = a \o b /\ ReduceGrad(TRUE) = d \o n
  BY <1>1 DEF PrefetchWeight, ReduceGrad
<1> HIDE DEF a, b, ab, c, abc, d, n, all
<1>0. /\ Len(ab) = Len(a) + Len(b) /\ Len(d) = Len(d) + Len(n)
      /\ Len(abc) = Len(ab) + Len(c) /\ Len(all) = Len(abc) + Len(d)
  BY <1>3
<1>6. /\ \A i \in 1 .. Len(a) : ab[i] = a[i]
      /\ \A i \in 1 .. Len(b) : ab[Len(a) + i] = b[i]
  BY <1>3, <1>4
<1>7. a \o b = ab
  <2>1. a \in Seq(Kernels) /\ b \in Seq(Kernels) /\ ab \in Seq(Kernels)
    BY <1>2
  <2>2. Len(ab) = Len(a) + Len(b)
    BY <1>0
  <2> QED
    BY <2>1, <2>2, <1>6, JoinIs, ZenonT(60)
<1>8. /\ \A i \in 1 .. Len(d) : d[i] = d[i]
      /\ \A i \in 1 .. Len(n) : d[Len(d) + i] = n[i]
  BY <1>3
<1>9. d \o n = d
  <2>1. d \in Seq(Kernels) /\ n \in Seq(Kernels)
    BY <1>2
  <2>2. Len(d) = Len(d) + Len(n)
    BY <1>0
  <2> QED
    BY <2>1, <2>2, <1>8, JoinIs, ZenonT(60)
<1>10. /\ \A i \in 1 .. Len(ab) : abc[i] = ab[i]
       /\ \A i \in 1 .. Len(c) : abc[Len(ab) + i] = c[i]
  BY <1>3, <1>4
<1>11. ab \o c = abc
  <2>1. ab \in Seq(Kernels) /\ c \in Seq(Kernels) /\ abc \in Seq(Kernels)
    BY <1>2
  <2>2. Len(abc) = Len(ab) + Len(c)
    BY <1>0
  <2> QED
    BY <2>1, <2>2, <1>10, JoinIs, ZenonT(60)
<1>12. /\ \A i \in 1 .. Len(abc) : all[i] = abc[i]
       /\ \A i \in 1 .. Len(d) : all[Len(abc) + i] = d[i]
  BY <1>3, <1>4
<1>13. abc \o d = all
  <2>1. abc \in Seq(Kernels) /\ d \in Seq(Kernels) /\ all \in Seq(Kernels)
    BY <1>2
  <2>2. Len(all) = Len(abc) + Len(d)
    BY <1>0
  <2> QED
    BY <2>1, <2>2, <1>12, JoinIs, ZenonT(60)
<1> QED
  BY <1>5, <1>7, <1>9, <1>11, <1>13 DEF c, all

(* Hence the training loop of test_moonep_mem.py keeps weights and          *)
(* gradients of a step together, for any number of ranks, slots, steps and  *)
(* any plans, although its reduce_grad has no barrier behind it.            *)
THEOREM TestLoopSafe ==
  ASSUME \A p \in Programs : p.kernels = PrefetchWeight(FALSE)
                               \o <<"use", "grad">> \o ReduceGrad(TRUE)
  PROVE  Spec => [](WeightsHeld /\ GradientsHeld)
<1>1. \A p \in Programs : WeightsParted(p) /\ GradientsParted(p)
  BY LoopKernels, LoopTrain
<1>2. Spec => []WeightsHeld
  BY <1>1, TrainWeights
<1>3. Spec => []GradientsHeld
  BY <1>1, TrainGradients
<1> QED
  BY <1>2, <1>3, PTL

-----------------------------------------------------------------------------
(* The pull kernel of such a loop, run by one block: _pull_seg of           *)
(* MoonepPull, for rows and segments of every length and any number of rows. *)

(* Division by the length of a segment, rounded up.                         *)
LEMMA CeilingDivision ==
    ASSUME NEW N \in Nat \ {0}, NEW W \in Nat \ {0}, W <= N,
           NEW m, m = (N + W - 1) \div W
    PROVE  /\ m \in Nat \ {0}
           /\ (m - 1) * W < N
           /\ N <= m * W
<1>1. /\ m \in Int
      /\ m * W <= N + W - 1
      /\ N + W - 1 < m * W + W
  BY Z3
<1>2. m >= 1
  BY <1>1, Z3
<1>3. (m - 1) * W = m * W - W
  BY <1>1, Z3
<1> QED
  BY <1>1, <1>2, <1>3

(* A product grows with its factor.                                         *)
LEMMA Multiples ==
    ASSUME NEW a \in Nat, NEW b \in Nat, a <= b, NEW W \in Nat
    PROVE  a * W \in Nat /\ b * W \in Nat /\ a * W <= b * W
           /\ (a + 1) * W = a * W + W
BY Z3

(* Numbers of a row and its segments.                                       *)
LEMMA Sizes ==
    ASSUME <<n_chunks, seg_k>> \in Shapes
    PROVE  /\ n_chunks \in Nat \ {0} /\ seg_k \in Nat \ {0}
           /\ Width \in Nat \ {0} /\ Width <= n_chunks
           /\ NumSeg \in Nat \ {0}
           /\ (NumSeg - 1) * Width < n_chunks /\ n_chunks <= NumSeg * Width
           /\ Cols \in Nat
<1>1. n_chunks \in Nat \ {0} /\ seg_k \in Nat \ {0}
  BY ShapesAssumption
<1>2. Width \in Nat \ {0} /\ Width <= n_chunks
  BY <1>1 DEF Width
<1> HIDE DEF Width
<1>3. /\ NumSeg \in Nat \ {0}
      /\ (NumSeg - 1) * Width < n_chunks /\ n_chunks <= NumSeg * Width
  BY <1>1, <1>2, CeilingDivision DEF NumSeg
<1> QED
  BY <1>1, <1>2, <1>3 DEF Cols

(* The segments lie one behind the other and end with the row; each goes to *)
(* a part of the scratch, and the next one not to the same.                 *)
LEMMA Segments ==
    ASSUME <<n_chunks, seg_k>> \in Shapes, NEW s \in 0 .. NumSeg - 1
    PROVE  /\ SegLo(s) \in 0 .. n_chunks - 1
           /\ SegHi(s) \in SegLo(s) + 1 .. n_chunks
           /\ SegHi(s) <= SegLo(s) + Width
           /\ Offset(s) \in Nat /\ Offset(s) + Width <= Cols
           /\ s + 1 < NumSeg => /\ SegHi(s) = SegLo(s + 1)
                                /\ \/ Offset(s) + Width <= Offset(s + 1)
                                   \/ Offset(s + 1) + Width <= Offset(s)
           /\ s + 1 >= NumSeg => SegHi(s) = n_chunks
<1> USE Sizes
<1>1. s \in Nat /\ s <= NumSeg - 1 /\ NumSeg - 1 \in Nat
  OBVIOUS
<1>2. s * Width \in Nat /\ s * Width < n_chunks /\ (s + 1) * Width = s * Width + Width
  BY <1>1, Multiples
<1>3. s + 1 < NumSeg => (s + 1) * Width < n_chunks
  BY <1>1, Multiples
<1>4. s + 1 >= NumSeg => n_chunks <= (s + 1) * Width
  <2>1. s + 1 >= NumSeg => s + 1 = NumSeg
    BY <1>1
  <2> QED
    BY <2>1
<1>5. /\ Offset(s) \in {0, Width}
      /\ \/ Offset(s) = 0 /\ Offset(s + 1) = Width
         \/ Offset(s) = Width /\ Offset(s + 1) = 0
  <2>1. \/ s % 2 = 0 /\ (s + 1) % 2 = 1
        \/ s % 2 = 1 /\ (s + 1) % 2 = 0
    BY <1>1
  <2>2. 0 * Width = 0 /\ 1 * Width = Width
    OBVIOUS
  <2> QED
    BY <2>1, <2>2 DEF Offset
<1>6. Offset(s) + Width <= Cols
  <2>1. CASE seg_k < n_chunks
    BY <1>5, <2>1 DEF Cols, Width
  <2>2. CASE ~(seg_k < n_chunks)
    <3>1. Width = n_chunks /\ Cols = n_chunks
      BY <2>2 DEF Cols, Width
    <3>2. s = 0
      <4>1. CASE s >= 1
        BY <1>2, <3>1, <4>1, <1>1, Multiples
      <4> QED
        BY <1>1, <4>1
    <3>3. Offset(s) = 0
      BY <3>2 DEF Offset
    <3> QED
      BY <3>1, <3>3
  <2> QED
    BY <2>1, <2>2
<1> QED
  BY <1>1, <1>2, <1>3, <1>4, <1>5, <1>6 DEF SegLo, SegHi
-----------------------------------------------------------------------------
(* Gets go to tiles of the scratch, different chunks to different ones.      *)
LEMMA GetsInRange ==
    ASSUME <<n_chunks, seg_k>> \in Shapes, NEW s \in 0 .. NumSeg - 1
    PROVE  /\ \A i \in SegLo(s) .. SegHi(s) - 1 :
                 /\ i \in 0 .. n_chunks - 1
                 /\ Tile(s, i) \in 0 .. Cols - 1
                 /\ Tile(s, i) \in Offset(s) .. Offset(s) + Width - 1
                 /\ <<Tile(s, i), i>> \in Gets(s)
           /\ \A g \in Gets(s) : /\ g[2] \in SegLo(s) .. SegHi(s) - 1
                                 /\ g = <<Tile(s, g[2]), g[2]>>
           /\ \A i, j \in SegLo(s) .. SegHi(s) - 1 :
                 Tile(s, i) = Tile(s, j) => i = j
<1> USE Sizes, Segments
<1>1. \A i \in SegLo(s) .. SegHi(s) - 1 :
        /\ i \in 0 .. n_chunks - 1
        /\ Tile(s, i) \in 0 .. Cols - 1
        /\ Tile(s, i) \in Offset(s) .. Offset(s) + Width - 1
  BY DEF Tile
<1>2. \A i, j \in SegLo(s) .. SegHi(s) - 1 : Tile(s, i) = Tile(s, j) => i = j
  BY DEF Tile
<1> QED
  BY <1>1, <1>2 DEF Gets, Tile

(* The invariant is inductive: one step per action.                          *)
LEMMA PullInvInductive == ASSUME PullInv, [PullNext]_pullVars PROVE PullInv'
<1> USE RowsAssumption DEF PullInv
<1>0. <<n_chunks, seg_k>> \in Shapes
  BY DEF TypeOK
<1>s. /\ n_chunks \in Nat \ {0} /\ NumSeg \in Nat \ {0} /\ Cols \in Nat
      /\ seg \in 0 .. NumSeg - 1 /\ chunk \in Nat /\ row \in 0 .. Rows
  BY <1>0, Sizes DEF TypeOK
<1>n. UNCHANGED <<n_chunks, seg_k>> =>
        /\ NumSeg' = NumSeg /\ Cols' = Cols /\ Width' = Width
        /\ \A s : /\ SegLo(s)' = SegLo(s) /\ SegHi(s)' = SegHi(s)
                  /\ Offset(s)' = Offset(s) /\ Gets(s)' = Gets(s)
        /\ \A s, i : Tile(s, i)' = Tile(s, i)
  BY DEF NumSeg, Cols, Width, SegLo, SegHi, Offset, Gets, Tile
<1>1. CASE StartRow
  <2>1. 0 \in 0 .. NumSeg - 1 /\ SegLo(0) = 0
    BY <1>0, <1>s, Sizes DEF SegLo
  <2>2. TypeOK'
    <3>1. Gets(0) \subseteq (0 .. Cols - 1) \X (0 .. n_chunks - 1)
      BY <1>0, <2>1, GetsInRange
    <3> QED
      BY <1>1, <1>n, <1>s, <2>1, <3>1 DEF StartRow, TypeOK
  <2>3. WireInv'
    BY <1>1, <1>n DEF StartRow, WireInv
  <2>4. PostedInv'
    BY <1>1, <1>n, <1>0, <2>1, GetsInRange DEF StartRow, PostedInv
  <2>5. ConsumeInv'
    BY <1>1 DEF StartRow, ConsumeInv
  <2>6. AddedInv'
    <3>1. Added = n_chunks /\ Added' = 0
      BY <1>1, <1>n, <2>1 DEF StartRow, Added
    <3>2. \A i \in 0 .. n_chunks - 1 : acc[i] = row
      <4>1. ASSUME NEW i \in 0 .. n_chunks - 1 PROVE i < n_chunks
        BY <1>s
      <4> QED
        BY <3>1, <4>1 DEF AddedInv
    <3> QED
      BY <1>1, <1>s, <3>1, <3>2 DEF StartRow, AddedInv
  <2> QED
    BY <2>2, <2>3, <2>4, <2>5, <2>6
<1>2. CASE Flush
  <2>1. TypeOK' /\ WireInv' /\ PostedInv' /\ ConsumeInv'
    BY <1>2, <1>n DEF Flush, TypeOK, WireInv, PostedInv, ConsumeInv
  <2>2. Added' = Added
    BY <1>2, <1>n DEF Flush, Added
  <2> QED
    BY <1>2, <2>1, <2>2 DEF Flush, AddedInv
<1>3. CASE NextSegment
  <2>1. /\ seg + 1 \in 0 .. NumSeg - 1
        /\ SegLo(seg) \in 0 .. n_chunks /\ SegLo(seg) < SegHi(seg)
        /\ SegHi(seg) \in 0 .. n_chunks /\ seg + 1 - 1 = seg
    BY <1>3, <1>0, <1>s, Sizes, Segments DEF NextSegment
  <2>2. TypeOK'
    <3>1. Gets(seg + 1) \subseteq (0 .. Cols - 1) \X (0 .. n_chunks - 1)
      BY <1>0, <2>1, GetsInRange
    <3> QED
      BY <1>3, <1>n, <1>s, <2>1, <3>1 DEF NextSegment, TypeOK
  <2>3. WireInv'
    BY <1>3, <1>n DEF NextSegment, WireInv
  <2>4. PostedInv'
    BY <1>3, <1>n, <1>0, <2>1, GetsInRange DEF NextSegment, PostedInv
  <2>5. ConsumeInv'
    <3>1. \A i \in SegLo(seg) .. SegHi(seg) - 1 :
            scratch[Tile(seg, i)] = <<row, i>>
      BY <1>3 DEF NextSegment, WireInv, PostedInv
    <3>2. seg' - 1 = seg /\ seg' >= 1 /\ chunk' \in SegLo(seg) .. SegHi(seg)
      BY <1>3, <1>s, <2>1 DEF NextSegment
    <3> QED
      BY <1>3, <1>n, <3>1, <3>2 DEF NextSegment, ConsumeInv
  <2>6. Added' = Added
    BY <1>3, <1>n DEF NextSegment, Added
  <2> QED
    BY <1>3, <2>2, <2>3, <2>4, <2>5, <2>6 DEF NextSegment, AddedInv
<1>4. CASE LastSegment
  <2>1. /\ SegLo(seg) \in 0 .. n_chunks /\ SegLo(seg) < SegHi(seg)
        /\ SegHi(seg) \in 0 .. n_chunks
    BY <1>0, <1>s, Segments
  <2>2. TypeOK' /\ WireInv' /\ PostedInv'
    BY <1>4, <1>n, <2>1 DEF LastSegment, TypeOK, WireInv, PostedInv
  <2>3. ConsumeInv'
    BY <1>4, <1>n, <2>1 DEF LastSegment, ConsumeInv
  <2>4. Added' = Added
    BY <1>4, <1>n DEF LastSegment, Added
  <2> QED
    BY <1>4, <2>2, <2>3, <2>4 DEF LastSegment, AddedInv
<1>5. CASE ConsumeTile
  <2>1. Current \in 0 .. NumSeg - 1 /\ chunk \in SegLo(Current) .. SegHi(Current) - 1
    <3>1. CASE pc = "consume"
      BY <1>5, <1>0, <1>s, <3>1, Segments DEF ConsumeTile, Current, ConsumeInv
    <3>2. CASE pc = "drain"
      BY <1>5, <1>0, <1>s, <3>2, Segments DEF ConsumeTile, Current, ConsumeInv
    <3> QED
      BY <1>5, <3>1, <3>2 DEF ConsumeTile
  <2>2. chunk \in 0 .. n_chunks - 1 /\ chunk + 1 \in SegLo(Current) .. SegHi(Current)
        /\ SegHi(Current) \in 0 .. n_chunks
    BY <1>0, <1>s, <2>1, Segments
  <2>3. Added = chunk /\ Added' = chunk + 1
    BY <1>5 DEF ConsumeTile, Added
  <2>4. acc[chunk] = row - 1 /\ acc[chunk] + 1 = row /\ row \in 0 .. Rows
    <3>1. acc[chunk] = IF chunk < chunk THEN row ELSE row - 1
      BY <2>2, <2>3 DEF AddedInv
    <3> QED
      BY <1>s, <2>2, <3>1
  <2>5. TypeOK'
    <3>1. acc' = [acc EXCEPT ![chunk] = row] /\ acc' \in [0 .. n_chunks - 1 -> 0 .. Rows]
      BY <1>5, <2>2, <2>4 DEF ConsumeTile, TypeOK
    <3>2. chunk' \in 0 .. n_chunks
      BY <1>5, <1>s, <2>2 DEF ConsumeTile
    <3> QED
      BY <1>5, <1>n, <3>1, <3>2 DEF ConsumeTile, TypeOK
  <2>6. WireInv' /\ PostedInv'
    BY <1>5, <1>n DEF ConsumeTile, WireInv, PostedInv
  <2>7. ConsumeInv'
    <3>1. CASE pc = "consume"
      BY <1>5, <1>n, <1>s, <2>1, <2>2, <3>1
      DEF ConsumeTile, Current, ConsumeInv
    <3>2. CASE pc = "drain"
      BY <1>5, <1>n, <1>s, <2>1, <2>2, <3>2
      DEF ConsumeTile, Current, ConsumeInv
    <3> QED
      BY <1>5, <3>1, <3>2 DEF ConsumeTile
  <2>8. AddedInv'
    <3>1. acc' = [acc EXCEPT ![chunk] = row] /\ row' = row /\ n_chunks' = n_chunks /\ pc' = pc
      BY <1>5, <2>4 DEF ConsumeTile
    <3>2. ASSUME NEW i \in 0 .. n_chunks - 1
          PROVE  acc'[i] = IF i < chunk + 1 THEN row ELSE row - 1
      <4>1. acc'[i] = IF i = chunk THEN row ELSE acc[i]
        BY <2>2, <3>1 DEF TypeOK
      <4>2. acc[i] = IF i < chunk THEN row ELSE row - 1
        BY <2>3 DEF AddedInv
      <4> QED
        BY <2>2, <4>1, <4>2
    <3> QED
      BY <2>3, <3>1, <3>2 DEF AddedInv
  <2> QED
    BY <2>5, <2>6, <2>7, <2>8
<1>6. CASE SegmentDone
  <2>1. TypeOK' /\ WireInv' /\ PostedInv' /\ ConsumeInv'
    BY <1>6, <1>n DEF SegmentDone, TypeOK, WireInv, PostedInv, ConsumeInv
  <2>2. seg - 1 \in 0 .. NumSeg - 1 /\ (seg - 1) + 1 = seg
    BY <1>6, <1>s DEF SegmentDone, ConsumeInv
  <2>3. SegHi(seg - 1) = SegLo(seg)
    BY <1>0, <1>s, <2>2, Segments
  <2>4. Added = chunk /\ Added' = SegLo(seg) /\ chunk = SegHi(seg - 1)
    BY <1>6, <1>n DEF SegmentDone, Added, Current
  <2> QED
    BY <1>6, <2>1, <2>3, <2>4 DEF SegmentDone, AddedInv
<1>7. CASE RowDone
  <2>1. TypeOK' /\ WireInv' /\ PostedInv' /\ ConsumeInv'
    BY <1>7, <1>n DEF RowDone, TypeOK, WireInv, PostedInv, ConsumeInv
  <2>2. SegHi(seg) = n_chunks
    BY <1>7, <1>0, <1>s, Segments DEF RowDone, ConsumeInv
  <2>3. Added = n_chunks /\ Added' = n_chunks
    BY <1>7, <2>2 DEF RowDone, Added, Current
  <2> QED
    BY <1>7, <2>1, <2>3 DEF RowDone, AddedInv
<1>8. CASE Land
  <2>1. PICK g \in wire : /\ scratch' = [scratch EXCEPT ![g[1]] = <<row, g[2]>>]
                          /\ wire' = wire \ {g}
    BY <1>8 DEF Land
  <2>2. UNCHANGED <<n_chunks, seg_k, pc, row, seg, chunk, acc>>
    BY <1>8 DEF Land
  <2>3. /\ g \in Gets(seg) /\ g[2] \in SegLo(seg) .. SegHi(seg) - 1
        /\ g[1] = Tile(seg, g[2]) /\ g = <<g[1], g[2]>>
        /\ g[1] \in 0 .. Cols - 1 /\ g[2] \in 0 .. n_chunks - 1
    BY <1>0, <1>s, GetsInRange DEF WireInv
  <2>4. pc # "row"
    BY DEF WireInv
  <2>5. TypeOK'
    BY <1>n, <1>s, <2>1, <2>2, <2>3 DEF TypeOK
  <2>6. WireInv'
    BY <1>n, <2>1, <2>2 DEF WireInv
  <2>s. scratch \in [0 .. Cols - 1 -> (0..Rows) \X (0 .. n_chunks - 1)]
    BY DEF TypeOK
  <2>7. PostedInv'
    <3> SUFFICES ASSUME NEW i \in SegLo(seg) .. SegHi(seg) - 1
                 PROVE  \/ <<Tile(seg, i), i>> \in wire'
                        \/ scratch'[Tile(seg, i)] = <<row, i>>
      BY <1>n, <2>2 DEF PostedInv
    <3>1. Tile(seg, i) \in 0 .. Cols - 1
      BY <1>0, <1>s, GetsInRange
    <3>2. CASE i = g[2]
      BY <2>1, <2>3, <2>s, <3>1, <3>2
    <3>3. CASE i # g[2]
      <4>1. Tile(seg, i) # g[1]
        BY <1>0, <1>s, <2>3, <3>3, GetsInRange
      <4>2. scratch'[Tile(seg, i)] = scratch[Tile(seg, i)]
        BY <2>1, <2>s, <3>1, <4>1
      <4>3. <<Tile(seg, i), i>> # g
        BY <2>3, <3>3
      <4> QED
        BY <2>1, <2>4, <4>2, <4>3 DEF PostedInv
    <3> QED
      BY <3>2, <3>3
  <2>8. ConsumeInv'
    <3>1. CASE pc = "consume"
      <4>1. seg - 1 \in 0 .. NumSeg - 1 /\ (seg - 1) + 1 = seg
        BY <1>s, <3>1 DEF ConsumeInv
      <4>2. ASSUME NEW i \in chunk .. SegHi(seg - 1) - 1
            PROVE  scratch'[Tile(seg - 1, i)] = <<row, i>>
        <5>1. i \in SegLo(seg - 1) .. SegHi(seg - 1) - 1
          BY <1>0, <1>s, <3>1, <4>1, Segments DEF ConsumeInv
        <5>2. /\ Tile(seg - 1, i) \in 0 .. Cols - 1
              /\ Tile(seg - 1, i) \in Offset(seg - 1) .. Offset(seg - 1) + Width - 1
          BY <1>0, <4>1, <5>1, GetsInRange
        <5>3. Tile(seg, g[2]) \in Offset(seg) .. Offset(seg) + Width - 1
          BY <1>0, <1>s, <2>3, GetsInRange
        <5>4. \/ Offset(seg - 1) + Width <= Offset(seg)
              \/ Offset(seg) + Width <= Offset(seg - 1)
          BY <1>0, <1>s, <4>1, Segments
        <5>5. Tile(seg - 1, i) # g[1]
          <6>1. Offset(seg) \in Nat /\ Offset(seg - 1) \in Nat /\ Width \in Nat
            BY <1>0, <1>s, <4>1, Segments, Sizes
          <6> QED
            BY <2>3, <5>2, <5>3, <5>4, <6>1
        <5>6. scratch[Tile(seg - 1, i)] = <<row, i>>
          BY <3>1 DEF ConsumeInv
        <5> QED
          BY <2>1, <2>s, <5>2, <5>5, <5>6
      <4> QED
        BY <1>n, <2>2, <3>1, <4>2 DEF ConsumeInv
    <3>2. CASE pc # "consume"
      BY <1>n, <2>2, <3>2 DEF ConsumeInv
    <3> QED
      BY <3>1, <3>2
  <2>9. Added' = Added
    BY <1>n, <2>2 DEF Added
  <2> QED
    BY <2>2, <2>5, <2>6, <2>7, <2>8, <2>9 DEF AddedInv
<1>9. CASE UNCHANGED pullVars
  <2>1. TypeOK' /\ WireInv' /\ PostedInv' /\ ConsumeInv'
    BY <1>9, <1>n DEF pullVars, TypeOK, WireInv, PostedInv, ConsumeInv
  <2>2. Added' = Added
    BY <1>9, <1>n DEF pullVars, Added
  <2> QED
    BY <1>9, <2>1, <2>2 DEF pullVars, AddedInv
<1> QED
  BY <1>1, <1>2, <1>3, <1>4, <1>5, <1>6, <1>7, <1>8, <1>9 DEF PullNext, PullFinished

(* The invariant holds throughout.                                          *)
LEMMA PullInvariant == PullSpec => []PullInv
<1>1. PullInit => PullInv
  <2> SUFFICES ASSUME PullInit PROVE PullInv
    OBVIOUS
  <2>1. <<n_chunks, seg_k>> \in Shapes
    BY ShapesAssumption DEF PullInit
  <2>2. TypeOK
    BY <2>1, Sizes, RowsAssumption DEF PullInit, TypeOK
  <2> QED
    BY <2>1, <2>2, Sizes
    DEF PullInit, PullInv, WireInv, PostedInv, ConsumeInv, AddedInv, Added
<1>2. PullInv /\ [PullNext]_pullVars => PullInv'
  BY PullInvInductive
<1> QED
  BY <1>1, <1>2, PTL DEF PullSpec

(* A tile is complete when it is consumed, and no get under way goes to it. *)
THEOREM PullReadsTiles == PullSpec => []TilesReady
<1>1. PullInv => TilesReady
  <2> SUFFICES ASSUME PullInv, pc \in {"consume", "drain"},
                      NEW i \in chunk .. SegHi(Current) - 1
               PROVE  /\ scratch[Tile(Current, i)] = <<row, i>>
                      /\ \A g \in wire : g[1] # Tile(Current, i)
    BY DEF TilesReady, Tile
  <2>0. <<n_chunks, seg_k>> \in Shapes /\ seg \in 0 .. NumSeg - 1 /\ NumSeg \in Nat /\ chunk \in Nat
    BY Sizes DEF PullInv, TypeOK
  <2>1. CASE pc = "drain"
    <3>1. wire = {} /\ Current = seg
      BY <2>1 DEF PullInv, WireInv, Current
    <3>2. i \in SegLo(seg) .. SegHi(seg) - 1
      BY <2>0, <2>1, <3>1, Segments DEF PullInv, ConsumeInv
    <3> QED
      BY <2>1, <3>1, <3>2 DEF PullInv, PostedInv
  <2>2. CASE pc = "consume"
    <3>1. Current = seg - 1 /\ seg - 1 \in 0 .. NumSeg - 1 /\ (seg - 1) + 1 = seg
      BY <2>0, <2>2 DEF PullInv, ConsumeInv, Current
    <3>2. i \in SegLo(seg - 1) .. SegHi(seg - 1) - 1
      BY <2>0, <2>2, <3>1, Segments DEF PullInv, ConsumeInv
    <3>3. Tile(seg - 1, i) \in Offset(seg - 1) .. Offset(seg - 1) + Width - 1
      BY <2>0, <3>1, <3>2, GetsInRange
    <3>4. ASSUME NEW g \in wire PROVE g[1] # Tile(seg - 1, i)
      <4>1. g[1] \in Offset(seg) .. Offset(seg) + Width - 1
        BY <2>0, GetsInRange DEF PullInv, WireInv
      <4>2. \/ Offset(seg - 1) + Width <= Offset(seg)
            \/ Offset(seg) + Width <= Offset(seg - 1)
        BY <2>0, <3>1, Segments
      <4>3. Offset(seg) \in Nat /\ Offset(seg - 1) \in Nat /\ Width \in Nat
        BY <2>0, <3>1, Segments, Sizes
      <4> QED
        BY <3>3, <4>1, <4>2, <4>3
    <3> QED
      BY <2>2, <3>1, <3>4 DEF PullInv, ConsumeInv
  <2> QED
    BY <2>1, <2>2
<1> QED
  BY <1>1, PullInvariant, PTL

(* Each chunk of the gradient is added to once for every row.               *)
THEOREM PullAddsOnce == PullSpec => []EachChunkOnce
<1>1. PullInv => EachChunkOnce
  <2> SUFFICES ASSUME PullInv, pc = "row", NEW i \in 0 .. n_chunks - 1
               PROVE  acc[i] = row
    BY DEF EachChunkOnce
  <2>1. i < n_chunks
    BY Sizes DEF PullInv, TypeOK
  <2> QED
    BY <2>1 DEF PullInv, AddedInv, Added
<1> QED
  BY <1>1, PullInvariant, PTL
=============================================================================
