------------------------ MODULE MoonepPlanGridProofs ------------------------
(***************************************************************************)
(* The grid of the plan kernel, for every shape, every number of cores and  *)
(* every order in which its blocks run: no table is read before it is       *)
(* written, and the blocks share the work without gap or overlap.           *)
(*                                                                         *)
(* The invariant says exactly what each block has written: a function of    *)
(* the label it is at and of its rounds in the loop there.                  *)
(*                                                                         *)
(* The last part is about the search in _relocate, MoonepRelocate.          *)
(***************************************************************************)
EXTENDS MoonepPlanGrid, MoonepRelocate, FiniteSetTheorems, TLAPS

\* Division of a number by a positive one: quotient and remainder.
LEMMA DivMod ==
  ASSUME NEW n \in Nat, NEW d \in Nat \ {0}
  PROVE  /\ n \div d \in Nat /\ n % d \in 0 .. d - 1
         /\ n = d * (n \div d) + (n % d)
OBVIOUS

\* Quotient and remainder are determined by the number.
LEMMA DivUnique ==
  ASSUME NEW d \in Nat \ {0}, NEW q \in Nat, NEW r \in 0 .. d - 1, NEW x \in Nat, NEW s \in 0 .. d - 1,
         d * q + r = d * x + s
  PROVE  q = x /\ r = s
<1>1. ASSUME NEW a \in Nat, NEW b \in Nat, NEW u \in 0 .. d - 1, NEW v \in 0 .. d - 1, a < b
      PROVE d * a + u # d * b + v
  <2>1. PICK k \in Nat : b = a + 1 + k
     <3> b - a - 1 \in Nat /\ b = a + 1 + (b - a - 1) BY <1>1
     <3> QED OBVIOUS
  <2>2. d * b = d * a + d + d * k /\ d * k \in Nat /\ d * a \in Nat
     BY <2>1
  <2> QED BY <2>2
<1>2. ~ (q < x) /\ ~ (x < q) BY <1>1
<1> QED BY <1>2

\* A number that is given by its quotient and remainder.
LEMMA DivIs ==
  ASSUME NEW d \in Nat \ {0}, NEW q \in Nat, NEW r \in 0 .. d - 1
  PROVE  (d * q + r) \div d = q /\ (d * q + r) % d = r
<1> DEFINE n == d * q + r
<1>1. n \in Nat BY d * q \in Nat
<1>2. n \div d \in Nat /\ n % d \in 0 .. d - 1 /\ n = d * (n \div d) + (n % d)
   BY <1>1, DivMod
<1> HIDE DEF n
<1>3. n \div d = q /\ n % d = r BY <1>2, DivUnique DEF n
<1> QED BY <1>3 DEF n

\* A set of natural numbers that is not empty has a least element: the
\* intervals 0 .. k that end in it have one that no other is a part of.
LEMMA LeastElement ==
  ASSUME NEW T \in SUBSET Nat, T # {}
  PROVE  \E m \in T : \A k \in T : m <= k
<1> PICK n \in T : TRUE
  OBVIOUS
<1> DEFINE C == {0 .. k : k \in {x \in T : x <= n}}
<1>1. IsFiniteSet(0 .. n)
  BY FS_Interval
<1>2. IsWellFoundedOn(StrictSubsetOrdering(0 .. n), FiniteSubsetsOf(0 .. n))
  BY <1>1, FS_StrictSubsetOrderingWellFounded
<1>3. C \subseteq FiniteSubsetsOf(0 .. n) /\ C # {}
  <2>1. \A k \in T : k <= n => (0 .. k) \in SUBSET (0 .. n) /\ IsFiniteSet(0 .. k)
     BY FS_Interval
  <2>2. C # {}
     OBVIOUS
  <2> QED
    BY <2>1, <2>2 DEF FiniteSubsetsOf
<1>4. PICK x \in C : \A y \in C : <<y, x>> \notin StrictSubsetOrdering(0 .. n)
  BY <1>2, <1>3, WFMin
<1>5. PICK m \in T : m <= n /\ x = 0 .. m
  BY <1>4
<1>6. ASSUME NEW k \in T, k < m PROVE FALSE
  <2>1. (0 .. k) \in C /\ (0 .. m) \in C
    BY <1>5, <1>6
  <2>2. (0 .. k) \subseteq 0 .. m /\ (0 .. k) # 0 .. m
    <3>1. m \in 0 .. m /\ m \notin 0 .. k
      BY <1>6
    <3> QED BY <1>6, <3>1
  <2>3. (0 .. k) \subseteq 0 .. n /\ (0 .. m) \subseteq 0 .. n
    BY <1>5, <1>6
  <2> QED
    BY <1>4, <1>5, <2>1, <2>2, <2>3 DEF StrictSubsetOrdering
<1> QED
  BY <1>6

\* A bounded set of natural numbers that is not empty has a greatest element.
LEMMA GreatestElement ==
  ASSUME NEW T, NEW n \in Nat, T \subseteq 0 .. n, T # {}
  PROVE  \E m \in T : \A k \in T : m >= k
<1> DEFINE U == {n - k : k \in T}
<1>1. \A k \in T : k \in 0 .. n /\ n - k \in Nat BY T \subseteq 0 .. n
<1>1a. U \in SUBSET Nat /\ U # {} BY <1>1
<1>2. PICK u \in U : \A v \in U : u <= v BY <1>1a, LeastElement
<1>3. PICK m \in T : u = n - m BY <1>2
<1>4. \A k \in T : n - k \in U OBVIOUS
<1>5. ASSUME NEW k \in T PROVE m >= k
  <2>1. n - m <= n - k BY <1>2, <1>3, <1>4
  <2> QED BY <2>1
<1> QED BY <1>5
-----------------------------------------------------------------------------
\* The labels a block is at behind a piece of work.
AfterPfx == {"sync1", "assign", "ended"}
AfterTables == {"pfx"} \cup AfterPfx
AfterGreedy == {"sync0", "tables"} \cup AfterTables
AfterCount == {"greedy"} \cup AfterGreedy
AfterExchange == {"count"} \cup AfterCount
Labels == {"queued", "exchange"} \cup AfterExchange

\* What block b has written when it is at label l, t times round its loop.
CountsBy(b, l, t) ==
    {i \in Chunks : /\ i % plan.token = b
                    /\ \/ l \in AfterCount
                       \/ l = "count" /\ i < b + t * plan.token}
ReplicasBy(b, l, t) ==
    {r \in RanksOf : /\ r % plan.grid = b
                     /\ \/ l \in AfterTables
                        \/ l = "tables" /\ r < b + t * plan.grid}
PrefixesBy(b, l, t) ==
    {e \in Experts : /\ e \div ExpertsPer = b
                     /\ \/ l \in AfterPfx
                        \/ l = "pfx" /\ e < b * ExpertsPer + t}
VtopkBy(b, l, t) ==
    {i \in Chunks : /\ i % plan.token = b
                    /\ \/ l = "ended"
                       \/ l = "assign" /\ i < b + t * plan.token}
WrittenBy(b, l, t) ==
    {p \in {Demand} : b = 0 /\ l \in AfterExchange}
      \cup {p \in {Greedy} : b = 0 /\ l \in AfterGreedy}
      \cup {CountsOf(i) : i \in CountsBy(b, l, t)}
      \cup {ReplicasOf(r) : r \in ReplicasBy(b, l, t)}
      \cup {PrefixOf(e) : e \in PrefixesBy(b, l, t)}
      \cup {VtopkOf(i) : i \in VtopkBy(b, l, t)}

WrittenExactly ==
    written = {w \in Parts \X Blocks :
                  w[1] \in WrittenBy(w[2], pc[w[2]], turn[w[2]])}

PlanFits ==
    /\ shape \in Shapes /\ cores \in Cores
    /\ plan = Plan(shape, cores)

Places ==
    /\ pc \in [Blocks -> Labels] /\ turn \in [Blocks -> Nat]
    /\ \A b \in Blocks : /\ pc[b] \in {"exchange", "greedy"} => b = 0
                         /\ pc[b] = "pfx" => b < plan.pfx

\* Nobody is behind a grid barrier that somebody is before.
Synced ==
    /\ (\E b \in Blocks : pc[b] \in {"tables"} \cup AfterTables)
          => \A x \in Blocks : pc[x] \in AfterGreedy
    /\ (\E b \in Blocks : pc[b] \in {"assign", "ended"})
          => \A x \in Blocks : pc[x] \in AfterPfx

(* The inductive invariant: each block has written exactly what its label   *)
(* and its turn say, and no block is ahead of a grid barrier.               *)
GridInv == PlanFits /\ Places /\ Synced /\ WrittenExactly

-----------------------------------------------------------------------------
\* The largest divisor of a number up to a bound is one.
LEMMA LargestDivides ==
  ASSUME NEW n \in Nat \ {0}, NEW bound \in Nat \ {0}
  PROVE  /\ LargestDivisor(n, bound) \in 1 .. bound
         /\ n % LargestDivisor(n, bound) = 0
<1> DEFINE D == {d \in 1 .. bound : n % d = 0}
<1>1. 1 \in D
  <2>1. n = 1 * n + 0 OBVIOUS
  <2>2. (1 * n + 0) % 1 = 0 BY DivIs
  <2> QED BY <2>1, <2>2
<1>2. D \subseteq 0 .. bound OBVIOUS
<1>3. PICK m \in D : \A k \in D : m >= k
  BY <1>1, <1>2, GreatestElement
<1>4. Max(D) \in D
  BY <1>3 DEF Max
<1> QED BY <1>4 DEF LargestDivisor

\* A positive number and one that divides it: the quotient is positive.
LEMMA DividedEvenly ==
  ASSUME NEW n \in Nat \ {0}, NEW d \in Nat \ {0}, n % d = 0
  PROVE  n \div d \in Nat \ {0} /\ n = d * (n \div d) /\ d <= n
<1>1. n \div d \in Nat /\ n = d * (n \div d)
  BY DivMod
<1>2. n \div d # 0
  BY <1>1
<1>3. PICK k \in Nat : n \div d = 1 + k
  <2> DEFINE q == n \div d
  <2>1. q \in Nat /\ q # 0 BY <1>1, <1>2
  <2> HIDE DEF q
  <2>2. q - 1 \in Nat /\ q = 1 + (q - 1) BY <2>1
  <2> QED BY <2>2 DEF q
<1>4. n = d + d * k /\ d * k \in Nat
  BY <1>1, <1>3
<1> QED BY <1>1, <1>2, <1>4

\* The chunk size divides the rows.
LEMMA ChunkDivides ==
  ASSUME NEW s \in Shapes, NEW n \in Cores
  PROVE  Chunk(s, n) \in Nat \ {0} /\ s.rows % Chunk(s, n) = 0
<1> USE CoresAssumption, BlocksAssumption, Pow2Assumption, ShapesAssumption
<1>1. ResidentBlocks(n) \in Nat \ {0}
  BY DEF ResidentBlocks, Least
<1>2. CeilDiv(s.rows, ResidentBlocks(n)) \in Nat
  <2> DEFINE a == s.rows + ResidentBlocks(n) - 1
  <2>1. a \in Nat BY <1>1
  <2>2. a \div ResidentBlocks(n) \in Nat BY <1>1, <2>1, DivMod
  <2> QED BY <2>2 DEF CeilDiv
<1>3. ChunkWanted(s, n) \in Nat \ {0}
  BY <1>2 DEF ChunkWanted, Greater
<1> DEFINE W == {p \in Pow2 : p >= ChunkWanted(s, n)}
<1>4. W # {} /\ W \in SUBSET Nat
  BY Pow2Suffices
<1>5. PICK m \in W : \A k \in W : m <= k
  BY <1>4, LeastElement
<1>6. ChunkStart(s, n) \in W
  <2>1. Min(W) \in W BY <1>5 DEF Min
  <2> QED BY <2>1 DEF ChunkStart
<1>7. ChunkStart(s, n) \in Nat \ {0}
  BY <1>6
<1> DEFINE C == {p \in Pow2 : p <= ChunkStart(s, n) /\ s.rows % p = 0}
<1>8. 1 \in C
  <2>1. s.rows = 1 * s.rows + 0 OBVIOUS
  <2>2. (1 * s.rows + 0) % 1 = 0 BY DivIs
  <2>3. s.rows % 1 = 0 BY <2>1, <2>2
  <2> QED BY <1>7, <2>3
<1>9. C \subseteq 0 .. ChunkStart(s, n)
  <2>1. \A p \in Pow2 : p \in Nat OBVIOUS
  <2>2. \A p \in C : p \in Nat /\ p <= ChunkStart(s, n) BY <2>1
  <2> HIDE DEF C
  <2> QED BY <1>7, <2>2
<1>10. PICK g \in C : \A k \in C : g >= k
  BY <1>7, <1>8, <1>9, GreatestElement
<1>11. Max(C) \in C
  BY <1>10 DEF Max
<1> QED BY <1>11 DEF Chunk

\* The numbers the host computes fit one another: the token blocks divide the
\* chunks, the prefix blocks the experts, and the grid has all of them.
LEMMA PlanNumbers ==
  ASSUME PlanFits
  PROVE  /\ shape.ranks \in Nat \ {0} /\ shape.experts \in Nat \ {0}
         /\ plan.chunks \in Nat \ {0} /\ plan.token \in Nat \ {0}
         /\ plan.pfx \in Nat \ {0} /\ plan.grid \in Nat \ {0}
         /\ plan.token <= plan.grid /\ plan.pfx <= plan.grid
         /\ plan.chunks \div plan.token \in Nat
         /\ plan.chunks = plan.token * (plan.chunks \div plan.token)
         /\ ExpertsPer \in Nat \ {0}
         /\ shape.experts = plan.pfx * ExpertsPer
<1> USE CoresAssumption, BlocksAssumption, ShapesAssumption
<1>0. shape \in Shapes /\ cores \in Cores /\ plan = Plan(shape, cores)
  BY DEF PlanFits
<1>1. shape.rows \in Nat \ {0} /\ shape.ranks \in Nat \ {0}
      /\ shape.experts \in Nat \ {0}
  BY <1>0
<1>2. ResidentBlocks(cores) \in Nat \ {0}
  BY <1>0 DEF ResidentBlocks, Least
<1>3. NumChunks(shape, cores) \in Nat \ {0}
  BY <1>0, <1>1, ChunkDivides, DividedEvenly DEF NumChunks
<1>4. /\ TokenBlocks(shape, cores) \in 1 .. ResidentBlocks(cores)
      /\ NumChunks(shape, cores) % TokenBlocks(shape, cores) = 0
  <2> DEFINE bd == Least(NumChunks(shape, cores), ResidentBlocks(cores))
  <2>1. bd \in Nat \ {0} /\ bd <= ResidentBlocks(cores)
    BY <1>2, <1>3 DEF Least
  <2> HIDE DEF bd
  <2>2. /\ LargestDivisor(NumChunks(shape, cores), bd) \in 1 .. bd
        /\ NumChunks(shape, cores)
             % LargestDivisor(NumChunks(shape, cores), bd) = 0
    BY <1>3, <2>1, LargestDivides
  <2>3. TokenBlocks(shape, cores) = LargestDivisor(NumChunks(shape, cores), bd)
    BY DEF TokenBlocks, bd
  <2> QED BY <1>2, <2>1, <2>2, <2>3
<1>5. /\ PfxBlocks(shape, cores) \in 1 .. ResidentBlocks(cores)
      /\ shape.experts % PfxBlocks(shape, cores) = 0
  <2> DEFINE bd == Least(shape.experts, ResidentBlocks(cores))
  <2>1. bd \in Nat \ {0} /\ bd <= ResidentBlocks(cores)
    BY <1>1, <1>2 DEF Least
  <2> HIDE DEF bd
  <2>2. /\ LargestDivisor(shape.experts, bd) \in 1 .. bd
        /\ shape.experts % LargestDivisor(shape.experts, bd) = 0
    BY <1>1, <2>1, LargestDivides
  <2>3. PfxBlocks(shape, cores) = LargestDivisor(shape.experts, bd)
    BY DEF PfxBlocks, bd
  <2> QED BY <1>2, <2>1, <2>2, <2>3
<1>6. /\ plan.chunks = NumChunks(shape, cores)
      /\ plan.token = TokenBlocks(shape, cores)
      /\ plan.pfx = PfxBlocks(shape, cores)
      /\ plan.grid = Least(Greater(plan.token, plan.pfx),
                           ResidentBlocks(cores))
  BY <1>0 DEF Plan, Grid
<1>7. /\ plan.grid \in Nat \ {0} /\ plan.token \in Nat \ {0}
      /\ plan.pfx \in Nat \ {0}
      /\ plan.token <= plan.grid /\ plan.pfx <= plan.grid
  BY <1>2, <1>4, <1>5, <1>6 DEF Least, Greater
<1>8. /\ plan.chunks \div plan.token \in Nat
      /\ plan.chunks = plan.token * (plan.chunks \div plan.token)
  BY <1>3, <1>4, <1>6, <1>7, DividedEvenly
<1>9. /\ ExpertsPer \in Nat \ {0}
      /\ shape.experts = plan.pfx * ExpertsPer
  BY <1>1, <1>5, <1>6, <1>7, DividedEvenly DEF ExpertsPer
<1> QED BY <1>1, <1>3, <1>6, <1>7, <1>8, <1>9

-----------------------------------------------------------------------------
\* The numbers below that share a remainder: one more turn adds one of them.
LEMMA OneMoreTurn ==
  ASSUME NEW d \in Nat \ {0}, NEW b \in 0 .. d - 1, NEW t \in Nat
  PROVE  /\ (b + t * d) % d = b /\ b + t * d \in Nat
         /\ \A i \in Nat : i % d = b =>
              /\ i >= b
              /\ i < b + (t + 1) * d <=> i < b + t * d \/ i = b + t * d
<1>1. b + t * d = d * t + b /\ d * t \in Nat
  OBVIOUS
<1>2. (d * t + b) % d = b
  BY DivIs
<1>3. ASSUME NEW i \in Nat, i % d = b
      PROVE  /\ i >= b
             /\ i < b + (t + 1) * d <=> i < b + t * d \/ i = b + t * d
  <2>1. PICK q \in Nat : i = d * q + b
    BY <1>3, DivMod
  <2>2. d * q \in Nat /\ (t + 1) * d = d * t + d
    BY <2>1
  <2>3. CASE q <= t
    <3>1. PICK k \in Nat : t = q + k
      <4> t - q \in Nat /\ t = q + (t - q) BY <2>3
      <4> QED OBVIOUS
    <3>2. d * t = d * q + d * k /\ d * k \in Nat
      BY <3>1
    <3>3. k = 0 => d * k = 0
      OBVIOUS
    <3>4. k # 0 => d * k > 0
      OBVIOUS
    <3> QED BY <1>1, <2>1, <2>2, <3>1, <3>2, <3>3, <3>4
  <2>4. CASE q > t
    <3>1. PICK k \in Nat : q = t + 1 + k
      <4> q - t - 1 \in Nat /\ q = t + 1 + (q - t - 1) BY <2>4
      <4> QED OBVIOUS
    <3>2. d * q = d * t + d + d * k /\ d * k \in Nat
      BY <3>1
    <3> QED BY <1>1, <2>1, <2>2, <3>2
  <2> QED BY <2>3, <2>4
<1> QED BY <1>1, <1>2, <1>3

\* A product grows with its factors.
LEMMA TurnsFit ==
  ASSUME NEW d \in Nat \ {0}, NEW b \in 0 .. d - 1, NEW t \in Nat, NEW n \in Nat
  PROVE  /\ t < n => b + t * d < d * n
         /\ t >= n => d * n <= b + t * d
<1>1. ASSUME t < n PROVE b + t * d < d * n
  <2>1. PICK k \in Nat : n = t + 1 + k
    <3> n - t - 1 \in Nat /\ n = t + 1 + (n - t - 1) BY <1>1
    <3> QED OBVIOUS
  <2>2. d * n = d * t + d + d * k /\ d * k \in Nat /\ t * d = d * t
    BY <2>1
  <2> QED BY <2>2
<1>2. ASSUME t >= n PROVE d * n <= b + t * d
  <2>1. PICK k \in Nat : t = n + k
    <3> t - n \in Nat /\ t = n + (t - n) BY <1>2
    <3> QED OBVIOUS
  <2>2. t * d = d * n + d * k /\ d * k \in Nat
    BY <2>1
  <2> QED BY <2>2
<1> QED BY <1>1, <1>2

-----------------------------------------------------------------------------
\* The blocks of the launch hold the token and the prefix blocks, and every
\* part of a table has one block whose work it is.
LEMMA Owners ==
  ASSUME PlanFits
  PROVE  /\ 0 \in Blocks
         /\ \A i \in Chunks : i % plan.token \in Blocks
         /\ \A r \in RanksOf : r % plan.grid \in Blocks
         /\ \A e \in Experts : /\ e \div ExpertsPer \in 0 .. plan.pfx - 1
                               /\ e \div ExpertsPer \in Blocks
<1>1. /\ plan.chunks \in Nat \ {0} /\ plan.token \in Nat \ {0}
      /\ plan.pfx \in Nat \ {0} /\ plan.grid \in Nat \ {0}
      /\ plan.token <= plan.grid /\ plan.pfx <= plan.grid
      /\ ExpertsPer \in Nat \ {0} /\ shape.experts = plan.pfx * ExpertsPer
      /\ shape.ranks \in Nat \ {0} /\ shape.experts \in Nat \ {0}
  BY PlanNumbers
<1>2. ASSUME NEW i \in Chunks PROVE i % plan.token \in 0 .. plan.token - 1
  <2>1. i \in Nat BY <1>1 DEF Chunks
  <2>2. plan.token \in Nat \ {0} BY <1>1
  <2> QED BY <2>1, <2>2, DivMod
<1>3. ASSUME NEW r \in RanksOf PROVE r % plan.grid \in 0 .. plan.grid - 1
  <2>1. r \in Nat BY <1>1 DEF RanksOf
  <2>2. plan.grid \in Nat \ {0} BY <1>1
  <2> QED BY <2>1, <2>2, DivMod
<1>4. ASSUME NEW e \in Experts PROVE e \div ExpertsPer \in 0 .. plan.pfx - 1
  <2> DEFINE q == e \div ExpertsPer
  <2>1. /\ e \in Nat /\ e < shape.experts /\ q \in Nat
        /\ e >= ExpertsPer * q
    <3>1. e \in Nat /\ e < shape.experts
      BY <1>1 DEF Experts
    <3>2. q \in Nat /\ e % ExpertsPer \in Nat
          /\ e = ExpertsPer * q + (e % ExpertsPer)
      <4>1. e \in Nat /\ ExpertsPer \in Nat \ {0}
        BY <1>1, <3>1
      <4>2. e \div ExpertsPer \in Nat /\ e % ExpertsPer \in 0 .. ExpertsPer - 1
        BY <4>1, DivMod
      <4>3. e = ExpertsPer * (e \div ExpertsPer) + (e % ExpertsPer)
        BY <4>1, DivMod
      <4> QED BY <4>1, <4>2, <4>3
    <3> HIDE DEF q
    <3>3. ExpertsPer * q \in Nat
      BY <1>1, <3>2
    <3> QED BY <3>1, <3>2, <3>3
  <2> HIDE DEF q
  <2>2. ASSUME q >= plan.pfx PROVE FALSE
    <3>1. 0 \in 0 .. ExpertsPer - 1
      BY <1>1
    <3>2. ExpertsPer * plan.pfx <= 0 + q * ExpertsPer
      BY <1>1, <2>1, <2>2, <3>1, TurnsFit
    <3> QED BY <1>1, <2>1, <3>2
  <2>3. q \in 0 .. plan.pfx - 1
    BY <1>1, <2>1, <2>2
  <2> QED BY <2>3 DEF q
<1> QED BY <1>1, <1>2, <1>3, <1>4 DEF Blocks

-----------------------------------------------------------------------------
\* A block that has not begun a loop has none of its parts, each round adds
\* one, and when the loop has ended it has them all.  The chunks of a token
\* block in the first phase:
LEMMA CountsInLoop ==
  ASSUME PlanFits, NEW b \in Blocks, NEW t \in Nat
  PROVE  /\ CountsBy(b, "count", 0) = {}
         /\ b < plan.token /\ t < plan.chunks \div plan.token =>
              /\ b + t * plan.token \in Chunks
              /\ CountsBy(b, "count", t + 1)
                   = CountsBy(b, "count", t) \cup {b + t * plan.token}
         /\ ~(b < plan.token /\ t < plan.chunks \div plan.token) =>
              \A l \in AfterCount : CountsBy(b, l, 0) = CountsBy(b, "count", t)
<1> DEFINE d == plan.token
           n == plan.chunks \div plan.token
<1>1. /\ d \in Nat \ {0} /\ n \in Nat /\ plan.chunks \in Nat
      /\ plan.chunks = d * n /\ plan.grid \in Nat
  BY PlanNumbers
<1>2. b \in Nat
  BY <1>1 DEF Blocks
<1>3. \A i \in Chunks : i \in Nat /\ i < plan.chunks /\ i % d \in 0 .. d - 1
  <2> TAKE i \in Chunks
  <2>1. i \in Nat /\ i < plan.chunks BY <1>1 DEF Chunks
  <2> HIDE DEF d
  <2>2. i % d \in 0 .. d - 1 BY <1>1, <2>1, DivMod
  <2> QED BY <2>1, <2>2
<1>4. \A l, u : CountsBy(b, l, u) =
                {i \in Chunks : /\ i % d = b
                                /\ \/ l \in AfterCount
                                   \/ l = "count" /\ i < b + u * d}
  BY DEF CountsBy
<1>5. "count" \notin AfterCount
  BY DEF AfterCount, AfterGreedy, AfterTables, AfterPfx
<1> DEFINE Cs(u) == {i \in Chunks : i % d = b /\ i < b + u * d}
<1>6. \A u : CountsBy(b, "count", u) = Cs(u)
  BY <1>4, <1>5
<1>7. \A l \in AfterCount : \A u : CountsBy(b, l, u) = {i \in Chunks : i % d = b}
  BY <1>4
<1> HIDE DEF d, n
<1>8. CASE b < d
  <2>1. b \in 0 .. d - 1
    BY <1>1, <1>2, <1>8
  <2>2. /\ (b + t * d) % d = b /\ b + t * d \in Nat
        /\ \A i \in Nat : i % d = b =>
             /\ i >= b
             /\ i < b + (t + 1) * d <=> i < b + t * d \/ i = b + t * d
    BY <1>1, <2>1, OneMoreTurn
  <2>3. /\ t < n => b + t * d < d * n
        /\ t >= n => d * n <= b + t * d
    BY <1>1, <2>1, TurnsFit
  <2>4. Cs(0) = {}
    <3>1. b + 0 * d = b BY <1>1, <1>2
    <3> QED BY <1>1, <1>2, <1>3, <2>2, <3>1
  <2>5. ASSUME t < n
        PROVE  b + t * d \in Chunks /\ Cs(t + 1) = Cs(t) \cup {b + t * d}
    <3>1. b + t * d \in Chunks
      BY <1>1, <2>2, <2>3, <2>5 DEF Chunks
    <3>2. \A i \in Chunks : i % d = b =>
             (i < b + (t + 1) * d <=> i < b + t * d \/ i = b + t * d)
      BY <1>3, <2>2
    <3> QED BY <2>2, <3>1, <3>2
  <2>6. ASSUME ~(t < n) PROVE Cs(t) = {i \in Chunks : i % d = b}
    <3>1. \A i \in Chunks : i < b + t * d
      BY <1>1, <1>2, <1>3, <2>2, <2>3, <2>6
    <3> QED BY <3>1
  <2> HIDE DEF Cs
  <2> QED BY <1>6, <1>7, <1>8, <2>4, <2>5, <2>6 DEF d, n
<1>9. CASE ~(b < d)
  <2>1. \A i \in Chunks : i % d # b
    BY <1>1, <1>2, <1>3, <1>9
  <2>2. (\A u : Cs(u) = {}) /\ {i \in Chunks : i % d = b} = {}
    BY <2>1
  <2> HIDE DEF Cs
  <2> QED BY <1>6, <1>7, <1>9, <2>2 DEF d, n
<1> QED BY <1>8, <1>9

\* and in the last:
LEMMA VtopkInLoop ==
  ASSUME PlanFits, NEW b \in Blocks, NEW t \in Nat
  PROVE  /\ VtopkBy(b, "assign", 0) = {}
         /\ b < plan.token /\ t < plan.chunks \div plan.token =>
              /\ b + t * plan.token \in Chunks
              /\ VtopkBy(b, "assign", t + 1)
                   = VtopkBy(b, "assign", t) \cup {b + t * plan.token}
         /\ ~(b < plan.token /\ t < plan.chunks \div plan.token) =>
              VtopkBy(b, "ended", 0) = VtopkBy(b, "assign", t)
<1>1. \A u : VtopkBy(b, "assign", u) = CountsBy(b, "count", u)
  BY DEF VtopkBy, CountsBy, AfterCount, AfterGreedy, AfterTables, AfterPfx
<1>2. "ended" \in AfterCount /\ VtopkBy(b, "ended", 0) = CountsBy(b, "ended", 0)
  BY DEF VtopkBy, CountsBy, AfterCount, AfterGreedy, AfterTables, AfterPfx
<1> QED BY <1>1, <1>2, CountsInLoop

\* The ranks whose replica tables a block fills:
LEMMA ReplicasInLoop ==
  ASSUME PlanFits, NEW b \in Blocks, NEW t \in Nat
  PROVE  /\ ReplicasBy(b, "tables", 0) = {}
         /\ b + t * plan.grid < shape.ranks =>
              /\ b + t * plan.grid \in RanksOf
              /\ ReplicasBy(b, "tables", t + 1)
                   = ReplicasBy(b, "tables", t) \cup {b + t * plan.grid}
         /\ b + t * plan.grid >= shape.ranks =>
              \A l \in AfterTables :
                 ReplicasBy(b, l, 0) = ReplicasBy(b, "tables", t)
<1> DEFINE d == plan.grid
<1>1. d \in Nat \ {0} /\ shape.ranks \in Nat
  BY PlanNumbers
<1>2. b \in 0 .. d - 1
  BY DEF Blocks
<1>3. \A r \in RanksOf : r \in Nat /\ r < shape.ranks
  BY <1>1 DEF RanksOf
<1>5. "tables" \notin AfterTables
  BY DEF AfterTables, AfterPfx
<1> DEFINE Rs(u) == {r \in RanksOf : r % d = b /\ r < b + u * d}
<1>6. \A u : ReplicasBy(b, "tables", u) = Rs(u)
  BY <1>5 DEF ReplicasBy
<1>7. \A l \in AfterTables : \A u : ReplicasBy(b, l, u) = {r \in RanksOf : r % d = b}
  BY DEF ReplicasBy
<1> HIDE DEF d
<1>8. /\ (b + t * d) % d = b /\ b + t * d \in Nat
      /\ \A i \in Nat : i % d = b =>
           /\ i >= b
           /\ i < b + (t + 1) * d <=> i < b + t * d \/ i = b + t * d
  BY <1>1, <1>2, OneMoreTurn
<1>9. Rs(0) = {}
  <2>1. b + 0 * d = b BY <1>1, <1>2
  <2> QED BY <1>1, <1>2, <1>3, <1>8, <2>1
<1>10. ASSUME b + t * d < shape.ranks
       PROVE  b + t * d \in RanksOf /\ Rs(t + 1) = Rs(t) \cup {b + t * d}
  <2>1. b + t * d \in RanksOf
    BY <1>1, <1>8, <1>10 DEF RanksOf
  <2>2. \A i \in RanksOf : i % d = b =>
           (i < b + (t + 1) * d <=> i < b + t * d \/ i = b + t * d)
    BY <1>3, <1>8
  <2> QED BY <1>8, <2>1, <2>2
<1>11. ASSUME b + t * d >= shape.ranks
       PROVE  Rs(t) = {r \in RanksOf : r % d = b}
  <2>1. \A i \in RanksOf : i < b + t * d
    BY <1>1, <1>3, <1>8, <1>11
  <2> QED BY <2>1
<1> HIDE DEF Rs
<1> QED BY <1>6, <1>7, <1>9, <1>10, <1>11 DEF d

\* The experts whose prefix rows a block of the first plan.pfx fills:
LEMMA PrefixesInLoop ==
  ASSUME PlanFits, NEW b \in Blocks, NEW t \in Nat
  PROVE  /\ PrefixesBy(b, "pfx", 0) = {}
         /\ b < plan.pfx /\ t < ExpertsPer =>
              /\ b * ExpertsPer + t \in Experts
              /\ PrefixesBy(b, "pfx", t + 1)
                   = PrefixesBy(b, "pfx", t) \cup {b * ExpertsPer + t}
         /\ \A l \in AfterPfx :
              /\ PrefixesBy(b, l, 0) = PrefixesBy(b, "pfx", ExpertsPer)
              /\ b >= plan.pfx => PrefixesBy(b, l, 0) = {}
<1> DEFINE d == ExpertsPer
<1>1. /\ d \in Nat \ {0} /\ plan.pfx \in Nat \ {0} /\ plan.grid \in Nat
      /\ shape.experts \in Nat /\ shape.experts = plan.pfx * d
  BY PlanNumbers
<1>2. b \in Nat
  BY <1>1 DEF Blocks
<1> HIDE DEF d
<1>3. b * d \in Nat /\ b * d = d * b
  BY <1>1, <1>2
<1>4. \A e \in Experts : e \in Nat /\ e < shape.experts /\ e \div d < plan.pfx
  <2>1. \A e \in Experts : e \in Nat /\ e < shape.experts
    BY <1>1 DEF Experts
  <2>2. \A e \in Experts : e \div ExpertsPer \in 0 .. plan.pfx - 1
    BY Owners
  <2> QED BY <1>1, <2>1, <2>2 DEF d
<1>5. \A e \in Experts : e \div d = b => b * d <= e /\ e < b * d + d
  <2> TAKE e \in Experts
  <2>1. e \in Nat BY <1>4
  <2>2. e % d \in 0 .. d - 1 /\ e = d * (e \div d) + (e % d)
    BY <1>1, <2>1, DivMod
  <2> DEFINE m == e % d
  <2>3. e \div d = b => e = d * b + m
    BY <2>2
  <2> HIDE DEF m
  <2>4. m \in 0 .. d - 1
    BY <2>2 DEF m
  <2> QED BY <1>1, <1>3, <2>1, <2>3, <2>4
<1>6. "pfx" \notin AfterPfx
  BY DEF AfterPfx
<1> DEFINE Es(u) == {e \in Experts : e \div d = b /\ e < b * d + u}
<1>7. \A u : PrefixesBy(b, "pfx", u) = Es(u)
  BY <1>6 DEF PrefixesBy, d
<1>8. \A l \in AfterPfx : \A u :
         PrefixesBy(b, l, u) = {e \in Experts : e \div d = b}
  BY DEF PrefixesBy, d
<1>9. Es(0) = {}
  BY <1>3, <1>4, <1>5
<1>10. ASSUME b < plan.pfx, t < d
       PROVE  b * d + t \in Experts /\ Es(t + 1) = Es(t) \cup {b * d + t}
  <2>1. t \in 0 .. d - 1
    BY <1>1, <1>10
  <2>2. (d * b + t) \div d = b
    BY <1>1, <1>2, <2>1, DivIs
  <2>3. b * d + t < shape.experts
    <3>1. PICK k \in Nat : plan.pfx = b + 1 + k
      <4> plan.pfx - b - 1 \in Nat /\ plan.pfx = b + 1 + (plan.pfx - b - 1)
        BY <1>1, <1>2, <1>10
      <4> QED OBVIOUS
    <3>2. plan.pfx * d = b * d + d + k * d /\ k * d \in Nat
      BY <1>1, <1>2, <3>1
    <3> QED BY <1>1, <1>3, <1>10, <3>2
  <2>4. b * d + t \in Experts
    BY <1>1, <1>3, <2>3 DEF Experts
  <2>5. \A e \in Experts : e < b * d + (t + 1) <=> e < b * d + t \/ e = b * d + t
    BY <1>3, <1>4
  <2>6. (b * d + t) \div d = b
    BY <1>3, <2>2
  <2> QED BY <2>4, <2>5, <2>6
<1>11. Es(d) = {e \in Experts : e \div d = b}
  BY <1>5
<1>12. b >= plan.pfx => {e \in Experts : e \div d = b} = {}
  BY <1>1, <1>2, <1>4
<1> HIDE DEF Es
<1> QED BY <1>7, <1>8, <1>9, <1>10, <1>11, <1>12 DEF d

-----------------------------------------------------------------------------
\* A step of block b to label l and round t that writes what WrittenBy gains,
\* keeps the books of the writing; the other blocks stay where they are.
StepOf(b, l, t) ==
    /\ pc' = [pc EXCEPT ![b] = l] /\ turn' = [turn EXCEPT ![b] = t]
    /\ UNCHANGED <<shape, cores, plan>>

\* Such a step leaves the plan and what its numbers define.
LEMMA StepKeepsPlan ==
  ASSUME NEW b \in Blocks, NEW l, NEW t, StepOf(b, l, t), Places
  PROVE  /\ Blocks' = Blocks /\ Parts' = Parts
         /\ PlanFits => PlanFits'
         /\ \A x, m, u : WrittenBy(x, m, u)' = WrittenBy(x, m, u)
         /\ pc'[b] = l /\ turn'[b] = t
         /\ \A x \in Blocks : x # b => pc'[x] = pc[x] /\ turn'[x] = turn[x]
<1>1. shape' = shape /\ cores' = cores /\ plan' = plan
  BY DEF StepOf
<1>2. Chunks' = Chunks /\ Experts' = Experts /\ RanksOf' = RanksOf
      /\ Blocks' = Blocks /\ ExpertsPer' = ExpertsPer
  BY <1>1 DEF Chunks, Experts, RanksOf, Blocks, ExpertsPer
<1>3. Parts' = Parts
  BY <1>2 DEF Parts
<1>4. PlanFits => PlanFits'
  BY <1>1 DEF PlanFits
<1>5. \A x, m, u : /\ CountsBy(x, m, u)' = CountsBy(x, m, u)
                   /\ ReplicasBy(x, m, u)' = ReplicasBy(x, m, u)
                   /\ PrefixesBy(x, m, u)' = PrefixesBy(x, m, u)
                   /\ VtopkBy(x, m, u)' = VtopkBy(x, m, u)
  BY <1>1, <1>2 DEF CountsBy, ReplicasBy, PrefixesBy, VtopkBy
<1>6. \A x, m, u : WrittenBy(x, m, u)' = WrittenBy(x, m, u)
  BY <1>5 DEF WrittenBy
<1>7. pc'[b] = l /\ turn'[b] = t
      /\ \A x \in Blocks : x # b => pc'[x] = pc[x] /\ turn'[x] = turn[x]
  BY DEF StepOf, Places
<1> QED BY <1>2, <1>3, <1>4, <1>6, <1>7

\* A step that writes nothing: what the block has written stays the same.
LEMMA QuietStep ==
  ASSUME Places, WrittenExactly, NEW b \in Blocks, NEW l, NEW t,
         StepOf(b, l, t), written' = written,
         WrittenBy(b, l, t) = WrittenBy(b, pc[b], turn[b])
  PROVE  WrittenExactly'
<1>1. /\ Blocks' = Blocks /\ Parts' = Parts
      /\ \A x, m, u : WrittenBy(x, m, u)' = WrittenBy(x, m, u)
      /\ pc'[b] = l /\ turn'[b] = t
      /\ \A x \in Blocks : x # b => pc'[x] = pc[x] /\ turn'[x] = turn[x]
  BY StepKeepsPlan
<1>2. \A x \in Blocks :
         WrittenBy(x, pc'[x], turn'[x]) = WrittenBy(x, pc[x], turn[x])
  BY <1>1
<1>3. \A x \in Blocks :
         WrittenBy(x, pc[x], turn[x])' = WrittenBy(x, pc[x], turn[x])
  <2>1. \A x : WrittenBy(x, pc[x], turn[x])' = WrittenBy(x, pc'[x], turn'[x])
    BY <1>1
  <2> QED BY <1>2, <2>1
<1> QED BY <1>1, <1>3 DEF WrittenExactly

\* A step that writes one part, which is then among those of the block.
LEMMA WritingStep ==
  ASSUME Places, WrittenExactly, NEW b \in Blocks, NEW l, NEW t, NEW p \in Parts,
         StepOf(b, l, t), written' = written \cup {<<p, b>>},
         WrittenBy(b, l, t) = WrittenBy(b, pc[b], turn[b]) \cup {p}
  PROVE  WrittenExactly'
<1>1. /\ Blocks' = Blocks /\ Parts' = Parts
      /\ \A x, m, u : WrittenBy(x, m, u)' = WrittenBy(x, m, u)
      /\ pc'[b] = l /\ turn'[b] = t
      /\ \A x \in Blocks : x # b => pc'[x] = pc[x] /\ turn'[x] = turn[x]
  BY StepKeepsPlan
<1>2. /\ \A x \in Blocks : x # b =>
           WrittenBy(x, pc'[x], turn'[x]) = WrittenBy(x, pc[x], turn[x])
      /\ WrittenBy(b, pc'[b], turn'[b]) = WrittenBy(b, pc[b], turn[b]) \cup {p}
  BY <1>1
<1>3. \A x : WrittenBy(x, pc[x], turn[x])' = WrittenBy(x, pc'[x], turn'[x])
  BY <1>1
<1> DEFINE Old == {w \in Parts \X Blocks :
                      w[1] \in WrittenBy(w[2], pc[w[2]], turn[w[2]])}
           New == {w \in Parts \X Blocks :
                      w[1] \in WrittenBy(w[2], pc'[w[2]], turn'[w[2]])}
<1>4. New = Old \cup {<<p, b>>}
  <2>1. \A q \in Parts, x \in Blocks :
           <<q, x>> \in New <=> <<q, x>> \in Old \/ (q = p /\ x = b)
    BY <1>2
  <2>2. New \subseteq Parts \X Blocks /\ Old \subseteq Parts \X Blocks
        /\ <<p, b>> \in Parts \X Blocks
    OBVIOUS
  <2> HIDE DEF New, Old
  <2>3. \A q \in Parts, x \in Blocks : <<q, x>> = <<p, b>> <=> q = p /\ x = b
    OBVIOUS
  <2>4. \A w \in Parts \X Blocks : w \in New <=> w \in Old \cup {<<p, b>>}
    BY <2>1, <2>3
  <2> QED BY <2>2, <2>4
<1>5. written = Old
  BY DEF WrittenExactly
<1>6. {w \in Parts \X Blocks :
          w[1] \in WrittenBy(w[2], pc[w[2]], turn[w[2]])}' = New
  BY <1>1, <1>3
<1> QED BY <1>4, <1>5, <1>6 DEF WrittenExactly

\* A step over no grid barrier keeps everybody on the sides they are on.
LEMMA SyncedStep ==
  ASSUME Places, Synced, NEW b \in Blocks, NEW l, NEW t, StepOf(b, l, t),
         \A S \in {{"tables"} \cup AfterTables, AfterGreedy,
                   {"assign", "ended"}, AfterPfx} :
            /\ pc[b] \in S => l \in S
            /\ l \in S => pc[b] \in S \/ S \in {AfterGreedy, AfterPfx}
  PROVE  Synced'
<1>1. /\ Blocks' = Blocks /\ pc'[b] = l
      /\ \A x \in Blocks : x # b => pc'[x] = pc[x]
  BY StepKeepsPlan
<1>2. ({"tables"} \cup AfterTables) \notin {AfterGreedy, AfterPfx}
      /\ {"assign", "ended"} \notin {AfterGreedy, AfterPfx}
  <2>1. "tables" \in {"tables"} \cup AfterTables /\ "tables" \notin AfterPfx
        /\ "sync0" \in AfterGreedy /\ "sync0" \notin {"tables"} \cup AfterTables
        /\ "sync1" \in AfterPfx /\ "sync1" \in AfterGreedy
        /\ "sync1" \notin {"assign", "ended"}
    BY DEF AfterGreedy, AfterTables, AfterPfx
  <2> QED BY <2>1
<1>3. \A S \in {{"tables"} \cup AfterTables, {"assign", "ended"}} :
         (\E x \in Blocks : pc'[x] \in S) => \E x \in Blocks : pc[x] \in S
  BY <1>1, <1>2
<1>4. \A S \in {AfterGreedy, AfterPfx} :
         (\A x \in Blocks : pc[x] \in S) => \A x \in Blocks : pc'[x] \in S
  BY <1>1
<1> QED BY <1>1, <1>3, <1>4 DEF Synced

\* The label alone says what a block has of a table whose loop it is not in:
\* nothing before the loop, everything after it.
LEMMA OutsideLoops ==
  ASSUME NEW b, NEW l, NEW t
  PROVE  /\ l \in AfterCount => CountsBy(b, l, t) = CountsBy(b, "ended", 0)
         /\ l \notin AfterCount \cup {"count"} => CountsBy(b, l, t) = {}
         /\ l \in AfterTables => ReplicasBy(b, l, t) = ReplicasBy(b, "ended", 0)
         /\ l \notin AfterTables \cup {"tables"} => ReplicasBy(b, l, t) = {}
         /\ l \in AfterPfx => PrefixesBy(b, l, t) = PrefixesBy(b, "ended", 0)
         /\ l \notin AfterPfx \cup {"pfx"} => PrefixesBy(b, l, t) = {}
         /\ l \notin {"assign", "ended"} => VtopkBy(b, l, t) = {}
<1>1. "ended" \in AfterPfx /\ "ended" \in AfterTables /\ "ended" \in AfterCount
  BY DEF AfterCount, AfterGreedy, AfterTables, AfterPfx
<1> QED BY <1>1 DEF CountsBy, ReplicasBy, PrefixesBy, VtopkBy

\* A block has its parts from what it has of each of the tables.
LEMMA SameParts ==
  ASSUME NEW b, NEW l, NEW t, NEW m, NEW u,
         b = 0 => (l \in AfterExchange <=> m \in AfterExchange),
         b = 0 => (l \in AfterGreedy <=> m \in AfterGreedy),
         CountsBy(b, l, t) = CountsBy(b, m, u),
         ReplicasBy(b, l, t) = ReplicasBy(b, m, u),
         PrefixesBy(b, l, t) = PrefixesBy(b, m, u),
         VtopkBy(b, l, t) = VtopkBy(b, m, u)
  PROVE  WrittenBy(b, l, t) = WrittenBy(b, m, u)
BY DEF WrittenBy

\* A step to a label it may have keeps the places.
LEMMA PlacesStep ==
  ASSUME Places, NEW b \in Blocks, NEW l \in Labels, NEW t \in Nat,
         StepOf(b, l, t),
         l \in {"exchange", "greedy"} => b = 0,
         l = "pfx" => b < plan.pfx
  PROVE  Places'
<1>1. /\ Blocks' = Blocks /\ pc'[b] = l
      /\ \A x \in Blocks : x # b => pc'[x] = pc[x]
  BY StepKeepsPlan
<1>2. plan' = plan
  BY DEF StepOf
<1>3. pc' \in [Blocks -> Labels] /\ turn' \in [Blocks -> Nat]
  BY DEF StepOf, Places
<1>4. \A x \in Blocks : /\ pc'[x] \in {"exchange", "greedy"} => x = 0
                        /\ pc'[x] = "pfx" => x < plan.pfx
  BY <1>1 DEF Places
<1> QED BY <1>1, <1>2, <1>3, <1>4 DEF Places

\* Going to a label, and one more round, are steps of a block.
LEMMA GotoIsStep ==
  ASSUME Places, NEW b \in Blocks, UNCHANGED <<shape, cores, plan>>
  PROVE  /\ \A l : Goto(b, l) => StepOf(b, l, 0)
         /\ Round(b) => StepOf(b, pc[b], turn[b] + 1)
<1>1. pc = [pc EXCEPT ![b] = pc[b]]
  BY DEF Places
<1> QED BY <1>1 DEF Goto, Round, StepOf

-----------------------------------------------------------------------------
\* Label m is on the same side of both grid barriers as label l.
SameSide(l, m) ==
    \A S \in {{"tables"} \cup AfterTables, AfterGreedy,
              {"assign", "ended"}, AfterPfx} :
       /\ l \in S => m \in S
       /\ m \in S => l \in S \/ S \in {AfterGreedy, AfterPfx}

\* A step that writes nothing, one that writes a part.
LEMMA QuietKeeps ==
  ASSUME GridInv, NEW b \in Blocks, NEW l \in Labels, NEW t \in Nat,
         StepOf(b, l, t), written' = written,
         l \in {"exchange", "greedy"} => b = 0,
         l = "pfx" => b < plan.pfx,
         SameSide(pc[b], l),
         WrittenBy(b, l, t) = WrittenBy(b, pc[b], turn[b])
  PROVE  GridInv'
<1> USE DEF GridInv
<1>1. Places'
  BY PlacesStep
<1>2. Synced'
  BY SyncedStep DEF SameSide
<1>3. PlanFits'
  BY StepKeepsPlan
<1>4. WrittenExactly'
  BY QuietStep
<1> QED BY <1>1, <1>2, <1>3, <1>4

\* A step that writes a part.
LEMMA WritingKeeps ==
  ASSUME GridInv, NEW b \in Blocks, NEW l \in Labels, NEW t \in Nat,
         NEW p \in Parts,
         StepOf(b, l, t), written' = written \cup {<<p, b>>},
         l \in {"exchange", "greedy"} => b = 0,
         l = "pfx" => b < plan.pfx,
         SameSide(pc[b], l),
         WrittenBy(b, l, t) = WrittenBy(b, pc[b], turn[b]) \cup {p}
  PROVE  GridInv'
<1> USE DEF GridInv
<1>1. Places'
  BY PlacesStep
<1>2. Synced'
  BY SyncedStep DEF SameSide
<1>3. PlanFits'
  BY StepKeepsPlan
<1>4. WrittenExactly'
  BY WritingStep
<1> QED BY <1>1, <1>2, <1>3, <1>4

-----------------------------------------------------------------------------
\* The actions one by one.  A block that gets a core has nothing yet.
LEMMA ScheduleKeeps ==
  ASSUME GridInv, NEW b \in Blocks, Schedule(b)
  PROVE  GridInv'
<1> DEFINE l == IF b = 0 THEN "exchange" ELSE "count"
<1>1. pc[b] = "queued" /\ StepOf(b, l, 0) /\ written' = written
  BY GotoIsStep DEF Schedule, GridInv
<1>2. CountsBy(b, "count", 0) = {}
  BY CountsInLoop DEF GridInv
<1>3. /\ l \notin AfterCount /\ l \notin AfterGreedy
      /\ l \notin {"tables"} \cup AfterTables /\ l \notin {"pfx"} \cup AfterPfx
      /\ l \notin {"assign", "ended"}
      /\ (b = 0 => l \notin AfterExchange)
      /\ "queued" \notin AfterExchange
      /\ "queued" \notin AfterCount \cup {"count"}
      /\ "queued" \notin AfterGreedy
      /\ "queued" \notin {"tables"} \cup AfterTables
      /\ "queued" \notin {"pfx"} \cup AfterPfx
      /\ "queued" \notin {"assign", "ended"}
      /\ l \in Labels /\ (l \in {"exchange", "greedy"} => b = 0) /\ l # "pfx"
  BY DEF Labels, AfterExchange, AfterCount, AfterGreedy, AfterTables, AfterPfx
<1>4. CountsBy(b, l, 0) = {}
  BY <1>2, <1>3, OutsideLoops
<1> HIDE DEF l
<1>5. WrittenBy(b, l, 0) = WrittenBy(b, pc[b], turn[b])
  <2>1. /\ CountsBy(b, l, 0) = CountsBy(b, "queued", turn[b])
        /\ ReplicasBy(b, l, 0) = ReplicasBy(b, "queued", turn[b])
        /\ PrefixesBy(b, l, 0) = PrefixesBy(b, "queued", turn[b])
        /\ VtopkBy(b, l, 0) = VtopkBy(b, "queued", turn[b])
    BY <1>3, <1>4, OutsideLoops
  <2> QED BY <1>1, <1>3, <2>1, SameParts
<1>6. SameSide(pc[b], l)
  BY <1>1, <1>3 DEF SameSide
<1> QED BY <1>1, <1>3, <1>5, <1>6, QuietKeeps

\* Block 0 has exchanged the demand.
LEMMA ExchangeKeeps ==
  ASSUME GridInv, NEW b \in Blocks, Exchange(b)
  PROVE  GridInv'
<1>1. /\ pc[b] = "exchange" /\ StepOf(b, "count", 0) /\ b = 0
      /\ written' = written \cup {<<Demand, b>>}
  BY GotoIsStep DEF Exchange, Write, Places, GridInv
<1>2. CountsBy(b, "count", 0) = {}
  BY CountsInLoop DEF GridInv
<1>3. /\ "count" \in AfterExchange /\ "exchange" \notin AfterExchange
      /\ \A m \in {"count", "exchange"} :
           /\ m \notin AfterCount /\ m \notin AfterGreedy
           /\ m \notin {"tables"} \cup AfterTables
           /\ m \notin {"pfx"} \cup AfterPfx
           /\ m \notin {"assign", "ended"}
  BY DEF AfterExchange, AfterCount, AfterGreedy, AfterTables, AfterPfx
<1>4. WrittenBy(b, "count", 0) = WrittenBy(b, pc[b], turn[b]) \cup {Demand}
  <2>1. /\ CountsBy(b, "exchange", turn[b]) = {}
        /\ \A m \in {"count", "exchange"} : \A u :
             /\ ReplicasBy(b, m, u) = {} /\ PrefixesBy(b, m, u) = {}
             /\ VtopkBy(b, m, u) = {}
    BY <1>3, OutsideLoops
  <2>2. WrittenBy(b, "count", 0) = {Demand}
    BY <1>1, <1>2, <1>3, <2>1 DEF WrittenBy
  <2>3. WrittenBy(b, "exchange", turn[b]) = {}
    BY <1>1, <1>3, <2>1 DEF WrittenBy
  <2> QED BY <1>1, <2>2, <2>3
<1>5. "count" \in Labels /\ Demand \in Parts
  BY DEF Labels, AfterExchange, Parts
<1>6. SameSide(pc[b], "count")
  BY <1>1, <1>3 DEF SameSide
<1> QED BY <1>1, <1>4, <1>5, <1>6, WritingKeeps

\* One chunk more is counted.
LEMMA CountKeeps ==
  ASSUME GridInv, NEW b \in Blocks, Count(b)
  PROVE  GridInv'
<1> DEFINE t == turn[b]
           i == b + t * plan.token
<1>1. /\ pc[b] = "count" /\ StepOf(b, "count", t + 1) /\ t \in Nat
      /\ written' = written \cup {<<CountsOf(i), b>>}
      /\ b < plan.token /\ t < plan.chunks \div plan.token
  BY GotoIsStep DEF Count, Write, Places, GridInv, HasChunk, ChunkOf
<1>2. /\ i \in Chunks
      /\ CountsBy(b, "count", t + 1) = CountsBy(b, "count", t) \cup {i}
  BY <1>1, CountsInLoop DEF GridInv
<1> HIDE DEF t, i
<1>3. /\ "count" \in AfterExchange
      /\ "count" \notin AfterCount /\ "count" \notin AfterGreedy
      /\ "count" \notin {"tables"} \cup AfterTables
      /\ "count" \notin {"pfx"} \cup AfterPfx
      /\ "count" \notin {"assign", "ended"}
  BY DEF AfterExchange, AfterCount, AfterGreedy, AfterTables, AfterPfx
<1>4. WrittenBy(b, "count", t + 1)
        = WrittenBy(b, "count", t) \cup {CountsOf(i)}
  <2>1. \A u : /\ ReplicasBy(b, "count", u) = {}
               /\ PrefixesBy(b, "count", u) = {}
               /\ VtopkBy(b, "count", u) = {}
    BY <1>3, OutsideLoops
  <2> QED BY <1>2, <2>1 DEF WrittenBy
<1>5. "count" \in Labels /\ CountsOf(i) \in Parts
  BY <1>2 DEF Labels, AfterExchange, Parts
<1>6. SameSide(pc[b], "count")
  BY <1>1, <1>3 DEF SameSide
<1>7. t = turn[b] /\ t + 1 \in Nat
  BY <1>1 DEF t
<1> QED BY <1>1, <1>4, <1>5, <1>6, <1>7, WritingKeeps

\* All its chunks are counted.
LEMMA CountDoneKeeps ==
  ASSUME GridInv, NEW b \in Blocks, CountDone(b)
  PROVE  GridInv'
<1> DEFINE l == IF b = 0 THEN "greedy" ELSE "sync0"
<1>1. /\ pc[b] = "count" /\ StepOf(b, l, 0) /\ turn[b] \in Nat
      /\ written' = written
      /\ ~(b < plan.token /\ turn[b] < plan.chunks \div plan.token)
  BY GotoIsStep DEF CountDone, Places, GridInv, HasChunk
<1>2. \A m \in AfterCount : CountsBy(b, m, 0) = CountsBy(b, "count", turn[b])
  BY <1>1, CountsInLoop DEF GridInv
<1>3. /\ "count" \in AfterExchange /\ l \in AfterExchange
      /\ l \in AfterCount /\ (b = 0 => l \notin AfterGreedy)
      /\ \A m \in {"count", l} :
           /\ m \notin {"tables"} \cup AfterTables
           /\ m \notin {"pfx"} \cup AfterPfx
           /\ m \notin {"assign", "ended"}
      /\ "count" \notin AfterGreedy
      /\ l \in Labels /\ (l \in {"exchange", "greedy"} => b = 0) /\ l # "pfx"
  BY DEF Labels, AfterExchange, AfterCount, AfterGreedy, AfterTables, AfterPfx
<1> HIDE DEF l
<1>4. WrittenBy(b, l, 0) = WrittenBy(b, pc[b], turn[b])
  <2>1. \A m \in {"count", l} : \A u :
             /\ ReplicasBy(b, m, u) = {} /\ PrefixesBy(b, m, u) = {}
             /\ VtopkBy(b, m, u) = {}
    BY <1>3, OutsideLoops
  <2>2. /\ CountsBy(b, l, 0) = CountsBy(b, "count", turn[b])
        /\ ReplicasBy(b, l, 0) = ReplicasBy(b, "count", turn[b])
        /\ PrefixesBy(b, l, 0) = PrefixesBy(b, "count", turn[b])
        /\ VtopkBy(b, l, 0) = VtopkBy(b, "count", turn[b])
    BY <1>2, <1>3, <2>1
  <2>3. b = 0 => /\ l \in AfterExchange <=> "count" \in AfterExchange
                 /\ l \in AfterGreedy <=> "count" \in AfterGreedy
    BY <1>3
  <2>4. WrittenBy(b, l, 0) = WrittenBy(b, "count", turn[b])
    BY <2>2, <2>3, SameParts
  <2> QED BY <1>1, <2>4
<1>5. SameSide(pc[b], l)
  BY <1>1, <1>3 DEF SameSide
<1> QED BY <1>1, <1>3, <1>4, <1>5, QuietKeeps

\* Block 0 has run the greedy.
LEMMA GreedyKeepsGrid ==
  ASSUME GridInv, NEW b \in Blocks, GreedyAll(b)
  PROVE  GridInv'
<1>1. /\ pc[b] = "greedy" /\ StepOf(b, "sync0", 0) /\ b = 0
      /\ written' = written \cup {<<Greedy, b>>}
  BY GotoIsStep DEF GreedyAll, Write, Places, GridInv
<1>3. /\ "sync0" \in AfterGreedy /\ "greedy" \notin AfterGreedy
      /\ \A m \in {"sync0", "greedy"} :
           /\ m \in AfterExchange /\ m \in AfterCount
           /\ m \notin {"tables"} \cup AfterTables
           /\ m \notin {"pfx"} \cup AfterPfx
           /\ m \notin {"assign", "ended"}
  BY DEF AfterExchange, AfterCount, AfterGreedy, AfterTables, AfterPfx
<1>4. WrittenBy(b, "sync0", 0) = WrittenBy(b, pc[b], turn[b]) \cup {Greedy}
  <2>1. \A m \in {"sync0", "greedy"} : \A u :
             /\ CountsBy(b, m, u) = CountsBy(b, "ended", 0)
             /\ ReplicasBy(b, m, u) = {} /\ PrefixesBy(b, m, u) = {}
             /\ VtopkBy(b, m, u) = {}
    BY <1>3, OutsideLoops
  <2> DEFINE C == {CountsOf(i) : i \in CountsBy(b, "ended", 0)}
  <2>2. WrittenBy(b, "sync0", 0) = {Demand, Greedy} \cup C
    BY <1>1, <1>3, <2>1 DEF WrittenBy
  <2>3. WrittenBy(b, "greedy", turn[b]) = {Demand} \cup C
    BY <1>1, <1>3, <2>1 DEF WrittenBy
  <2> HIDE DEF C
  <2> QED BY <1>1, <2>2, <2>3
<1>5. "sync0" \in Labels /\ Greedy \in Parts
  BY DEF Labels, AfterExchange, AfterCount, AfterGreedy, Parts
<1>6. SameSide(pc[b], "sync0")
  BY <1>1, <1>3 DEF SameSide
<1> QED BY <1>1, <1>4, <1>5, <1>6, WritingKeeps

\* A block goes past the first grid barrier when everybody has come to it.
LEMMA FirstSyncKeeps ==
  ASSUME GridInv, NEW b \in Blocks, GlobalSyncAll(b, "sync0", "tables")
  PROVE  GridInv'
<1>1. /\ pc[b] = "sync0" /\ StepOf(b, "tables", 0) /\ written' = written
      /\ \A x \in Blocks : pc[x] \in AfterGreedy
  BY GotoIsStep
  DEF GlobalSyncAll, GridInv, After, AfterGreedy, AfterTables, AfterPfx
<1>2. ReplicasBy(b, "tables", 0) = {}
  BY ReplicasInLoop, 0 \in Nat DEF GridInv
<1>3. /\ \A m \in {"sync0", "tables"} :
           /\ m \in AfterExchange /\ m \in AfterCount /\ m \in AfterGreedy
           /\ m \notin {"pfx"} \cup AfterPfx /\ m \notin {"assign", "ended"}
      /\ "sync0" \notin {"tables"} \cup AfterTables /\ "tables" \in Labels
  BY DEF Labels, AfterExchange, AfterCount, AfterGreedy, AfterTables, AfterPfx
<1>4. WrittenBy(b, "tables", 0) = WrittenBy(b, pc[b], turn[b])
  <2>1. /\ CountsBy(b, "tables", 0) = CountsBy(b, "sync0", turn[b])
        /\ ReplicasBy(b, "tables", 0) = ReplicasBy(b, "sync0", turn[b])
        /\ PrefixesBy(b, "tables", 0) = PrefixesBy(b, "sync0", turn[b])
        /\ VtopkBy(b, "tables", 0) = VtopkBy(b, "sync0", turn[b])
    BY <1>2, <1>3, OutsideLoops
  <2>2. WrittenBy(b, "tables", 0) = WrittenBy(b, "sync0", turn[b])
    BY <1>3, <2>1, SameParts
  <2> QED BY <1>1, <2>2
<1>5. WrittenExactly' /\ PlanFits'
  BY <1>1, <1>4, QuietStep, StepKeepsPlan DEF GridInv
<1>6. Places'
  BY <1>1, <1>3, PlacesStep DEF GridInv
<1>7. Synced'
  <2>1. /\ Blocks' = Blocks /\ pc'[b] = "tables"
        /\ \A x \in Blocks : x # b => pc'[x] = pc[x]
    BY <1>1, StepKeepsPlan DEF GridInv
  <2>2. \A x \in Blocks : pc'[x] \in AfterGreedy
    BY <1>1, <1>3, <2>1
  <2>3. ~ \E x \in Blocks : pc[x] \in {"assign", "ended"}
    BY <1>1, <1>3 DEF GridInv, Synced, AfterPfx
  <2>4. ~ \E x \in Blocks : pc'[x] \in {"assign", "ended"}
    BY <1>3, <2>1, <2>3
  <2> QED BY <2>1, <2>2, <2>4 DEF Synced
<1> QED BY <1>5, <1>6, <1>7 DEF GridInv

\* One replica table more.
LEMMA TablesKeeps ==
  ASSUME GridInv, NEW b \in Blocks, Tables(b)
  PROVE  GridInv'
<1> DEFINE t == turn[b]
           r == b + t * plan.grid
<1>1. /\ pc[b] = "tables" /\ StepOf(b, "tables", t + 1) /\ t \in Nat
      /\ written' = written \cup {<<ReplicasOf(r), b>>}
      /\ r < shape.ranks
  BY GotoIsStep DEF Tables, Write, Places, GridInv
<1>2. /\ r \in RanksOf
      /\ ReplicasBy(b, "tables", t + 1) = ReplicasBy(b, "tables", t) \cup {r}
  BY <1>1, ReplicasInLoop DEF GridInv
<1> HIDE DEF t, r
<1>3. /\ "tables" \in AfterExchange /\ "tables" \in AfterCount
      /\ "tables" \in AfterGreedy /\ "tables" \notin {"pfx"} \cup AfterPfx
      /\ "tables" \notin {"assign", "ended"}
  BY DEF AfterExchange, AfterCount, AfterGreedy, AfterTables, AfterPfx
<1>4. WrittenBy(b, "tables", t + 1)
        = WrittenBy(b, "tables", t) \cup {ReplicasOf(r)}
  <2>1. \A u : /\ CountsBy(b, "tables", u) = CountsBy(b, "ended", 0)
               /\ PrefixesBy(b, "tables", u) = {}
               /\ VtopkBy(b, "tables", u) = {}
    BY <1>3, OutsideLoops
  <2> QED BY <1>2, <2>1 DEF WrittenBy
<1>5. "tables" \in Labels /\ ReplicasOf(r) \in Parts
  BY <1>2, <1>3 DEF Labels, Parts
<1>6. SameSide(pc[b], "tables")
  BY <1>1, <1>3 DEF SameSide
<1>7. t = turn[b] /\ t + 1 \in Nat
  BY <1>1 DEF t
<1> QED BY <1>1, <1>4, <1>5, <1>6, <1>7, WritingKeeps

\* All its replica tables are there: the prefix blocks go on to the experts.
LEMMA TablesDoneKeeps ==
  ASSUME GridInv, NEW b \in Blocks, TablesDone(b)
  PROVE  GridInv'
<1> DEFINE l == IF b < plan.pfx THEN "pfx" ELSE "sync1"
<1>0. b \in Nat /\ plan.pfx \in Nat
  BY PlanNumbers DEF Blocks, GridInv
<1>1. /\ pc[b] = "tables" /\ StepOf(b, l, 0) /\ turn[b] \in Nat
      /\ written' = written /\ b + turn[b] * plan.grid >= shape.ranks
  BY GotoIsStep DEF TablesDone, Places, GridInv
<1>2. \A m \in AfterTables :
         ReplicasBy(b, m, 0) = ReplicasBy(b, "tables", turn[b])
  BY <1>1, ReplicasInLoop DEF GridInv
<1>3. /\ \A m \in {"tables", l} :
           /\ m \in AfterExchange /\ m \in AfterCount /\ m \in AfterGreedy
           /\ m \in {"tables"} \cup AfterTables /\ m \notin {"assign", "ended"}
      /\ l \in AfterTables
      /\ "tables" \notin {"pfx"} \cup AfterPfx
      /\ l \in Labels /\ l \notin {"exchange", "greedy"}
      /\ (l = "pfx" => b < plan.pfx)
  BY DEF Labels, AfterExchange, AfterCount, AfterGreedy, AfterTables, AfterPfx
<1>4. PrefixesBy(b, l, 0) = {}
  <2>1. PrefixesBy(b, "pfx", 0) = {}
    BY PrefixesInLoop, 0 \in Nat DEF GridInv
  <2>2. b >= plan.pfx => PrefixesBy(b, "sync1", 0) = {}
    BY PrefixesInLoop, 0 \in Nat DEF GridInv, AfterPfx
  <2> QED BY <1>0, <2>1, <2>2
<1> HIDE DEF l
<1>5. WrittenBy(b, l, 0) = WrittenBy(b, pc[b], turn[b])
  <2>1. /\ CountsBy(b, l, 0) = CountsBy(b, "tables", turn[b])
        /\ ReplicasBy(b, l, 0) = ReplicasBy(b, "tables", turn[b])
        /\ PrefixesBy(b, l, 0) = PrefixesBy(b, "tables", turn[b])
        /\ VtopkBy(b, l, 0) = VtopkBy(b, "tables", turn[b])
    BY <1>2, <1>3, <1>4, OutsideLoops
  <2>2. WrittenBy(b, l, 0) = WrittenBy(b, "tables", turn[b])
    BY <1>3, <2>1, SameParts
  <2> QED BY <1>1, <2>2
<1>6. SameSide(pc[b], l)
  BY <1>1, <1>3 DEF SameSide
<1> QED BY <1>1, <1>3, <1>5, <1>6, QuietKeeps

\* One prefix row more.
LEMMA PfxKeeps ==
  ASSUME GridInv, NEW b \in Blocks, Pfx(b)
  PROVE  GridInv'
<1> DEFINE t == turn[b]
           e == b * ExpertsPer + t
<1>1. /\ pc[b] = "pfx" /\ StepOf(b, "pfx", t + 1) /\ t \in Nat
      /\ written' = written \cup {<<PrefixOf(e), b>>}
      /\ t < ExpertsPer /\ b < plan.pfx
  BY GotoIsStep DEF Pfx, Write, Places, GridInv
<1>2. /\ e \in Experts
      /\ PrefixesBy(b, "pfx", t + 1) = PrefixesBy(b, "pfx", t) \cup {e}
  BY <1>1, PrefixesInLoop DEF GridInv
<1> HIDE DEF t, e
<1>3. /\ "pfx" \in AfterExchange /\ "pfx" \in AfterCount
      /\ "pfx" \in AfterGreedy /\ "pfx" \in AfterTables
      /\ "pfx" \notin AfterPfx /\ "pfx" \notin {"assign", "ended"}
  BY DEF AfterExchange, AfterCount, AfterGreedy, AfterTables, AfterPfx
<1>4. WrittenBy(b, "pfx", t + 1) = WrittenBy(b, "pfx", t) \cup {PrefixOf(e)}
  <2>1. \A u : /\ CountsBy(b, "pfx", u) = CountsBy(b, "ended", 0)
               /\ ReplicasBy(b, "pfx", u) = ReplicasBy(b, "ended", 0)
               /\ VtopkBy(b, "pfx", u) = {}
    BY <1>3, OutsideLoops
  <2> QED BY <1>2, <2>1 DEF WrittenBy
<1>5. "pfx" \in Labels /\ PrefixOf(e) \in Parts
  BY <1>2, <1>3 DEF Labels, Parts
<1>6. SameSide(pc[b], "pfx")
  BY <1>1, <1>3 DEF SameSide
<1>7. t = turn[b] /\ t + 1 \in Nat
  BY <1>1 DEF t
<1> QED BY <1>1, <1>4, <1>5, <1>6, <1>7, WritingKeeps

\* All its prefix rows are there.
LEMMA PfxDoneKeeps ==
  ASSUME GridInv, NEW b \in Blocks, PfxDone(b)
  PROVE  GridInv'
<1>1. /\ pc[b] = "pfx" /\ StepOf(b, "sync1", 0)
      /\ written' = written /\ turn[b] = ExpertsPer
  BY GotoIsStep DEF PfxDone, Places, GridInv
<1>2. PrefixesBy(b, "sync1", 0) = PrefixesBy(b, "pfx", turn[b])
  BY <1>1, PrefixesInLoop, 0 \in Nat DEF GridInv, AfterPfx
<1>3. /\ \A m \in {"pfx", "sync1"} :
           /\ m \in AfterExchange /\ m \in AfterCount /\ m \in AfterGreedy
           /\ m \in AfterTables /\ m \notin {"assign", "ended"}
      /\ "pfx" \notin AfterPfx /\ "sync1" \in Labels
  BY DEF Labels, AfterExchange, AfterCount, AfterGreedy, AfterTables, AfterPfx
<1>4. WrittenBy(b, "sync1", 0) = WrittenBy(b, pc[b], turn[b])
  <2>1. /\ CountsBy(b, "sync1", 0) = CountsBy(b, "pfx", turn[b])
        /\ ReplicasBy(b, "sync1", 0) = ReplicasBy(b, "pfx", turn[b])
        /\ PrefixesBy(b, "sync1", 0) = PrefixesBy(b, "pfx", turn[b])
        /\ VtopkBy(b, "sync1", 0) = VtopkBy(b, "pfx", turn[b])
    BY <1>2, <1>3, OutsideLoops
  <2>2. WrittenBy(b, "sync1", 0) = WrittenBy(b, "pfx", turn[b])
    BY <1>3, <2>1, SameParts
  <2> QED BY <1>1, <2>2
<1>5. SameSide(pc[b], "sync1")
  BY <1>1, <1>3 DEF SameSide
<1> QED BY <1>1, <1>3, <1>4, <1>5, QuietKeeps

\* A block goes past the second grid barrier.
LEMMA SecondSyncKeeps ==
  ASSUME GridInv, NEW b \in Blocks, GlobalSyncAll(b, "sync1", "assign")
  PROVE  GridInv'
<1>1. /\ pc[b] = "sync1" /\ StepOf(b, "assign", 0) /\ written' = written
      /\ \A x \in Blocks : pc[x] \in AfterPfx
  BY GotoIsStep DEF GlobalSyncAll, GridInv, After, AfterPfx
<1>2. VtopkBy(b, "assign", 0) = {}
  BY VtopkInLoop, 0 \in Nat DEF GridInv
<1>3. /\ \A m \in {"sync1", "assign"} :
           /\ m \in AfterExchange /\ m \in AfterCount /\ m \in AfterGreedy
           /\ m \in AfterTables /\ m \in AfterPfx
      /\ "sync1" \notin {"assign", "ended"} /\ "assign" \in Labels
      /\ AfterPfx \subseteq AfterGreedy
  BY DEF Labels, AfterExchange, AfterCount, AfterGreedy, AfterTables, AfterPfx
<1>4. WrittenBy(b, "assign", 0) = WrittenBy(b, pc[b], turn[b])
  <2>1. /\ CountsBy(b, "assign", 0) = CountsBy(b, "sync1", turn[b])
        /\ ReplicasBy(b, "assign", 0) = ReplicasBy(b, "sync1", turn[b])
        /\ PrefixesBy(b, "assign", 0) = PrefixesBy(b, "sync1", turn[b])
        /\ VtopkBy(b, "assign", 0) = VtopkBy(b, "sync1", turn[b])
    BY <1>2, <1>3, OutsideLoops
  <2>2. WrittenBy(b, "assign", 0) = WrittenBy(b, "sync1", turn[b])
    BY <1>3, <2>1, SameParts
  <2> QED BY <1>1, <2>2
<1>5. WrittenExactly' /\ PlanFits'
  BY <1>1, <1>4, QuietStep, StepKeepsPlan DEF GridInv
<1>6. Places'
  BY <1>1, <1>3, PlacesStep DEF GridInv
<1>7. Synced'
  <2>1. /\ Blocks' = Blocks /\ pc'[b] = "assign"
        /\ \A x \in Blocks : x # b => pc'[x] = pc[x]
    BY <1>1, StepKeepsPlan DEF GridInv
  <2>2. \A x \in Blocks : pc'[x] \in AfterPfx
    BY <1>1, <1>3, <2>1
  <2> QED BY <1>3, <2>1, <2>2 DEF Synced
<1> QED BY <1>5, <1>6, <1>7 DEF GridInv

\* The virtual experts of one chunk more.
LEMMA AssignKeeps ==
  ASSUME GridInv, NEW b \in Blocks, Assign(b)
  PROVE  GridInv'
<1> DEFINE t == turn[b]
           i == b + t * plan.token
<1>1. /\ pc[b] = "assign" /\ StepOf(b, "assign", t + 1) /\ t \in Nat
      /\ written' = written \cup {<<VtopkOf(i), b>>}
      /\ b < plan.token /\ t < plan.chunks \div plan.token
  BY GotoIsStep DEF Assign, Write, Places, GridInv, HasChunk, ChunkOf
<1>2. /\ i \in Chunks
      /\ VtopkBy(b, "assign", t + 1) = VtopkBy(b, "assign", t) \cup {i}
  BY <1>1, VtopkInLoop DEF GridInv
<1> HIDE DEF t, i
<1>3. /\ "assign" \in AfterExchange /\ "assign" \in AfterCount
      /\ "assign" \in AfterGreedy /\ "assign" \in AfterTables
      /\ "assign" \in AfterPfx
  BY DEF AfterExchange, AfterCount, AfterGreedy, AfterTables, AfterPfx
<1>4. WrittenBy(b, "assign", t + 1)
        = WrittenBy(b, "assign", t) \cup {VtopkOf(i)}
  <2>1. \A u : /\ CountsBy(b, "assign", u) = CountsBy(b, "ended", 0)
               /\ ReplicasBy(b, "assign", u) = ReplicasBy(b, "ended", 0)
               /\ PrefixesBy(b, "assign", u) = PrefixesBy(b, "ended", 0)
    BY <1>3, OutsideLoops
  <2> QED BY <1>2, <2>1 DEF WrittenBy
<1>5. "assign" \in Labels /\ VtopkOf(i) \in Parts
  BY <1>2, <1>3 DEF Labels, Parts
<1>6. SameSide(pc[b], "assign")
  BY <1>1 DEF SameSide
<1>7. t = turn[b] /\ t + 1 \in Nat
  BY <1>1 DEF t
<1> QED BY <1>1, <1>4, <1>5, <1>6, <1>7, WritingKeeps

\* A block ends with its last chunk.
LEMMA AssignDoneKeeps ==
  ASSUME GridInv, NEW b \in Blocks, AssignDone(b)
  PROVE  GridInv'
<1>1. /\ pc[b] = "assign" /\ StepOf(b, "ended", 0) /\ turn[b] \in Nat
      /\ written' = written
      /\ ~(b < plan.token /\ turn[b] < plan.chunks \div plan.token)
  BY GotoIsStep DEF AssignDone, Places, GridInv, HasChunk
<1>2. VtopkBy(b, "ended", 0) = VtopkBy(b, "assign", turn[b])
  BY <1>1, VtopkInLoop DEF GridInv
<1>3. /\ \A m \in {"assign", "ended"} :
           /\ m \in AfterExchange /\ m \in AfterCount /\ m \in AfterGreedy
           /\ m \in AfterTables /\ m \in AfterPfx
      /\ "ended" \in Labels
  BY DEF Labels, AfterExchange, AfterCount, AfterGreedy, AfterTables, AfterPfx
<1>4. WrittenBy(b, "ended", 0) = WrittenBy(b, pc[b], turn[b])
  <2>1. /\ CountsBy(b, "ended", 0) = CountsBy(b, "assign", turn[b])
        /\ ReplicasBy(b, "ended", 0) = ReplicasBy(b, "assign", turn[b])
        /\ PrefixesBy(b, "ended", 0) = PrefixesBy(b, "assign", turn[b])
        /\ VtopkBy(b, "ended", 0) = VtopkBy(b, "assign", turn[b])
    BY <1>2, <1>3, OutsideLoops
  <2>2. WrittenBy(b, "ended", 0) = WrittenBy(b, "assign", turn[b])
    BY <1>3, <2>1, SameParts
  <2> QED BY <1>1, <2>2
<1>5. SameSide(pc[b], "ended")
  BY <1>1, <1>3 DEF SameSide
<1> QED BY <1>1, <1>3, <1>4, <1>5, QuietKeeps

-----------------------------------------------------------------------------
\* Before the launch nothing is written.
LEMMA GridInit == Init => GridInv
<1> SUFFICES ASSUME Init PROVE GridInv
  OBVIOUS
<1>1. PlanFits
  BY DEF Init, PlanFits
<1>2. \A b \in Blocks : pc[b] = "queued" /\ turn[b] = 0
  BY DEF Init
<1>3. /\ "queued" \in Labels /\ "queued" \notin AfterExchange
      /\ "queued" \notin AfterCount \cup {"count"}
      /\ "queued" \notin AfterGreedy
      /\ "queued" \notin AfterTables \cup {"tables"}
      /\ "queued" \notin AfterPfx \cup {"pfx"}
      /\ "queued" \notin {"assign", "ended"}
  BY DEF Labels, AfterExchange, AfterCount, AfterGreedy, AfterTables, AfterPfx
<1>4. Places
  BY <1>2, <1>3 DEF Init, Places
<1>5. Synced
  BY <1>2, <1>3 DEF Synced
<1>6. ASSUME NEW b \in Blocks PROVE WrittenBy(b, pc[b], turn[b]) = {}
  <2>1. /\ CountsBy(b, "queued", 0) = {} /\ ReplicasBy(b, "queued", 0) = {}
        /\ PrefixesBy(b, "queued", 0) = {} /\ VtopkBy(b, "queued", 0) = {}
    BY <1>3, OutsideLoops
  <2> QED BY <1>2, <1>3, <2>1 DEF WrittenBy
<1>7. WrittenExactly
  <2>1. written = {}
    BY DEF Init
  <2> QED BY <1>6, <2>1 DEF WrittenExactly
<1> QED BY <1>1, <1>4, <1>5, <1>7 DEF GridInv

\* A step that changes nothing, and the kernel that has ended.
LEMMA GridStutter ==
  ASSUME GridInv, UNCHANGED vars
  PROVE  GridInv'
<1>1. /\ shape' = shape /\ cores' = cores /\ plan' = plan /\ pc' = pc
      /\ turn' = turn /\ written' = written
  BY DEF vars
<1>2. Chunks' = Chunks /\ Experts' = Experts /\ RanksOf' = RanksOf
      /\ Blocks' = Blocks /\ ExpertsPer' = ExpertsPer
  BY <1>1 DEF Chunks, Experts, RanksOf, Blocks, ExpertsPer
<1>3. Parts' = Parts
  BY <1>2 DEF Parts
<1>4. \A x, m, u : /\ CountsBy(x, m, u)' = CountsBy(x, m, u)
                   /\ ReplicasBy(x, m, u)' = ReplicasBy(x, m, u)
                   /\ PrefixesBy(x, m, u)' = PrefixesBy(x, m, u)
                   /\ VtopkBy(x, m, u)' = VtopkBy(x, m, u)
  BY <1>1, <1>2 DEF CountsBy, ReplicasBy, PrefixesBy, VtopkBy
<1>5. \A x : WrittenBy(x, pc[x], turn[x])' = WrittenBy(x, pc[x], turn[x])
  BY <1>1, <1>4 DEF WrittenBy
<1>6. WrittenExactly'
  BY <1>1, <1>2, <1>3, <1>5 DEF WrittenExactly, GridInv
<1>7. PlanFits' /\ Places' /\ Synced'
  BY <1>1, <1>2 DEF PlanFits, Places, Synced, GridInv
<1> QED BY <1>6, <1>7 DEF GridInv

\* Every step of every block keeps the invariant.
LEMMA GridNext == GridInv /\ [Next]_vars => GridInv'
<1> SUFFICES ASSUME GridInv, [Next]_vars PROVE GridInv'
  OBVIOUS
<1>1. ASSUME NEW b \in Blocks, BlockStep(b) PROVE GridInv'
  BY <1>1, ScheduleKeeps, ExchangeKeeps, CountKeeps, CountDoneKeeps,
     GreedyKeepsGrid, FirstSyncKeeps, TablesKeeps, TablesDoneKeeps, PfxKeeps,
     PfxDoneKeeps, SecondSyncKeeps, AssignKeeps, AssignDoneKeeps
  DEF BlockStep
<1>2. CASE Finished
  BY <1>2, GridStutter DEF Finished
<1>3. CASE UNCHANGED vars
  BY <1>3, GridStutter
<1> QED BY <1>1, <1>2, <1>3 DEF Next

\* The invariant of the grid.
LEMMA GridInvariant == Spec => []GridInv
BY GridInit, GridNext, PTL DEF Spec

-----------------------------------------------------------------------------
\* What is written was written by the block whose part it is.
LEMMA WrittenWhere ==
  ASSUME GridInv, NEW p \in Parts, NEW b \in Blocks
  PROVE  <<p, b>> \in written <=> p \in WrittenBy(b, pc[b], turn[b])
BY DEF GridInv, WrittenExactly

\* What a reader needs is there: at the greedy the demand, behind the first
\* barrier the greedy and the counts, behind the second the tables.
LEMMA FreshFromInv == GridInv => ReadsAreFresh
<1> SUFFICES ASSUME GridInv, NEW b \in Blocks, NEW p \in Reads(pc[b])
             PROVE  Written(p)
  BY DEF ReadsAreFresh
<1>1. \A q \in Parts, x \in Blocks :
         q \in WrittenBy(x, pc[x], turn[x]) => Written(q)
  BY WrittenWhere DEF Written
<1>2. /\ 0 \in Blocks
      /\ \A i \in Chunks : i % plan.token \in Blocks
      /\ \A r \in RanksOf : r % plan.grid \in Blocks
      /\ \A e \in Experts : e \div ExpertsPer \in Blocks
  BY Owners DEF GridInv
<1>3. /\ Demand \in Parts /\ Greedy \in Parts
      /\ \A i \in Chunks : CountsOf(i) \in Parts
      /\ \A r \in RanksOf : ReplicasOf(r) \in Parts
      /\ \A e \in Experts : PrefixOf(e) \in Parts
  BY DEF Parts
<1>4. pc[0] \in AfterExchange => Written(Demand)
  BY <1>1, <1>2, <1>3 DEF WrittenBy
<1>5. pc[0] \in AfterGreedy => Written(Greedy)
  BY <1>1, <1>2, <1>3 DEF WrittenBy
<1>6. ASSUME NEW i \in Chunks, \A x \in Blocks : pc[x] \in AfterGreedy
      PROVE  Written(CountsOf(i))
  <2> DEFINE x == i % plan.token
  <2>1. i \in CountsBy(x, pc[x], turn[x])
    BY <1>2, <1>6 DEF CountsBy, AfterCount
  <2>2. CountsOf(i) \in WrittenBy(x, pc[x], turn[x])
    BY <2>1 DEF WrittenBy
  <2> QED BY <1>1, <1>2, <1>3, <2>2
<1>7. ASSUME NEW r \in RanksOf, \A x \in Blocks : pc[x] \in AfterPfx
      PROVE  Written(ReplicasOf(r))
  <2> DEFINE x == r % plan.grid
  <2>1. r \in ReplicasBy(x, pc[x], turn[x])
    BY <1>2, <1>7 DEF ReplicasBy, AfterTables
  <2>2. ReplicasOf(r) \in WrittenBy(x, pc[x], turn[x])
    BY <2>1 DEF WrittenBy
  <2> QED BY <1>1, <1>2, <1>3, <2>2
<1>8. ASSUME NEW e \in Experts, \A x \in Blocks : pc[x] \in AfterPfx
      PROVE  Written(PrefixOf(e))
  <2> DEFINE x == e \div ExpertsPer
  <2>1. e \in PrefixesBy(x, pc[x], turn[x])
    BY <1>2, <1>8 DEF PrefixesBy
  <2>2. PrefixOf(e) \in WrittenBy(x, pc[x], turn[x])
    BY <2>1 DEF WrittenBy
  <2> QED BY <1>1, <1>2, <1>3, <2>2
<1>9. /\ pc[b] \in {"tables", "pfx", "assign"} =>
            \A x \in Blocks : pc[x] \in AfterGreedy
      /\ pc[b] = "assign" => \A x \in Blocks : pc[x] \in AfterPfx
      /\ pc[b] = "greedy" => b = 0
  BY DEF GridInv, Synced, Places, AfterTables, AfterPfx
<1>10. /\ AfterGreedy \subseteq AfterExchange /\ "greedy" \in AfterExchange
  BY DEF AfterExchange, AfterCount
<1>11. CASE pc[b] = "greedy"
  BY <1>4, <1>9, <1>10, <1>11 DEF Reads
<1>12. CASE pc[b] = "tables"
  BY <1>2, <1>5, <1>9, <1>12 DEF Reads
<1>13. CASE pc[b] = "pfx"
  <2>1. p \in {Demand, Greedy} \cup {CountsOf(i) : i \in Chunks}
    BY <1>13 DEF Reads
  <2>2. \A x \in Blocks : pc[x] \in AfterGreedy
    BY <1>9, <1>13
  <2> QED BY <1>2, <1>4, <1>5, <1>6, <1>10, <2>1, <2>2
<1>14. CASE pc[b] = "assign"
  <2>1. p \in {Greedy} \cup {PrefixOf(e) : e \in Experts}
                \cup {ReplicasOf(r) : r \in RanksOf}
    BY <1>14 DEF Reads
  <2>2. \A x \in Blocks : pc[x] \in AfterGreedy /\ pc[x] \in AfterPfx
    BY <1>9, <1>14
  <2> QED BY <1>2, <1>5, <1>7, <1>8, <2>1, <2>2
<1>15. CASE pc[b] \notin {"greedy", "tables", "pfx", "assign"}
  BY <1>15 DEF Reads
<1> QED BY <1>11, <1>12, <1>13, <1>14, <1>15

\* The block whose work a part is.
OwnerOf(p) ==
    CASE p[1] \in {"counts", "vtopk"} -> p[2] % plan.token
      [] p[1] = "replicas" -> p[2] % plan.grid
      [] p[1] = "prefix" -> p[2] \div ExpertsPer
      [] OTHER -> 0

\* A part is written by its owner or not at all, and by it in the end.
LEMMA OneOwner ==
  ASSUME PlanFits
  PROVE  /\ \A p \in Parts : OwnerOf(p) \in Blocks
         /\ \A b, l, t : \A p \in WrittenBy(b, l, t) : OwnerOf(p) = b
         /\ \A t : \A p \in Parts : p \in WrittenBy(OwnerOf(p), "ended", t)
<1>1. /\ 0 \in Blocks
      /\ \A i \in Chunks : i % plan.token \in Blocks
      /\ \A r \in RanksOf : r % plan.grid \in Blocks
      /\ \A e \in Experts : e \div ExpertsPer \in Blocks
  BY Owners
<1>2. /\ OwnerOf(Demand) = 0 /\ OwnerOf(Greedy) = 0
      /\ \A i : /\ OwnerOf(CountsOf(i)) = i % plan.token
                /\ OwnerOf(VtopkOf(i)) = i % plan.token
                /\ OwnerOf(ReplicasOf(i)) = i % plan.grid
                /\ OwnerOf(PrefixOf(i)) = i \div ExpertsPer
  BY DEF OwnerOf, Demand, Greedy, CountsOf, VtopkOf, ReplicasOf, PrefixOf
<1>3. "ended" \in AfterPfx /\ "ended" \in AfterTables
      /\ "ended" \in AfterGreedy /\ "ended" \in AfterCount
      /\ "ended" \in AfterExchange
  BY DEF AfterExchange, AfterCount, AfterGreedy, AfterTables, AfterPfx
<1>4. \A p \in Parts : OwnerOf(p) \in Blocks
  BY <1>1, <1>2 DEF Parts
<1>5. ASSUME NEW b, NEW l, NEW t, NEW p \in WrittenBy(b, l, t)
      PROVE  OwnerOf(p) = b
  BY <1>2 DEF WrittenBy, CountsBy, ReplicasBy, PrefixesBy, VtopkBy
<1>6. ASSUME NEW t, NEW p \in Parts
      PROVE  p \in WrittenBy(OwnerOf(p), "ended", t)
  <2>1. /\ \A i \in Chunks : /\ i \in CountsBy(i % plan.token, "ended", t)
                             /\ i \in VtopkBy(i % plan.token, "ended", t)
        /\ \A r \in RanksOf : r \in ReplicasBy(r % plan.grid, "ended", t)
        /\ \A e \in Experts : e \in PrefixesBy(e \div ExpertsPer, "ended", t)
    BY <1>3 DEF CountsBy, ReplicasBy, PrefixesBy, VtopkBy
  <2>2. CASE p \in {Demand, Greedy}
    BY <1>2, <1>3, <2>2 DEF WrittenBy
  <2>3. CASE \E i \in Chunks : p = CountsOf(i)
    <3> PICK i \in Chunks : p = CountsOf(i) BY <2>3
    <3> QED BY <1>2, <2>1 DEF WrittenBy
  <2>4. CASE \E i \in Chunks : p = VtopkOf(i)
    <3> PICK i \in Chunks : p = VtopkOf(i) BY <2>4
    <3> QED BY <1>2, <2>1 DEF WrittenBy
  <2>5. CASE \E r \in RanksOf : p = ReplicasOf(r)
    <3> PICK r \in RanksOf : p = ReplicasOf(r) BY <2>5
    <3> QED BY <1>2, <2>1 DEF WrittenBy
  <2>6. CASE \E e \in Experts : p = PrefixOf(e)
    <3> PICK e \in Experts : p = PrefixOf(e) BY <2>6
    <3> QED BY <1>2, <2>1 DEF WrittenBy
  <2> QED BY <2>2, <2>3, <2>4, <2>5, <2>6 DEF Parts
<1> QED BY <1>4, <1>5, <1>6

\* There are finitely many parts.
LEMMA PartsFinite ==
  ASSUME PlanFits
  PROVE  IsFiniteSet(Parts)
<1>1. plan.chunks \in Nat /\ shape.ranks \in Nat /\ shape.experts \in Nat
  BY PlanNumbers
<1>2. IsFiniteSet(Chunks) /\ IsFiniteSet(RanksOf) /\ IsFiniteSet(Experts)
  <2>1. plan.chunks - 1 \in Int /\ shape.ranks - 1 \in Int
        /\ shape.experts - 1 \in Int
    BY <1>1
  <2>2. \A n \in Int : IsFiniteSet(0 .. n)
    BY FS_Interval
  <2> QED BY <2>1, <2>2 DEF Chunks, RanksOf, Experts
<1> DEFINE f1 == [i \in Chunks |-> CountsOf(i)]
           f2 == [i \in Chunks |-> VtopkOf(i)]
           f3 == [i \in RanksOf |-> ReplicasOf(i)]
           f4 == [i \in Experts |-> PrefixOf(i)]
           P1 == {CountsOf(i) : i \in Chunks}
           P2 == {VtopkOf(i) : i \in Chunks}
           P3 == {ReplicasOf(i) : i \in RanksOf}
           P4 == {PrefixOf(i) : i \in Experts}
<1>3. /\ f1 \in Surjection(Chunks, P1) /\ f2 \in Surjection(Chunks, P2)
      /\ f3 \in Surjection(RanksOf, P3) /\ f4 \in Surjection(Experts, P4)
  BY DEF Surjection
<1>4. IsFiniteSet(P1) /\ IsFiniteSet(P2) /\ IsFiniteSet(P3) /\ IsFiniteSet(P4)
  BY <1>2, <1>3, FS_Surjection
<1>5. IsFiniteSet({Demand, Greedy})
  <2>1. IsFiniteSet({Demand}) /\ IsFiniteSet({Greedy})
    BY FS_Singleton
  <2>2. {Demand, Greedy} = {Demand} \cup {Greedy}
    OBVIOUS
  <2> QED BY <2>1, <2>2, FS_Union
<1> DEFINE P0 == {Demand, Greedy}
<1>6. Parts = (((P0 \cup P1) \cup P2) \cup P3) \cup P4
  BY DEF Parts
<1>7. IsFiniteSet(P0)
  BY <1>5
<1> HIDE DEF P0, P1, P2, P3, P4
<1>8. IsFiniteSet(P0 \cup P1)
  BY <1>4, <1>7, FS_Union
<1>9. IsFiniteSet((P0 \cup P1) \cup P2)
  BY <1>4, <1>8, FS_Union
<1>10. IsFiniteSet(((P0 \cup P1) \cup P2) \cup P3)
  BY <1>4, <1>9, FS_Union
<1>11. IsFiniteSet((((P0 \cup P1) \cup P2) \cup P3) \cup P4)
  BY <1>4, <1>10, FS_Union
<1> QED BY <1>6, <1>11

\* When all blocks have ended, a part and its owner are one to one with what
\* has been written.
LEMMA PartitionFromInv == GridInv => WorkIsPartitioned
<1> SUFFICES ASSUME GridInv, \A b \in Blocks : pc[b] = "ended"
             PROVE  /\ \A p \in Parts : Written(p)
                    /\ Cardinality(written) = Cardinality(Parts)
  BY DEF WorkIsPartitioned
<1>1. PlanFits
  BY DEF GridInv
<1>2. \A p \in Parts : OwnerOf(p) \in Blocks /\ <<p, OwnerOf(p)>> \in written
  BY <1>1, OneOwner, WrittenWhere
<1>3. \A p \in Parts, b \in Blocks : <<p, b>> \in written => b = OwnerOf(p)
  BY <1>1, OneOwner, WrittenWhere
<1>4. \A p \in Parts : Written(p)
  BY <1>2 DEF Written
<1> DEFINE f == [p \in Parts |-> <<p, OwnerOf(p)>>]
<1>5. f \in Bijection(Parts, written)
  <2>1. f \in [Parts -> written]
    BY <1>2
  <2>2. ASSUME NEW p \in Parts, NEW q \in Parts, f[p] = f[q] PROVE p = q
    BY <2>2
  <2>3. ASSUME NEW w \in written PROVE \E p \in Parts : f[p] = w
    <3>1. w \in Parts \X Blocks
      BY DEF GridInv, WrittenExactly
    <3>2. PICK p \in Parts, b \in Blocks : w = <<p, b>>
      BY <3>1
    <3>3. f[p] = w
      BY <1>3, <3>2
    <3> QED BY <3>3
  <2> HIDE DEF f
  <2> QED BY <2>1, <2>2, <2>3 DEF Bijection, Injection, Surjection, IsInjective
<1>6. ExistsBijection(Parts, written)
  BY <1>5 DEF ExistsBijection
<1>7. Cardinality(written) = Cardinality(Parts)
  BY <1>1, <1>6, PartsFinite, FS_Bijection
<1> QED BY <1>4, <1>7

-----------------------------------------------------------------------------
(* On every shape and every device, whatever order the blocks run in: a     *)
(* block reads a table only when all that fill it have done so in this call *)
(* (the two global_sync_all stand at the right places).                     *)
THEOREM GridReadsFresh == Spec => []ReadsAreFresh
BY GridInvariant, FreshFromInv, PTL

(* The chunks, ranks and experts are dealt out without gap or overlap, for  *)
(* every shape and every number of cores: _plan_chunking and                *)
(* _pfx_block_count divide what they deal out.                              *)
THEOREM GridPartitions == Spec => []WorkIsPartitioned
BY GridInvariant, PartitionFromInv, PTL

-----------------------------------------------------------------------------
USE NumRanksAssumption, ExpertRowsAssumption, PowAssumption, StepsAssumption
    DEF Segs

(* While the answer lies in lo .. lo + span, the segment read exists: the    *)
(* answer itself does, even when span is empty.                             *)
LEMMA MidIsSegment == ASSUME SearchInv PROVE mid \in Segs
<1>1. CASE span = 0
  <2>1. lo # NumRanks
    BY DEF SearchInv, SearchTypeOK
  <2> QED
    BY <1>1, <2>1 DEF SearchInv, SearchTypeOK, mid, half
<1>2. CASE span > 0
  BY <1>2 DEF SearchInv, SearchTypeOK, mid, half
<1> QED
  BY <1>1, <1>2 DEF SearchInv, SearchTypeOK

(* An iteration halves span, so the power of two that bounds it is halved.  *)
LEMMA HalfIsEnough ==
    ASSUME SearchInv, iter < Steps
    PROVE  /\ half < Pow[Steps - (iter + 1)]
           /\ span - half - 1 < Pow[Steps - (iter + 1)]
<1> DEFINE left == Steps - (iter + 1)
<1>1. left \in 0 .. Steps - 1 /\ left + 1 = Steps - iter
  BY DEF SearchInv, SearchTypeOK
<1>2. Pow[Steps - iter] = 2 * Pow[left] /\ Pow[left] \in Nat
  BY <1>1
<1>3. span < 2 * Pow[left] /\ span \in Nat
  BY <1>2 DEF SearchInv, SearchTypeOK
<1> HIDE DEF left
<1>4. half < Pow[left] /\ span - half - 1 < Pow[left]
  BY <1>2, <1>3 DEF half
<1> QED
  BY <1>4 DEF left

(* Whatever the row and the place, every iteration reads inside the row and *)
(* the loop ends on the first segment that ends behind the place.           *)
THEOREM SearchCorrect == SearchSpec => [](InBounds /\ Found)
<1>1. SearchInit => SearchInv
  <2> SUFFICES ASSUME SearchInit PROVE SearchInv
    OBVIOUS
  <2>1. SearchTypeOK
    BY DEF SearchInit, SearchTypeOK
  <2>2. span < Pow[Steps - iter]
    BY DEF SearchInit
  <2> QED
    BY <2>1, <2>2 DEF SearchInit, SearchInv
<1>2. SearchInv /\ [SearchNext]_searchVars => SearchInv'
  <2> SUFFICES ASSUME SearchInv, [SearchNext]_searchVars PROVE SearchInv'
    OBVIOUS
  <2>1. CASE GoLeft
    <3>1. mid \in Segs /\ half \in Nat /\ half <= span
      BY MidIsSegment DEF SearchInv, SearchTypeOK, half
    <3>2. SearchTypeOK'
      BY <2>1, <3>1 DEF GoLeft, SearchInv, SearchTypeOK
    <3>3. span' < Pow[Steps - iter']
      BY <2>1, HalfIsEnough DEF GoLeft
    <3>4. \A o \in lo + span' .. NumRanks - 1 : pos < end[o]
      <4> SUFFICES ASSUME NEW o \in lo + half .. NumRanks - 1
                   PROVE  pos < end[o]
        BY <2>1 DEF GoLeft
      <4>1. o \in Segs /\ mid <= o
        BY <3>1 DEF mid, SearchInv, SearchTypeOK
      <4>2. end[mid] <= end[o]
        BY <3>1, <4>1 DEF SearchInv
      <4>3. end[mid] \in Int /\ end[o] \in Int /\ pos \in Int
        BY <3>1, <4>1 DEF SearchInv, SearchTypeOK
      <4> QED
        BY <2>1, <4>2, <4>3 DEF GoLeft
    <3>5. UNCHANGED <<end, pos, lo>> /\ lo + span' <= NumRanks
      BY <2>1, <3>1 DEF GoLeft, SearchInv, SearchTypeOK
    <3> QED
      BY <3>2, <3>3, <3>4, <3>5 DEF SearchInv
  <2>2. CASE GoRight
    <3>1. mid \in Segs /\ half \in Nat
      BY MidIsSegment DEF SearchInv, SearchTypeOK, half
    <3>2. span > 0
      <4> SUFFICES ASSUME span = 0 PROVE FALSE
        BY DEF SearchInv, SearchTypeOK
      <4>1. mid = lo + span
        BY DEF mid, half, SearchInv, SearchTypeOK
      <4>2. pos < end[mid]
        BY <3>1, <4>1 DEF SearchInv, SearchTypeOK
      <4> QED
        BY <2>2, <4>2 DEF GoRight
    <3>3. half < span /\ mid + 1 + (span - half - 1) = lo + span
      BY <3>1, <3>2 DEF half, mid, SearchInv, SearchTypeOK
    <3>4. SearchTypeOK'
      BY <2>2, <3>1, <3>3 DEF GoRight, SearchInv, SearchTypeOK
    <3>5. span' < Pow[Steps - iter']
      BY <2>2, HalfIsEnough DEF GoRight
    <3>6. \A o \in 0 .. mid : end[o] <= pos
      <4> SUFFICES ASSUME NEW o \in 0 .. mid PROVE end[o] <= pos
        OBVIOUS
      <4>1. o \in Segs /\ end[o] <= end[mid]
        BY <3>1 DEF SearchInv
      <4>2. end[mid] \in Int /\ end[o] \in Int /\ pos \in Int
        BY <3>1, <4>1 DEF SearchInv, SearchTypeOK
      <4> QED
        BY <2>2, <4>1, <4>2 DEF GoRight
    <3>7. lo' + span' = lo + span /\ lo' - 1 = mid /\ UNCHANGED <<end, pos>>
      BY <2>2, <3>1, <3>3 DEF GoRight
    <3> QED
      BY <3>4, <3>5, <3>6, <3>7 DEF SearchInv
  <2>3. CASE UNCHANGED searchVars
    BY <2>3 DEF searchVars, SearchInv, SearchTypeOK
  <2> QED
    BY <2>1, <2>2, <2>3 DEF SearchNext, Return
<1>3. SearchInv => InBounds /\ Found
  <2> SUFFICES ASSUME SearchInv PROVE InBounds /\ Found
    OBVIOUS
  <2>1. InBounds
    BY MidIsSegment DEF InBounds
  <2>2. Found
    <3> SUFFICES ASSUME iter = Steps PROVE Found
      BY DEF Found
    <3>1. Pow[Steps - iter] = 1 /\ span = 0
      BY DEF SearchInv, SearchTypeOK
    <3>2. lo # NumRanks
      BY DEF SearchInv, SearchTypeOK
    <3> QED
      BY <3>1, <3>2 DEF SearchInv, SearchTypeOK, Found
  <2> QED
    BY <2>1, <2>2
<1> QED
  BY <1>1, <1>2, <1>3, PTL DEF SearchSpec
=============================================================================
