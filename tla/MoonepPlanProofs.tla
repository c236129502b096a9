-------------------------- MODULE MoonepPlanProofs -------------------------
(***************************************************************************)
(* The balancing of the plan kernel, for every number of ranks, experts and *)
(* rows and every routing: the rounds of MoonepGreedy end with the capacity *)
(* on every rank, book what they move, and leave tables in which every      *)
(* receiver has one source and the segments of an expert are numbered.  On  *)
(* these tables the ranks, each on its own, send every token to a slot with *)
(* the weights of its expert, and every slot as many tokens as announced.   *)
(*                                                                         *)
(* All of it rests on sums over the ranks and the experts, so the module    *)
(* begins with what SumFunctionOnSet computes.  An induction over a finite  *)
(* set is made here by taking a minimal set that refutes the claim, and one *)
(* over the numbers by taking the least.                                    *)
(***************************************************************************)
EXTENDS MoonepPlan, FiniteSetTheorems, TLAPS

\* Among sets of subsets of a finite set there is a minimal one: what the
\* inductions below take instead of an induction principle.
LEMMA MinimalSet ==
  ASSUME NEW S, IsFiniteSet(S), NEW C \in SUBSET SUBSET S, C # {}
  PROVE  \E T \in C : \A U \in C : U \subseteq T => U = T
<1>1. IsWellFoundedOn(StrictSubsetOrdering(S), FiniteSubsetsOf(S))
  BY FS_StrictSubsetOrderingWellFounded
<1>2. C \subseteq FiniteSubsetsOf(S)
  BY FS_FiniteSubsetsOfFinite
<1>3. PICK T \in C : \A U \in C : <<U, T>> \notin StrictSubsetOrdering(S)
  BY <1>1, <1>2, WFMin
<1>4. \A U \in C : U \subseteq T => U = T
  <2> SUFFICES ASSUME NEW U \in C, U \subseteq T, U # T PROVE FALSE
    OBVIOUS
  <2>1. <<U, T>> \in StrictSubsetOrdering(S)
    BY DEF StrictSubsetOrdering
  <2> QED
    BY <1>3, <2>1
<1> QED
  BY <1>4

\* The element MapThenFoldSet takes next, and the function on the subsets of S
\* that it chooses.
Pick(s) == CHOOSE x \in s : TRUE

IsSum(g, f, S) ==
  g = [s \in SUBSET S |-> IF s = {} THEN 0 ELSE f[Pick(s)] + g[s \ {Pick(s)}]]

\* SumFunctionOnSet is a choice among the functions IsSum describes.
LEMMA SumIs ==
  ASSUME NEW f, NEW S
  PROVE  SumFunctionOnSet(f, S) = (CHOOSE g : IsSum(g, f, S))[S]
  BY DEF SumFunctionOnSet, FoldFunctionOnSet, MapThenFoldSet, IsSum, Pick

\* One unfolding of such a function.
LEMMA SumUnfold ==
  ASSUME NEW g, NEW f, NEW S, IsSum(g, f, S), NEW s \in SUBSET S
  PROVE  g[s] = IF s = {} THEN 0 ELSE f[Pick(s)] + g[s \ {Pick(s)}]
  BY DEF IsSum

\* The element that the fold takes first is one of the set.
LEMMA PickIn == ASSUME NEW s, s # {} PROVE Pick(s) \in s
  BY DEF Pick

\* Two such functions agree where both are defined.
LEMMA SumUnique ==
  ASSUME NEW f, NEW S, IsFiniteSet(S), NEW T, S \subseteq T,
         NEW g, IsSum(g, f, S), NEW h, IsSum(h, f, T)
  PROVE  g[S] = h[S]
<1> DEFINE C == {s \in SUBSET S : g[s] # h[s]}
<1> SUFFICES ASSUME C # {} PROVE FALSE
  OBVIOUS
<1>0. C \in SUBSET SUBSET S
  OBVIOUS
<1>1. PICK s \in C : \A U \in C : U \subseteq s => U = s
  <2> HIDE DEF C
  <2> QED
    BY <1>0, MinimalSet
<1>2. s # {}
  <2>1. g[{}] = 0 /\ h[{}] = 0
    BY SumUnfold
  <2> QED
    BY <1>1, <2>1
<1> DEFINE x == Pick(s)
<1>3. x \in s
  BY <1>2, PickIn
<1>4. g[s \ {x}] = h[s \ {x}]
  BY <1>1, <1>3
<1>5. g[s] = f[x] + g[s \ {x}] /\ h[s] = f[x] + h[s \ {x}]
  <2>1. s \in SUBSET S /\ s \in SUBSET T
    OBVIOUS
  <2> HIDE DEF C
  <2>2. g[s] = f[x] + g[s \ {x}]
    BY <1>2, <2>1, SumUnfold
  <2>3. h[s] = f[x] + h[s \ {x}]
    BY <1>2, <2>1, SumUnfold
  <2> QED
    BY <2>2, <2>3
<1> QED
  BY <1>4, <1>5

\* For a finite set there is one.
LEMMA SumExists ==
  ASSUME NEW f, NEW S, IsFiniteSet(S)
  PROVE  \E g : IsSum(g, f, S)
<1> DEFINE C == {s \in SUBSET S : ~ \E g : IsSum(g, f, s)}
<1> SUFFICES ASSUME C # {} PROVE FALSE
  OBVIOUS
<1>0. C \in SUBSET SUBSET S
  OBVIOUS
<1>1. PICK s \in C : \A U \in C : U \subseteq s => U = s
  <2> HIDE DEF C
  <2> QED
    BY <1>0, MinimalSet
<1>a. IsFiniteSet(s)
  BY FS_Subset
<1> DEFINE Sum(u) == (CHOOSE g : IsSum(g, f, u))[u]
           G == [u \in SUBSET s |-> IF u = {} THEN 0 ELSE f[Pick(u)] + Sum(u \ {Pick(u)})]
<1>2. ASSUME NEW u \in SUBSET s, u # s PROVE Sum(u) = G[u]
  <2>1. IsSum((CHOOSE g : IsSum(g, f, u)), f, u)
    BY <1>1, <1>2
  <2>2. Sum(u) = IF u = {} THEN 0
                 ELSE f[Pick(u)] + (CHOOSE g : IsSum(g, f, u))[u \ {Pick(u)}]
    BY <2>1 DEF IsSum
  <2>3. CASE u = {}
    BY <2>2, <2>3
  <2>4. CASE u # {}
    <3>1. Pick(u) \in u
      BY <2>4, PickIn
    <3>2. u \ {Pick(u)} \in SUBSET s /\ u \ {Pick(u)} # s
      BY <3>1
    <3>3. IsSum((CHOOSE g : IsSum(g, f, u \ {Pick(u)})), f, u \ {Pick(u)})
      BY <1>1, <3>2
    <3>4. IsFiniteSet(u \ {Pick(u)})
      BY <1>a, FS_Subset
    <3>5. Sum(u \ {Pick(u)}) = (CHOOSE g : IsSum(g, f, u))[u \ {Pick(u)}]
      BY <2>1, <3>3, <3>4, SumUnique
    <3> QED
      BY <2>2, <2>4, <3>5
  <2> QED
    BY <2>3, <2>4
<1>3. ASSUME NEW u \in SUBSET s, u # {} PROVE Sum(u \ {Pick(u)}) = G[u \ {Pick(u)}]
  <2>1. Pick(u) \in u
    BY <1>3, PickIn
  <2> HIDE DEF Sum, G
  <2> QED
    BY <1>2, <2>1
<1>4. IsSum(G, f, s)
  <2> HIDE DEF Sum
  <2>1. G = [u \in SUBSET s |-> IF u = {} THEN 0 ELSE f[Pick(u)] + Sum(u \ {Pick(u)})]
    OBVIOUS
  <2>2. ASSUME NEW u \in SUBSET s
        PROVE  (IF u = {} THEN 0 ELSE f[Pick(u)] + Sum(u \ {Pick(u)}))
                 = (IF u = {} THEN 0 ELSE f[Pick(u)] + G[u \ {Pick(u)}])
    <3> HIDE DEF G
    <3> QED
      BY <1>3
  <2>3. G = [u \in SUBSET s |-> IF u = {} THEN 0 ELSE f[Pick(u)] + G[u \ {Pick(u)}]]
    <3> HIDE DEF G
    <3> QED
      BY <2>1, <2>2
  <2> HIDE DEF G
  <2> QED
    BY <2>3 DEF IsSum
<1> QED
  BY <1>4

\* Hence one unfolding of SumFunctionOnSet itself.
LEMMA SumStep ==
  ASSUME NEW f, NEW S, IsFiniteSet(S)
  PROVE  SumFunctionOnSet(f, S)
           = IF S = {} THEN 0 ELSE f[Pick(S)] + SumFunctionOnSet(f, S \ {Pick(S)})
<1>1. PICK g : g = (CHOOSE h : IsSum(h, f, S)) /\ IsSum(g, f, S)
  BY SumExists
<1>2. SumFunctionOnSet(f, S) = g[S]
  BY <1>1, SumIs
<1>3. S # {} => SumFunctionOnSet(f, S \ {Pick(S)}) = g[S \ {Pick(S)}]
  <2> DEFINE T == S \ {Pick(S)}
  <2>1. IsFiniteSet(T) /\ T \subseteq S
    BY FS_Subset
  <2>2. PICK k : k = (CHOOSE h : IsSum(h, f, T)) /\ IsSum(k, f, T)
    BY <2>1, SumExists
  <2>3. SumFunctionOnSet(f, T) = k[T]
    BY <2>2, SumIs
  <2>4. k[T] = g[T]
    BY <1>1, <2>1, <2>2, SumUnique
  <2> QED
    BY <2>3, <2>4
<1>4. g[S] = IF S = {} THEN 0 ELSE f[Pick(S)] + g[S \ {Pick(S)}]
  BY <1>1, SumUnfold
<1> QED
  BY <1>2, <1>3, <1>4

\* A sum of integers is one, and of natural numbers too.
LEMMA SumInt ==
  ASSUME NEW f, NEW S, IsFiniteSet(S), \A x \in S : f[x] \in Int
  PROVE  /\ SumFunctionOnSet(f, S) \in Int
         /\ (\A x \in S : f[x] \in Nat) => SumFunctionOnSet(f, S) \in Nat
<1> DEFINE C == {s \in SUBSET S :
                  ~ /\ SumFunctionOnSet(f, s) \in Int
                    /\ (\A x \in S : f[x] \in Nat) => SumFunctionOnSet(f, s) \in Nat}
<1> SUFFICES ASSUME C # {} PROVE FALSE
  OBVIOUS
<1>0. C \in SUBSET SUBSET S
  OBVIOUS
<1>1. PICK s \in C : \A U \in C : U \subseteq s => U = s
  <2> HIDE DEF C
  <2> QED
    BY <1>0, MinimalSet
<1>2. IsFiniteSet(s)
  BY FS_Subset
<1>3. SumFunctionOnSet(f, s) = IF s = {} THEN 0 ELSE f[Pick(s)] + SumFunctionOnSet(f, s \ {Pick(s)})
  BY <1>2, SumStep
<1>4. s # {}
  BY <1>3
<1>5. Pick(s) \in s
  BY <1>4, PickIn
<1>6. s \ {Pick(s)} \in SUBSET S /\ s \ {Pick(s)} \notin C
  BY <1>1, <1>5
<1> QED
  BY <1>3, <1>4, <1>5, <1>6

\* Any element, not only the one that is picked, can be taken out first.
LEMMA SumRemove ==
  ASSUME NEW f, NEW S, IsFiniteSet(S), \A x \in S : f[x] \in Int, NEW x \in S
  PROVE  SumFunctionOnSet(f, S) = f[x] + SumFunctionOnSet(f, S \ {x})
<1> DEFINE C == {s \in SUBSET S : \E y \in s :
                    SumFunctionOnSet(f, s) # f[y] + SumFunctionOnSet(f, s \ {y})}
<1> SUFFICES ASSUME C # {} PROVE FALSE
  OBVIOUS
<1>0. C \in SUBSET SUBSET S
  OBVIOUS
<1>1. PICK s \in C : \A U \in C : U \subseteq s => U = s
  <2> HIDE DEF C
  <2> QED
    BY <1>0, MinimalSet
<1>2. PICK y \in s : SumFunctionOnSet(f, s) # f[y] + SumFunctionOnSet(f, s \ {y})
  BY <1>1
<1> DEFINE p == Pick(s)
<1>3. p \in s
  BY <1>2, PickIn
<1>4. IsFiniteSet(s) /\ IsFiniteSet(s \ {y}) /\ IsFiniteSet((s \ {y}) \ {p})
  BY FS_Subset
<1>5. SumFunctionOnSet(f, s) = f[p] + SumFunctionOnSet(f, s \ {p})
  BY <1>2, <1>4, SumStep
<1>6. y # p
  BY <1>2, <1>5
<1>7. s \ {p} \notin C /\ s \ {y} \notin C /\ s \ {p} \in SUBSET S /\ s \ {y} \in SUBSET S
  BY <1>1, <1>3
<1>8. SumFunctionOnSet(f, s \ {p}) = f[y] + SumFunctionOnSet(f, (s \ {p}) \ {y})
  BY <1>6, <1>7
<1>9. SumFunctionOnSet(f, s \ {y}) = f[p] + SumFunctionOnSet(f, (s \ {y}) \ {p})
  BY <1>3, <1>6, <1>7
<1>10. (s \ {p}) \ {y} = (s \ {y}) \ {p}
  OBVIOUS
<1>11. f[p] \in Int /\ f[y] \in Int
  BY <1>3
<1>12. SumFunctionOnSet(f, (s \ {y}) \ {p}) \in Int
  BY <1>4, SumInt
<1> QED
  BY <1>2, <1>5, <1>8, <1>9, <1>10, <1>11, <1>12

\* The empty sum.
LEMMA SumEmpty == ASSUME NEW f PROVE SumFunctionOnSet(f, {}) = 0
  BY SumStep, FS_EmptySet

\* The sum depends on the values of the summed function only.
LEMMA SumSame ==
  ASSUME NEW f, NEW g, NEW S, IsFiniteSet(S), \A x \in S : f[x] = g[x]
  PROVE  SumFunctionOnSet(f, S) = SumFunctionOnSet(g, S)
<1> DEFINE C == {s \in SUBSET S : SumFunctionOnSet(f, s) # SumFunctionOnSet(g, s)}
<1> SUFFICES ASSUME C # {} PROVE FALSE
  OBVIOUS
<1>0. C \in SUBSET SUBSET S
  OBVIOUS
<1>1. PICK s \in C : \A U \in C : U \subseteq s => U = s
  <2> HIDE DEF C
  <2> QED
    BY <1>0, MinimalSet
<1>2. IsFiniteSet(s)
  BY FS_Subset
<1>3. s # {}
  BY SumEmpty
<1>4. Pick(s) \in s
  BY <1>3, PickIn
<1>5. s \ {Pick(s)} \notin C /\ s \ {Pick(s)} \in SUBSET S
  BY <1>1, <1>4
<1>6. /\ SumFunctionOnSet(f, s) = f[Pick(s)] + SumFunctionOnSet(f, s \ {Pick(s)})
      /\ SumFunctionOnSet(g, s) = g[Pick(s)] + SumFunctionOnSet(g, s \ {Pick(s)})
  BY <1>2, <1>3, SumStep
<1> QED
  BY <1>4, <1>5, <1>6

\* A function that is changed in one place.
LEMMA SumChange ==
  ASSUME NEW f, NEW g, NEW S, IsFiniteSet(S), NEW x \in S,
         \A y \in S : f[y] \in Int /\ g[y] \in Int,
         \A y \in S \ {x} : f[y] = g[y]
  PROVE  SumFunctionOnSet(g, S) = SumFunctionOnSet(f, S) - f[x] + g[x]
<1>1. /\ SumFunctionOnSet(f, S) = f[x] + SumFunctionOnSet(f, S \ {x})
      /\ SumFunctionOnSet(g, S) = g[x] + SumFunctionOnSet(g, S \ {x})
  BY SumRemove
<1>2. IsFiniteSet(S \ {x})
  BY FS_Subset
<1>3. SumFunctionOnSet(f, S \ {x}) = SumFunctionOnSet(g, S \ {x})
  BY <1>2, SumSame
<1>4. SumFunctionOnSet(f, S \ {x}) \in Int
  BY <1>2, SumInt
<1> QED
  BY <1>1, <1>3, <1>4

\* Elements of value 0 can be left out.
LEMMA SumSupport ==
  ASSUME NEW f, NEW S, IsFiniteSet(S), NEW T \in SUBSET S,
         \A x \in S : f[x] \in Int, \A x \in S \ T : f[x] = 0
  PROVE  SumFunctionOnSet(f, S) = SumFunctionOnSet(f, T)
<1> DEFINE C == {s \in SUBSET S : T \subseteq s /\ SumFunctionOnSet(f, s) # SumFunctionOnSet(f, T)}
<1> SUFFICES ASSUME C # {} PROVE FALSE
  OBVIOUS
<1>0. C \in SUBSET SUBSET S
  OBVIOUS
<1>1. PICK s \in C : \A U \in C : U \subseteq s => U = s
  <2> HIDE DEF C
  <2> QED
    BY <1>0, MinimalSet
<1>2. IsFiniteSet(s)
  BY FS_Subset
<1>3. PICK x \in s : x \notin T
  <2>1. T \subseteq s /\ SumFunctionOnSet(f, s) # SumFunctionOnSet(f, T)
    BY <1>1
  <2>2. s # T
    BY <2>1
  <2> QED
    BY <2>1, <2>2
<1>4. s \ {x} \notin C /\ s \ {x} \in SUBSET S /\ T \subseteq s \ {x}
  BY <1>1, <1>3
<1>5. SumFunctionOnSet(f, s) = f[x] + SumFunctionOnSet(f, s \ {x})
  BY <1>2, SumRemove
<1>6. f[x] = 0
  BY <1>3
<1>7. IsFiniteSet(T)
  BY FS_Subset
<1>8. SumFunctionOnSet(f, T) \in Int
  BY <1>7, SumInt
<1> QED
  BY <1>4, <1>5, <1>6, <1>8

\* A sum of zeros.
LEMMA SumZero ==
  ASSUME NEW f, NEW S, IsFiniteSet(S), \A x \in S : f[x] = 0
  PROVE  SumFunctionOnSet(f, S) = 0
<1>1. \A x \in S : f[x] \in Int
  OBVIOUS
<1>2. SumFunctionOnSet(f, S) = SumFunctionOnSet(f, {})
  BY <1>1, SumSupport
<1> QED
  BY <1>2, SumEmpty

\* A bound on all values bounds the sum.
LEMMA SumBound ==
  ASSUME NEW f, NEW S, IsFiniteSet(S), NEW c \in Int,
         \A x \in S : f[x] \in Int /\ f[x] <= c
  PROVE  SumFunctionOnSet(f, S) <= Cardinality(S) * c
<1> DEFINE C == {s \in SUBSET S : ~ (SumFunctionOnSet(f, s) <= Cardinality(s) * c)}
<1> SUFFICES ASSUME C # {} PROVE FALSE
  OBVIOUS
<1>0. C \in SUBSET SUBSET S
  OBVIOUS
<1>1. PICK s \in C : \A U \in C : U \subseteq s => U = s
  <2> HIDE DEF C
  <2> QED
    BY <1>0, MinimalSet
<1>2. IsFiniteSet(s)
  BY FS_Subset
<1>3. s # {}
  <2>1. Cardinality({}) = 0
    BY FS_EmptySet
  <2> QED
    BY <2>1, SumEmpty
<1>4. PICK x \in s : TRUE
  BY <1>3
<1>5. s \ {x} \notin C /\ s \ {x} \in SUBSET S
  BY <1>1, <1>4
<1>6. SumFunctionOnSet(f, s) = f[x] + SumFunctionOnSet(f, s \ {x})
  BY <1>2, SumRemove
<1>7. Cardinality(s \ {x}) = Cardinality(s) - 1 /\ Cardinality(s) \in Nat
  BY <1>2, FS_RemoveElement, FS_CardinalityType
<1>8. IsFiniteSet(s \ {x})
  BY FS_Subset
<1>9. SumFunctionOnSet(f, s \ {x}) \in Int
  BY <1>8, SumInt
<1>10. f[x] \in Int /\ f[x] <= c
  BY <1>4
<1>11. SumFunctionOnSet(f, s \ {x}) <= (Cardinality(s) - 1) * c
  BY <1>5, <1>7
<1>12. (Cardinality(s) - 1) * c + c = Cardinality(s) * c
  BY <1>7
<1>13. ~ (SumFunctionOnSet(f, s) <= Cardinality(s) * c)
  BY <1>1
<1>14. (Cardinality(s) - 1) * c \in Int
  BY <1>7
<1> HIDE DEF C
<1> QED
  BY <1>6, <1>9, <1>10, <1>11, <1>12, <1>13, <1>14

\* When the sum reaches that bound, so does every value.
LEMMA SumFull ==
  ASSUME NEW f, NEW S, IsFiniteSet(S), NEW c \in Int,
         \A x \in S : f[x] \in Int /\ f[x] <= c,
         SumFunctionOnSet(f, S) >= Cardinality(S) * c, NEW x \in S
  PROVE  f[x] = c
<1>1. SumFunctionOnSet(f, S) = f[x] + SumFunctionOnSet(f, S \ {x})
  BY SumRemove
<1>2. IsFiniteSet(S \ {x})
  BY FS_Subset
<1>3. Cardinality(S \ {x}) = Cardinality(S) - 1 /\ Cardinality(S) \in Nat
  BY FS_RemoveElement, FS_CardinalityType
<1>4. SumFunctionOnSet(f, S \ {x}) \in Int
  BY <1>2, SumInt
<1>5. SumFunctionOnSet(f, S \ {x}) <= (Cardinality(S) - 1) * c
  BY <1>2, <1>3, SumBound
<1>6. (Cardinality(S) - 1) * c + c = Cardinality(S) * c
  BY <1>3
<1>7. (Cardinality(S) - 1) * c \in Int
  BY <1>3
<1>8. f[x] \in Int /\ f[x] <= c
  OBVIOUS
<1>9. SumFunctionOnSet(f, S) >= Cardinality(S) * c
  OBVIOUS
<1>10. \A a, b, p, q \in Int : a <= c /\ b <= p /\ p + c = q /\ a + b >= q => a = c
  OBVIOUS
<1>11. Cardinality(S) * c \in Int
  BY <1>3
<1>12. f[x] + SumFunctionOnSet(f, S \ {x}) >= Cardinality(S) * c
  BY <1>1, <1>9
<1> QED
  BY <1>4, <1>5, <1>6, <1>7, <1>8, <1>10, <1>11, <1>12

\* A sum over a set that is split into parts, one for each r in R: the sum
\* of the sums over the parts.
LEMMA SumParts ==
  ASSUME NEW t, NEW E, IsFiniteSet(E), \A e \in E : t[e] \in Int,
         NEW R, IsFiniteSet(R), NEW h, \A e \in E : h[e] \in R
  PROVE  SumFunctionOnSet([r \in R |-> SumFunctionOnSet(t, {e \in E : h[e] = r})], R)
           = SumFunctionOnSet(t, E)
<1> DEFINE Of(s) == [r \in R |-> SumFunctionOnSet(t, {e \in s : h[e] = r})]
           C == {s \in SUBSET E : SumFunctionOnSet(Of(s), R) # SumFunctionOnSet(t, s)}
<1> SUFFICES ASSUME C # {} PROVE FALSE
  OBVIOUS
<1>0. C \in SUBSET SUBSET E
  OBVIOUS
<1>1. PICK s \in C : \A U \in C : U \subseteq s => U = s
  <2> HIDE DEF C
  <2> QED
    BY <1>0, MinimalSet
<1>2. IsFiniteSet(s)
  BY FS_Subset
<1>3. s # {}
  <2>1. SUFFICES ASSUME s = {} PROVE FALSE
    OBVIOUS
  <2>2. \A r \in R : Of(s)[r] = 0
    <3> SUFFICES ASSUME NEW r \in R PROVE Of(s)[r] = 0
      OBVIOUS
    <3>1. {e \in s : h[e] = r} = {}
      BY <2>1
    <3> QED
      BY <3>1, SumEmpty
  <2>3. SumFunctionOnSet(Of(s), R) = 0
    <3> HIDE DEF Of
    <3> QED
      BY <2>2, SumZero
  <2>4. SumFunctionOnSet(t, s) = 0
    BY <2>1, SumEmpty
  <2> QED
    BY <2>3, <2>4
<1>4. PICK x \in s : TRUE
  BY <1>3
<1> DEFINE u == s \ {x}
<1>5. u \notin C /\ u \in SUBSET E /\ x \in E /\ IsFiniteSet(u)
  BY <1>1, <1>4, FS_Subset
<1>6. SumFunctionOnSet(Of(u), R) = SumFunctionOnSet(t, u)
  BY <1>5
<1>7. \A v \in SUBSET E : \A r \in R : Of(v)[r] \in Int
  <2> SUFFICES ASSUME NEW v \in SUBSET E, NEW r \in R PROVE Of(v)[r] \in Int
    OBVIOUS
  <2>1. IsFiniteSet({e \in v : h[e] = r}) /\ \A e \in {y \in v : h[y] = r} : t[e] \in Int
    <3>1. {e \in v : h[e] = r} \subseteq E
      OBVIOUS
    <3> QED
      BY <3>1, FS_Subset
  <2> HIDE DEF C
  <2>2. SumFunctionOnSet(t, {e \in v : h[e] = r}) \in Int
    BY <2>1, SumInt
  <2> QED
    BY <2>2
<1>8. \A r \in R \ {h[x]} : Of(u)[r] = Of(s)[r]
  <2> SUFFICES ASSUME NEW r \in R \ {h[x]} PROVE Of(u)[r] = Of(s)[r]
    OBVIOUS
  <2>1. {e \in u : h[e] = r} = {e \in s : h[e] = r}
    OBVIOUS
  <2> QED
    BY <2>1
<1>9. Of(s)[h[x]] = t[x] + Of(u)[h[x]]
  <2> DEFINE v == {e \in s : h[e] = h[x]}
  <2>1. IsFiniteSet(v) /\ x \in v /\ \A e \in v : t[e] \in Int
    BY <1>2, <1>4, FS_Subset
  <2>2. SumFunctionOnSet(t, v) = t[x] + SumFunctionOnSet(t, v \ {x})
    <3> HIDE DEF v
    <3> QED
      BY <2>1, SumRemove
  <2>3. v \ {x} = {e \in u : h[e] = h[x]}
    OBVIOUS
  <2>4. h[x] \in R
    BY <1>5
  <2> QED
    BY <2>2, <2>3, <2>4
<1>10. SumFunctionOnSet(Of(s), R) = SumFunctionOnSet(Of(u), R) - Of(u)[h[x]] + Of(s)[h[x]]
  <2>1. h[x] \in R /\ s \in SUBSET E
    BY <1>5
  <2>2. \A r \in R : Of(u)[r] \in Int /\ Of(s)[r] \in Int
    BY <1>5, <1>7, <2>1
  <2> HIDE DEF Of, C, u
  <2> QED
    BY <1>8, <2>1, <2>2, SumChange
<1>11. SumFunctionOnSet(t, s) = t[x] + SumFunctionOnSet(t, u)
  <2>1. \A e \in s : t[e] \in Int
    OBVIOUS
  <2> HIDE DEF C
  <2> QED
    BY <1>2, <1>4, <2>1, SumRemove
<1>12. SumFunctionOnSet(t, u) \in Int
  <2>1. \A e \in u : t[e] \in Int
    BY <1>5
  <2> HIDE DEF C, u
  <2> QED
    BY <1>5, <2>1, SumInt
<1>13. Of(u)[h[x]] \in Int /\ t[x] \in Int
  BY <1>5, <1>7
<1>14. SumFunctionOnSet(Of(s), R) # SumFunctionOnSet(t, s)
  BY <1>1
<1> HIDE DEF C, Of, u
<1> QED
  BY <1>6, <1>9, <1>10, <1>11, <1>12, <1>13, <1>14

-----------------------------------------------------------------------------
\* The sum of two functions.
LEMMA SumPlus ==
  ASSUME NEW f, NEW g, NEW h, NEW S, IsFiniteSet(S),
         \A x \in S : f[x] \in Int /\ g[x] \in Int /\ h[x] = f[x] + g[x]
  PROVE  SumFunctionOnSet(h, S) = SumFunctionOnSet(f, S) + SumFunctionOnSet(g, S)
<1> DEFINE C == {s \in SUBSET S : SumFunctionOnSet(h, s)
                      # SumFunctionOnSet(f, s) + SumFunctionOnSet(g, s)}
<1> SUFFICES ASSUME C # {} PROVE FALSE
  OBVIOUS
<1>0. C \in SUBSET SUBSET S
  OBVIOUS
<1>1. PICK s \in C : \A U \in C : U \subseteq s => U = s
  <2> HIDE DEF C
  <2> QED
    BY <1>0, MinimalSet
<1>2. IsFiniteSet(s)
  BY FS_Subset
<1>3. s # {}
  <2>1. /\ SumFunctionOnSet(f, {}) = 0 /\ SumFunctionOnSet(g, {}) = 0
        /\ SumFunctionOnSet(h, {}) = 0
    BY SumEmpty
  <2>2. SumFunctionOnSet(h, s) # SumFunctionOnSet(f, s) + SumFunctionOnSet(g, s)
    BY <1>1
  <2> HIDE DEF C
  <2> QED
    BY <2>1, <2>2
<1>4. PICK x \in s : TRUE
  BY <1>3
<1>5. s \ {x} \notin C /\ s \ {x} \in SUBSET S /\ IsFiniteSet(s \ {x})
  BY <1>1, <1>2, <1>4, FS_Subset
<1>6. \A y \in s : f[y] \in Int /\ g[y] \in Int /\ h[y] \in Int /\ h[y] = f[y] + g[y]
  BY <1>1
<1>7. /\ SumFunctionOnSet(f, s) = f[x] + SumFunctionOnSet(f, s \ {x})
      /\ SumFunctionOnSet(g, s) = g[x] + SumFunctionOnSet(g, s \ {x})
      /\ SumFunctionOnSet(h, s) = h[x] + SumFunctionOnSet(h, s \ {x})
  <2> HIDE DEF C
  <2> QED
    BY <1>2, <1>6, SumRemove
<1>8. SumFunctionOnSet(f, s \ {x}) \in Int /\ SumFunctionOnSet(g, s \ {x}) \in Int
  <2> HIDE DEF C
  <2> QED
    BY <1>5, <1>6, SumInt
<1>9. SumFunctionOnSet(h, s \ {x})
        = SumFunctionOnSet(f, s \ {x}) + SumFunctionOnSet(g, s \ {x})
  BY <1>5
<1>10. SumFunctionOnSet(h, s) # SumFunctionOnSet(f, s) + SumFunctionOnSet(g, s)
  BY <1>1
<1> HIDE DEF C
<1> QED
  BY <1>6, <1>7, <1>8, <1>9, <1>10

\* A table is summed by rows or by columns.
LEMMA SumSwap ==
  ASSUME NEW E, NEW R, IsFiniteSet(E), IsFiniteSet(R),
         NEW f \in [E -> [R -> Int]]
  PROVE  SumFunctionOnSet([e \in E |-> SumFunctionOnSet(f[e], R)], E)
           = SumFunctionOnSet([r \in R |-> SumFunctionOnSet([e \in E |-> f[e][r]], E)], R)
<1> DEFINE Rows == [e \in E |-> SumFunctionOnSet(f[e], R)]
           Col(r) == [e \in E |-> f[e][r]]
           Cols(s) == [r \in R |-> SumFunctionOnSet(Col(r), s)]
           C == {s \in SUBSET E : SumFunctionOnSet(Rows, s) # SumFunctionOnSet(Cols(s), R)}
<1>a. E \notin C => SumFunctionOnSet(Rows, E) = SumFunctionOnSet(Cols(E), R)
  OBVIOUS
<1> SUFFICES ASSUME C # {} PROVE FALSE
  BY <1>a
<1>0. C \in SUBSET SUBSET E
  OBVIOUS
<1>1. PICK s \in C : \A U \in C : U \subseteq s => U = s
  <2> HIDE DEF C
  <2> QED
    BY <1>0, MinimalSet
<1>2. IsFiniteSet(s)
  BY FS_Subset
<1>3. s # {}
  <2>1. SUFFICES ASSUME s = {} PROVE FALSE
    OBVIOUS
  <2>2. \A r \in R : Cols(s)[r] = 0
    <3> HIDE DEF Col
    <3> QED
      BY <2>1, SumEmpty
  <2>3. SumFunctionOnSet(Cols(s), R) = 0
    <3> HIDE DEF Cols
    <3> QED
      BY <2>2, SumZero
  <2>4. SumFunctionOnSet(Rows, s) = 0
    <3> HIDE DEF Rows
    <3> QED
      BY <2>1, SumEmpty
  <2> QED
    BY <1>1, <2>3, <2>4
<1>4. PICK x \in s : TRUE
  BY <1>3
<1> DEFINE u == s \ {x}
<1>5. u \notin C /\ u \in SUBSET E /\ x \in E /\ IsFiniteSet(u) /\ s \in SUBSET E
  BY <1>1, <1>2, <1>4, FS_Subset
<1>6. SumFunctionOnSet(Rows, u) = SumFunctionOnSet(Cols(u), R)
  BY <1>5
<1>7. \A e \in E : Rows[e] \in Int
  <2> SUFFICES ASSUME NEW e \in E PROVE Rows[e] \in Int
    OBVIOUS
  <2>1. SumFunctionOnSet(f[e], R) \in Int
    BY SumInt
  <2> QED
    BY <2>1
<1>8. \A r \in R : \A e \in E : Col(r)[e] \in Int
  OBVIOUS
<1>9. \A v \in SUBSET E : \A r \in R : Cols(v)[r] \in Int
  <2> SUFFICES ASSUME NEW v \in SUBSET E, NEW r \in R PROVE Cols(v)[r] \in Int
    OBVIOUS
  <2>1. IsFiniteSet(v) /\ \A e \in v : Col(r)[e] \in Int
    BY FS_Subset
  <2>2. SumFunctionOnSet(Col(r), v) \in Int
    <3> HIDE DEF Col, C
    <3> QED
      BY <2>1, SumInt
  <2> QED
    BY <2>2
<1>10. SumFunctionOnSet(Rows, s) = Rows[x] + SumFunctionOnSet(Rows, u)
  <2> HIDE DEF Rows, C
  <2> QED
    BY <1>2, <1>4, <1>5, <1>7, SumRemove
<1>11. \A r \in R : Cols(s)[r] = f[x][r] + Cols(u)[r]
  <2> SUFFICES ASSUME NEW r \in R PROVE Cols(s)[r] = f[x][r] + Cols(u)[r]
    OBVIOUS
  <2>1. Col(r)[x] = f[x][r]
    BY <1>5
  <2>2. SumFunctionOnSet(Col(r), s) = Col(r)[x] + SumFunctionOnSet(Col(r), u)
    <3> HIDE DEF Col, C
    <3> QED
      BY <1>2, <1>4, <1>5, <1>8, SumRemove
  <2> QED
    BY <2>1, <2>2
<1>12. SumFunctionOnSet(Cols(s), R) = SumFunctionOnSet(f[x], R) + SumFunctionOnSet(Cols(u), R)
  <2>1. \A r \in R : f[x][r] \in Int /\ Cols(u)[r] \in Int
    BY <1>5, <1>9
  <2> HIDE DEF Cols, C, u
  <2> QED
    BY <1>11, <2>1, SumPlus
<1>13. Rows[x] = SumFunctionOnSet(f[x], R)
  BY <1>5
<1>14. SumFunctionOnSet(Rows, s) # SumFunctionOnSet(Cols(s), R)
  BY <1>1
<1> HIDE DEF C, Cols, Rows, u
<1> QED
  BY <1>6, <1>10, <1>12, <1>13, <1>14

\* Counting is summing ones.
LEMMA SumOnes ==
  ASSUME NEW T, IsFiniteSet(T), NEW S \in SUBSET T
  PROVE  SumFunctionOnSet([i \in T |-> 1], S) = Cardinality(S)
<1> DEFINE one == [i \in T |-> 1]
           C == {s \in SUBSET T : SumFunctionOnSet(one, s) # Cardinality(s)}
<1> SUFFICES ASSUME C # {} PROVE FALSE
  OBVIOUS
<1>0. C \in SUBSET SUBSET T
  OBVIOUS
<1>1. PICK s \in C : \A U \in C : U \subseteq s => U = s
  <2> HIDE DEF C
  <2> QED
    BY <1>0, MinimalSet
<1>2. IsFiniteSet(s)
  BY FS_Subset
<1>3. s # {}
  BY <1>1, SumEmpty, FS_EmptySet
<1>4. PICK x \in s : TRUE
  BY <1>3
<1>5. s \ {x} \notin C /\ s \ {x} \in SUBSET T
  BY <1>1, <1>4
<1>6. \A y \in s : one[y] \in Int
  OBVIOUS
<1>7. one[x] = 1
  BY <1>1, <1>4
<1>8. SumFunctionOnSet(one, s) = one[x] + SumFunctionOnSet(one, s \ {x})
  <2> HIDE DEF C, one
  <2> QED
    BY <1>2, <1>6, SumRemove
<1>9. Cardinality(s \ {x}) = Cardinality(s) - 1 /\ Cardinality(s) \in Nat
  BY <1>2, FS_RemoveElement, FS_CardinalityType
<1>10. SumFunctionOnSet(one, s) # Cardinality(s)
  BY <1>1
<1>11. SumFunctionOnSet(one, s \ {x}) = Cardinality(s \ {x})
  BY <1>5
<1> HIDE DEF C, one
<1> QED
  BY <1>7, <1>8, <1>9, <1>10, <1>11

\* The sizes of the parts of a set sum up to its size.
LEMMA CountParts ==
  ASSUME NEW T, IsFiniteSet(T), NEW R, IsFiniteSet(R), NEW h, \A i \in T : h[i] \in R
  PROVE  SumFunctionOnSet([r \in R |-> Cardinality({i \in T : h[i] = r})], R) = Cardinality(T)
<1> DEFINE one == [i \in T |-> 1]
           parts == [r \in R |-> SumFunctionOnSet(one, {i \in T : h[i] = r})]
           counts == [r \in R |-> Cardinality({i \in T : h[i] = r})]
<1>1. SumFunctionOnSet(parts, R) = SumFunctionOnSet(one, T)
  <2>1. \A i \in T : one[i] \in Int
    OBVIOUS
  <2> HIDE DEF one
  <2> QED
    BY <2>1, SumParts
<1>2. \A r \in R : parts[r] = counts[r]
  <2> SUFFICES ASSUME NEW r \in R PROVE parts[r] = counts[r]
    OBVIOUS
  <2>1. {i \in T : h[i] = r} \in SUBSET T
    OBVIOUS
  <2>2. SumFunctionOnSet(one, {i \in T : h[i] = r}) = Cardinality({i \in T : h[i] = r})
    BY <2>1, SumOnes
  <2> QED
    BY <2>2
<1>3. SumFunctionOnSet(parts, R) = SumFunctionOnSet(counts, R)
  <2> HIDE DEF parts, counts
  <2> QED
    BY <1>2, SumSame
<1>4. SumFunctionOnSet(one, T) = Cardinality(T)
  BY SumOnes
<1> QED
  BY <1>1, <1>3, <1>4

\* A sum of equal values.
LEMMA SumConst ==
  ASSUME NEW S, IsFiniteSet(S), NEW c \in Int, NEW f, \A x \in S : f[x] = c
  PROVE  SumFunctionOnSet(f, S) = Cardinality(S) * c
<1> DEFINE C == {s \in SUBSET S : SumFunctionOnSet(f, s) # Cardinality(s) * c}
<1> SUFFICES ASSUME C # {} PROVE FALSE
  OBVIOUS
<1>0. C \in SUBSET SUBSET S
  OBVIOUS
<1>1. PICK s \in C : \A U \in C : U \subseteq s => U = s
  <2> HIDE DEF C
  <2> QED
    BY <1>0, MinimalSet
<1>2. IsFiniteSet(s)
  BY FS_Subset
<1>3. s # {}
  <2>1. SumFunctionOnSet(f, {}) = 0 /\ Cardinality({}) = 0
    BY SumEmpty, FS_EmptySet
  <2>2. SumFunctionOnSet(f, s) # Cardinality(s) * c
    BY <1>1
  <2>3. 0 * c = 0
    OBVIOUS
  <2> HIDE DEF C
  <2> QED
    BY <2>1, <2>2, <2>3
<1>4. PICK x \in s : TRUE
  BY <1>3
<1>5. s \ {x} \notin C /\ s \ {x} \in SUBSET S
  BY <1>1, <1>4
<1>6. \A y \in s : f[y] = c /\ f[y] \in Int
  BY <1>1
<1>7. SumFunctionOnSet(f, s) = f[x] + SumFunctionOnSet(f, s \ {x})
  <2> HIDE DEF C
  <2> QED
    BY <1>2, <1>6, SumRemove
<1>8. Cardinality(s \ {x}) = Cardinality(s) - 1 /\ Cardinality(s) \in Nat
  BY <1>2, FS_RemoveElement, FS_CardinalityType
<1>9. SumFunctionOnSet(f, s) # Cardinality(s) * c
  BY <1>1
<1>10. SumFunctionOnSet(f, s \ {x}) = Cardinality(s \ {x}) * c
  BY <1>5
<1>11. (Cardinality(s) - 1) * c + c = Cardinality(s) * c
  BY <1>8
<1>12. (Cardinality(s) - 1) * c \in Int
  BY <1>8
<1>13. f[x] = c
  BY <1>6
<1> HIDE DEF C
<1> QED
  BY <1>7, <1>8, <1>9, <1>10, <1>11, <1>12, <1>13
-----------------------------------------------------------------------------
\* The serving ranks of expert e, and the ranks at exactly their capacity.
Serving(e) == {r \in Ranks : order[e][r] # Unserved}
AtCapacity == {r \in Ranks : loads[r] = NumRows}

\* The loads always add up to the rows there are, so the capacity is NumRows.
LoadsTotal == SumFunction(loads) = NumRanks * NumRows

\* Whoever has rows of an expert serves it; replicas are numbered from 2.
ServedInOrder ==
    \A e \in Experts, r \in Ranks :
        /\ rem[e][r] > 0 => order[e][r] # Unserved
        /\ order[e][r] = Home <=> r = HomeOf(e)

\* A rank that has been a receiver is at its capacity and stays there.
Settled ==
    \A r \in Ranks :
        rhome[r] # -1 => loads[r] = NumRows \/ (pc = "move" /\ r = dst)

\* Each round brings one more rank to its capacity, unless all are there.
Progress ==
    \/ AtCapacity = Ranks
    \/ Cardinality(AtCapacity) >= it

\* The round under way: a rank above the capacity, with its own experts only,
\* fills one below it; what is moved is off one and on the other.
Moving ==
    pc = "move" =>
        /\ it < NumRanks
        /\ loads[src] > NumRows /\ loads[dst] < NumRows
        /\ rhome[src] = -1 /\ rhome[dst] = src
        /\ move >= 0
        /\ move + moved = NumRows - loads[dst]
        /\ RowsOn(src) = loads[src] - moved
        /\ RowsOn(dst) = loads[dst] + moved
        /\ \A r \in Ranks : r # src /\ r # dst => RowsOn(r) = loads[r]

\* While there is something to move, every try has used up an expert.
TriesCount ==
    pc = "move" /\ move > 0 =>
        Cardinality({e \in ExpertsOf(src) : rem[e][src] = 0}) >= tries

(* The inductive invariant of the greedy.                                   *)
GreedyInv ==
    /\ TypeOK
    /\ LoadsTotal
    /\ LoadsAreRows
    /\ ServedInOrder
    /\ SegmentsNumbered
    /\ OneSourcePerReceiver
    /\ Settled
    /\ Progress
    /\ Moving
    /\ TriesCount
    /\ pc = "done" => it = NumRanks

-----------------------------------------------------------------------------
\* Ranks and experts are finite, and every expert has a home rank.
LEMMA IndexFacts ==
  /\ IsFiniteSet(Ranks) /\ Cardinality(Ranks) = NumRanks
  /\ IsFiniteSet(Experts)
  /\ \A e \in Experts : HomeOf(e) \in Ranks
<1>1. IsFiniteSet(Ranks) /\ Cardinality(Ranks) = NumRanks
  BY NumRanksAssumption, FS_Interval DEF Ranks
<1>2. IsFiniteSet(Experts)
  <2>1. NumRanks * Epn - 1 \in Int
    BY NumRanksAssumption, EpnAssumption
  <2> QED
    BY <2>1, FS_Interval DEF Experts
<1>3. \A e \in Experts : HomeOf(e) \in Ranks
  <2> SUFFICES ASSUME NEW e \in Experts PROVE e \div Epn \in 0 .. NumRanks - 1
    BY DEF HomeOf, Ranks
  <2>1. e \in Nat /\ e < NumRanks * Epn
    BY NumRanksAssumption, EpnAssumption DEF Experts
  <2> DEFINE q == e \div Epn
  <2>2. q \in Nat /\ q * Epn <= e
    BY <2>1, EpnAssumption
  <2>3. q * Epn < NumRanks * Epn
    BY <2>1, <2>2, NumRanksAssumption, EpnAssumption
  <2> HIDE DEF q
  <2>4. q < NumRanks
    BY <2>2, <2>3, NumRanksAssumption, EpnAssumption
  <2>5. q \in 0 .. NumRanks - 1
    BY <2>2, <2>4, NumRanksAssumption
  <2> QED
    BY <2>5 DEF q
<1> QED
  BY <1>1, <1>2, <1>3

\* A rank is home of no more than Epn experts.
LEMMA ExpertsOfCard ==
  ASSUME NEW r \in Ranks
  PROVE  IsFiniteSet(ExpertsOf(r)) /\ Cardinality(ExpertsOf(r)) <= Epn
<1> DEFINE I == r * Epn .. r * Epn + Epn - 1
<1>1. r \in Nat /\ r * Epn \in Nat
  BY NumRanksAssumption, EpnAssumption DEF Ranks
<1>2. IsFiniteSet(I) /\ Cardinality(I) = Epn
  <2> DEFINE a == r * Epn
  <2>1. a \in Nat
    BY <1>1
  <2> HIDE DEF a
  <2>2. IsFiniteSet(a .. a + Epn - 1) /\ Cardinality(a .. a + Epn - 1) = Epn
    BY <2>1, EpnAssumption, FS_Interval
  <2> QED
    BY <2>2 DEF a
<1>3. ExpertsOf(r) \subseteq I
  <2> SUFFICES ASSUME NEW e \in Experts, e \div Epn = r PROVE e \in I
    BY DEF ExpertsOf, HomeOf
  <2>1. e \in Nat
    BY NumRanksAssumption, EpnAssumption DEF Experts
  <2>2. r * Epn <= e /\ e < r * Epn + Epn
    BY <2>1, EpnAssumption
  <2> QED
    BY <2>1, <2>2, <1>1, EpnAssumption
<1> HIDE DEF I
<1>4. IsFiniteSet(ExpertsOf(r)) /\ Cardinality(ExpertsOf(r)) <= Cardinality(I)
  BY <1>2, <1>3, FS_Subset
<1> QED
  BY <1>2, <1>4

\* All rows spread evenly: the capacity of a rank is its number of rows.
LEMMA CapIsRows == ASSUME LoadsTotal PROVE Cap = NumRows
<1>1. \A n \in Nat \ {0}, k \in Nat : (n * k) \div n = k
  OBVIOUS
<1> QED
  BY <1>1, NumRanksAssumption, NumRowsAssumption DEF Cap, LoadsTotal

\* The rows a rank serves, as a sum over the experts.
LEMMA RowsOnIs ==
  ASSUME NEW r PROVE RowsOn(r) = SumFunctionOnSet([e \in Experts |-> rem[e][r]], Experts)
  BY DEF RowsOn, SumFunction

\* The greedy starts with every expert at home, for every demand.
LEMMA InitInv ==
  ASSUME NEW t \in [Experts -> Nat], SumFunction(t) = NumRanks * NumRows, InitFrom(t)
  PROVE  GreedyInv
<1> USE IndexFacts
<1>1. /\ rem \in [Experts -> [Ranks -> Nat]] /\ order \in [Experts -> [Ranks -> Nat]]
      /\ \A e \in Experts, r \in Ranks :
            /\ rem[e][r] = IF r = HomeOf(e) THEN t[e] ELSE 0
            /\ order[e][r] = IF r = HomeOf(e) THEN Home ELSE Unserved
  BY DEF InitFrom, Home, Unserved
<1>2. \A r \in Ranks :
        /\ ExpertsOf(r) \subseteq Experts /\ IsFiniteSet(ExpertsOf(r))
        /\ SumFunctionOnSet(t, ExpertsOf(r)) \in Nat
  <2> SUFFICES ASSUME NEW r \in Ranks
               PROVE  /\ ExpertsOf(r) \subseteq Experts /\ IsFiniteSet(ExpertsOf(r))
                      /\ SumFunctionOnSet(t, ExpertsOf(r)) \in Nat
    OBVIOUS
  <2>1. ExpertsOf(r) \subseteq Experts
    BY DEF ExpertsOf
  <2>2. IsFiniteSet(ExpertsOf(r))
    BY <2>1, FS_Subset
  <2>3. \A x \in ExpertsOf(r) : t[x] \in Int /\ t[x] \in Nat
    BY <2>1
  <2> QED
    BY <2>1, <2>2, <2>3, SumInt
<1>3. loads \in [Ranks -> Nat] /\ \A r \in Ranks : loads[r] = SumFunctionOnSet(t, ExpertsOf(r))
  BY <1>2 DEF InitFrom
<1>4. LoadsTotal
  <2> DEFINE h == [e \in Experts |-> HomeOf(e)]
  <2>1. \A r \in Ranks : {e \in Experts : h[e] = r} = ExpertsOf(r)
    BY DEF ExpertsOf
  <2>2. SumFunctionOnSet([r \in Ranks |-> SumFunctionOnSet(t, {e \in Experts : h[e] = r})], Ranks)
          = SumFunctionOnSet(t, Experts)
    <3>1. \A e \in Experts : h[e] \in Ranks /\ t[e] \in Int
      OBVIOUS
    <3> HIDE DEF h
    <3> QED
      BY <3>1, SumParts
  <2>3. loads = [r \in Ranks |-> SumFunctionOnSet(t, {e \in Experts : h[e] = r})]
    BY <2>1 DEF InitFrom
  <2> HIDE DEF h
  <2>4. SumFunction(loads) = SumFunctionOnSet(loads, Ranks)
    BY <1>3 DEF SumFunction
  <2>5. SumFunction(t) = SumFunctionOnSet(t, Experts)
    BY DEF SumFunction
  <2> QED
    BY <2>2, <2>3, <2>4, <2>5 DEF LoadsTotal
<1>5. LoadsAreRows
  <2> SUFFICES ASSUME NEW r \in Ranks PROVE loads[r] = RowsOn(r)
    BY DEF LoadsAreRows
  <2> DEFINE f == [e \in Experts |-> rem[e][r]]
  <2>1. \A e \in Experts : f[e] = IF e \in ExpertsOf(r) THEN t[e] ELSE 0
    BY <1>1 DEF ExpertsOf
  <2>2. \A e \in Experts : f[e] \in Int
    BY <2>1
  <2>3. \A e \in Experts \ ExpertsOf(r) : f[e] = 0
    BY <2>1
  <2>4. \A e \in ExpertsOf(r) : f[e] = t[e]
    BY <1>2, <2>1
  <2>5. RowsOn(r) = SumFunctionOnSet(f, Experts)
    BY RowsOnIs
  <2> HIDE DEF f
  <2>6. SumFunctionOnSet(f, Experts) = SumFunctionOnSet(f, ExpertsOf(r))
    BY <1>2, <2>2, <2>3, SumSupport
  <2>7. SumFunctionOnSet(f, ExpertsOf(r)) = SumFunctionOnSet(t, ExpertsOf(r))
    BY <1>2, <2>4, SumSame
  <2> QED
    BY <1>3, <2>5, <2>6, <2>7
<1>6. TypeOK
  BY <1>1, <1>3, NumRanksAssumption, EpnAssumption DEF TypeOK, InitFrom, Ranks
<1>7. ServedInOrder
  BY <1>1 DEF ServedInOrder, Home, Unserved
<1>8. SegmentsNumbered
  <2> SUFFICES ASSUME NEW e \in Experts
               PROVE  /\ order[e][HomeOf(e)] = Home
                      /\ {order[e][r] : r \in Serving(e)} = 1 .. Cardinality(Serving(e))
                      /\ \A r \in Ranks : rem[e][r] > 0 => r \in Serving(e)
    BY DEF SegmentsNumbered, Serving
  <2>1. Serving(e) = {HomeOf(e)}
    BY <1>1 DEF Serving, Home, Unserved
  <2>2. Cardinality(Serving(e)) = 1
    BY <2>1, FS_Singleton
  <2>3. {order[e][r] : r \in Serving(e)} = {1}
    BY <1>1, <2>1 DEF Home
  <2> QED
    BY <1>1, <2>1, <2>2, <2>3 DEF Home
<1>9. OneSourcePerReceiver
  BY <1>1 DEF OneSourcePerReceiver, Home, Unserved, FirstReplica
<1>10. Settled
  BY DEF Settled, InitFrom
<1>11. Progress
  <2>1. IsFiniteSet(AtCapacity)
    BY FS_Subset DEF AtCapacity
  <2>2. Cardinality(AtCapacity) \in Nat
    BY <2>1, FS_CardinalityType
  <2> QED
    BY <2>2 DEF Progress, InitFrom
<1> QED
  BY <1>4, <1>5, <1>6, <1>7, <1>8, <1>9, <1>10, <1>11
  DEF GreedyInv, Moving, TriesCount, InitFrom

-----------------------------------------------------------------------------
\* What a round may rely on: the capacity and the sums behind it.
LEMMA LoadsFacts ==
  ASSUME TypeOK, LoadsTotal
  PROVE  /\ Cap = NumRows
         /\ loads \in [Ranks -> Nat]
         /\ SumFunctionOnSet(loads, Ranks) = NumRanks * NumRows
         /\ IsFiniteSet(AtCapacity) /\ Cardinality(AtCapacity) \in Nat
         /\ Cardinality(AtCapacity) <= NumRanks
         /\ Cardinality(AtCapacity) >= NumRanks => AtCapacity = Ranks
<1>1. Cap = NumRows
  BY CapIsRows
<1>2. loads \in [Ranks -> Nat] /\ SumFunctionOnSet(loads, Ranks) = NumRanks * NumRows
  BY DEF TypeOK, LoadsTotal, SumFunction
<1>3. AtCapacity \subseteq Ranks
  BY DEF AtCapacity
<1>4. /\ IsFiniteSet(AtCapacity) /\ Cardinality(AtCapacity) \in Nat
      /\ Cardinality(AtCapacity) <= NumRanks
      /\ Cardinality(AtCapacity) = NumRanks => AtCapacity = Ranks
  BY <1>3, IndexFacts, FS_Subset, FS_CardinalityType
<1> QED
  BY <1>1, <1>2, <1>4, NumRanksAssumption

\* If nobody is above the capacity, everybody is at it.
LEMMA NobodyAbove ==
  ASSUME TypeOK, LoadsTotal, \A r \in Ranks : loads[r] <= NumRows
  PROVE  AtCapacity = Ranks
<1>1. \A r \in Ranks : loads[r] \in Int /\ loads[r] <= NumRows
  BY DEF TypeOK
<1>2. SumFunctionOnSet(loads, Ranks) >= Cardinality(Ranks) * NumRows
  BY LoadsFacts, IndexFacts, NumRanksAssumption, NumRowsAssumption
<1>3. NumRows \in Int
  BY NumRowsAssumption
<1>4. \A r \in Ranks : loads[r] = NumRows
  BY <1>1, <1>2, <1>3, IndexFacts, SumFull
<1> QED
  BY <1>4 DEF AtCapacity

\* If somebody is above it, the least loaded rank is below it.
LEMMA SomebodyBelow ==
  ASSUME TypeOK, LoadsTotal, NEW s \in Ranks, loads[s] > NumRows,
         NEW d \in Ranks, LeastLoaded(d)
  PROVE  loads[d] < NumRows
<1> SUFFICES ASSUME ~ (loads[d] < NumRows) PROVE FALSE
  OBVIOUS
<1> DEFINE f == [r \in Ranks |-> 0 - loads[r]]
<1>1. loads \in [Ranks -> Nat] /\ NumRows \in Nat
  BY NumRowsAssumption DEF TypeOK
<1>2. \A r \in Ranks : loads[r] >= NumRows
  BY <1>1 DEF LeastLoaded
<1>3. \A r \in Ranks : f[r] \in Int /\ f[r] <= 0 - NumRows
  BY <1>1, <1>2
<1>4. SumFunctionOnSet(f, Ranks) + SumFunctionOnSet(loads, Ranks) = 0
  <2> DEFINE z == [r \in Ranks |-> 0]
  <2>1. \A r \in Ranks : f[r] \in Int /\ loads[r] \in Int /\ z[r] = f[r] + loads[r]
    BY <1>1
  <2>2. \A r \in Ranks : z[r] = 0
    OBVIOUS
  <2> HIDE DEF f, z
  <2>3. SumFunctionOnSet(z, Ranks) = SumFunctionOnSet(f, Ranks) + SumFunctionOnSet(loads, Ranks)
    BY <2>1, IndexFacts, SumPlus
  <2>4. SumFunctionOnSet(z, Ranks) = 0
    BY <2>2, IndexFacts, SumZero
  <2> QED
    BY <2>3, <2>4
<1>5. SumFunctionOnSet(f, Ranks) \in Int /\ SumFunctionOnSet(loads, Ranks) \in Int
  <2>1. \A r \in Ranks : f[r] \in Int /\ loads[r] \in Int
    BY <1>1
  <2> HIDE DEF f
  <2> QED
    BY <2>1, IndexFacts, SumInt
<1>6. SumFunctionOnSet(f, Ranks) >= Cardinality(Ranks) * (0 - NumRows)
  <2>1. NumRanks * (0 - NumRows) = 0 - NumRanks * NumRows /\ NumRanks * NumRows \in Int
    BY <1>1, NumRanksAssumption
  <2>2. SumFunctionOnSet(loads, Ranks) = NumRanks * NumRows
    BY LoadsFacts
  <2> HIDE DEF f
  <2> QED
    BY <1>4, <1>5, <2>1, <2>2, IndexFacts
<1>7. f[s] = 0 - NumRows
  <2>1. 0 - NumRows \in Int
    BY <1>1
  <2> HIDE DEF f
  <2> QED
    BY <1>3, <1>6, <2>1, IndexFacts, SumFull
<1> QED
  BY <1>1, <1>7

\* A rank that has not been a receiver has rows of its own experts only.
LEMMA OwnOnly ==
  ASSUME TypeOK, ServedInOrder, OneSourcePerReceiver,
         NEW r \in Ranks, rhome[r] = -1, NEW e \in Experts, HomeOf(e) # r
  PROVE  rem[e][r] = 0 /\ order[e][r] = Unserved
<1>1. order[e][r] \in Nat /\ rem[e][r] \in Nat
  BY DEF TypeOK
<1>2. order[e][r] # Home
  BY DEF ServedInOrder
<1>3. ~ (order[e][r] >= FirstReplica)
  BY IndexFacts, NumRanksAssumption DEF OneSourcePerReceiver, Ranks
<1>4. order[e][r] = Unserved
  BY <1>1, <1>2, <1>3 DEF Home, FirstReplica, Unserved
<1>5. ~ (rem[e][r] > 0)
  BY <1>4 DEF ServedInOrder
<1> QED
  BY <1>1, <1>4, <1>5

\* The source of a round has rows left as long as the round lasts.
LEMMA SourceHasRows ==
  ASSUME GreedyInv, pc = "move"
  PROVE  \E e \in ExpertsOf(src) : rem[e][src] > 0
<1> SUFFICES ASSUME \A e \in ExpertsOf(src) : ~ (rem[e][src] > 0) PROVE FALSE
  OBVIOUS
<1>1. TypeOK /\ ServedInOrder /\ OneSourcePerReceiver /\ Moving
  BY DEF GreedyInv
<1>2. src \in Ranks /\ dst \in Ranks /\ loads[src] \in Nat /\ loads[dst] \in Nat
  BY <1>1 DEF TypeOK
<1>3. \A e \in Experts : rem[e][src] = 0
  <2> SUFFICES ASSUME NEW e \in Experts PROVE rem[e][src] = 0
    OBVIOUS
  <2>1. CASE HomeOf(e) = src
    BY <1>1, <1>2, <2>1 DEF ExpertsOf, TypeOK
  <2>2. CASE HomeOf(e) # src
    BY <1>1, <1>2, <2>2, OwnOnly DEF Moving
  <2> QED
    BY <2>1, <2>2
<1>4. RowsOn(src) = 0
  <2> DEFINE f == [e \in Experts |-> rem[e][src]]
  <2>1. \A e \in Experts : f[e] = 0
    BY <1>3
  <2> HIDE DEF f
  <2>2. SumFunctionOnSet(f, Experts) = 0
    BY <2>1, IndexFacts, SumZero
  <2> QED
    BY <2>2, RowsOnIs DEF f
<1> QED
  BY <1>1, <1>2, <1>4, NumRowsAssumption DEF Moving, TypeOK

\* A round has moved all it wanted to when it has looked at every expert.
LEMMA AllMoved ==
  ASSUME GreedyInv, pc = "move", tries = Epn
  PROVE  move = 0
<1> SUFFICES ASSUME move > 0 PROVE FALSE
  BY DEF GreedyInv, TypeOK, Moving
<1> DEFINE Z == {e \in ExpertsOf(src) : rem[e][src] = 0}
<1>1. src \in Ranks
  BY DEF GreedyInv, TypeOK
<1>2. Cardinality(Z) >= Epn
  BY DEF GreedyInv, TriesCount
<1>3. Z \subseteq ExpertsOf(src)
  OBVIOUS
<1>4. IsFiniteSet(ExpertsOf(src)) /\ Cardinality(ExpertsOf(src)) <= Epn
  BY <1>1, ExpertsOfCard
<1> HIDE DEF Z
<1>5. Z = ExpertsOf(src)
  <2>1. /\ Cardinality(Z) <= Cardinality(ExpertsOf(src))
        /\ Cardinality(Z) = Cardinality(ExpertsOf(src)) => Z = ExpertsOf(src)
    BY <1>3, <1>4, FS_Subset
  <2>2. Cardinality(Z) \in Nat /\ Cardinality(ExpertsOf(src)) \in Nat
    BY <1>3, <1>4, FS_Subset, FS_CardinalityType
  <2> QED
    BY <1>2, <1>4, <2>1, <2>2, EpnAssumption
<1>6. PICK e \in ExpertsOf(src) : rem[e][src] > 0
  BY SourceHasRows
<1> QED
  BY <1>5, <1>6 DEF Z

-----------------------------------------------------------------------------
\* The steps between rounds leave the tables alone.
LEMMA StartRoundKeeps == ASSUME GreedyInv, StartRound PROVE GreedyInv'
<1>1. /\ pc = "round" /\ it < NumRanks /\ moved' = 0 /\ tries' = 0 /\ pc' = "move"
      /\ rem' = rem /\ order' = order /\ loads' = loads /\ it' = it
  BY DEF StartRound
<1>2. PICK s \in Ranks, d \in Ranks :
        /\ MostLoaded(s) /\ loads[s] > Cap /\ LeastLoaded(d)
        /\ src' = s /\ dst' = d /\ move' = Cap - loads[d]
        /\ rhome' = [rhome EXCEPT ![d] = s]
  BY DEF StartRound
<1>3. TypeOK /\ LoadsTotal /\ LoadsAreRows /\ OneSourcePerReceiver /\ Settled
  BY DEF GreedyInv
<1>4. Cap = NumRows /\ loads \in [Ranks -> Nat] /\ NumRows \in Nat
  BY <1>3, LoadsFacts, NumRowsAssumption
<1>5. loads[d] < NumRows /\ loads[s] > NumRows /\ s # d
  BY <1>2, <1>3, <1>4, SomebodyBelow
<1>6. rhome \in [Ranks -> Ranks \cup {-1}] /\ rhome[d] = -1 /\ rhome[s] = -1
  BY <1>1, <1>3, <1>4, <1>5 DEF TypeOK, Settled
<1>7. rhome'[d] = s /\ \A r \in Ranks : r # d => rhome'[r] = rhome[r]
  BY <1>2, <1>6
<1>8. TypeOK'
  BY <1>1, <1>2, <1>3, <1>4, <1>5, EpnAssumption DEF TypeOK
<1>9. LoadsTotal' /\ LoadsAreRows' /\ ServedInOrder' /\ SegmentsNumbered'
  <2>1. LoadsTotal' /\ ServedInOrder'
    BY <1>1 DEF GreedyInv, LoadsTotal, ServedInOrder
  <2>2. SegmentsNumbered'
    BY <1>1 DEF GreedyInv, SegmentsNumbered
  <2>3. LoadsAreRows'
    BY <1>1 DEF LoadsAreRows
  <2> QED
    BY <2>1, <2>2, <2>3
<1>10. OneSourcePerReceiver'
  <2> SUFFICES ASSUME NEW r \in Ranks, NEW e \in Experts, order[e][r] >= FirstReplica
               PROVE  HomeOf(e) = rhome'[r]
    BY <1>1 DEF OneSourcePerReceiver
  <2>1. HomeOf(e) = rhome[r] /\ HomeOf(e) \in Ranks
    BY <1>3, IndexFacts DEF OneSourcePerReceiver
  <2>2. r # d
    BY <1>6, <2>1, NumRanksAssumption DEF Ranks
  <2> QED
    BY <1>7, <2>1, <2>2
<1>11. Settled'
  BY <1>1, <1>2, <1>3, <1>7 DEF Settled
<1>12. Progress'
  BY <1>1 DEF GreedyInv, Progress, AtCapacity
<1>13. \A r \in Ranks : RowsOn(r)' = loads[r]
  BY <1>1, <1>3 DEF LoadsAreRows, RowsOn
<1>14. Moving'
  <2>1. RowsOn(src)' = loads[s] /\ RowsOn(dst)' = loads[d]
    <3>1. RowsOn(src)' = RowsOn(s)' /\ RowsOn(dst)' = RowsOn(d)'
      BY <1>2 DEF RowsOn
    <3> QED
      BY <1>13, <3>1
  <2> QED
    BY <1>1, <1>2, <1>4, <1>5, <1>6, <1>7, <1>13, <2>1 DEF Moving
<1>15. TriesCount'
  <2> DEFINE Z == {e \in ExpertsOf(s) : rem[e][s] = 0}
  <2>1. IsFiniteSet(Z) /\ Cardinality(Z) \in Nat
    BY ExpertsOfCard, FS_Subset, FS_CardinalityType
  <2> QED
    BY <1>1, <1>2, <2>1 DEF TriesCount, ExpertsOf
<1>16. (pc = "done" => it = NumRanks)'
  BY <1>1
<1> QED
  BY <1>8, <1>9, <1>10, <1>11, <1>12, <1>14, <1>15, <1>16 DEF GreedyInv

\* A round in which no rank is above its capacity: all are at it.
LEMMA IdleRoundKeeps == ASSUME GreedyInv, IdleRound PROVE GreedyInv'
<1>1. /\ pc = "round" /\ it < NumRanks /\ it' = it + 1 /\ pc' = pc
      /\ rem' = rem /\ order' = order /\ loads' = loads /\ rhome' = rhome
      /\ src' = src /\ dst' = dst /\ move' = move /\ moved' = moved /\ tries' = tries
      /\ \A r \in Ranks : loads[r] <= Cap
  BY DEF IdleRound
<1>2. TypeOK /\ LoadsTotal
  BY DEF GreedyInv
<1>3. AtCapacity = Ranks
  BY <1>1, <1>2, LoadsFacts, NobodyAbove
<1>4. TypeOK'
  BY <1>1, <1>2, NumRanksAssumption DEF TypeOK
<1>5. LoadsTotal' /\ LoadsAreRows' /\ ServedInOrder' /\ SegmentsNumbered'
      /\ OneSourcePerReceiver' /\ Settled'
  BY <1>1 DEF GreedyInv, LoadsTotal, LoadsAreRows, RowsOn, ServedInOrder, SegmentsNumbered,
              OneSourcePerReceiver, Settled
<1>6. Progress'
  BY <1>1, <1>3 DEF Progress, AtCapacity
<1> QED
  BY <1>1, <1>4, <1>5, <1>6 DEF GreedyInv, Moving, TriesCount

\* After NumRanks rounds the greedy is done.
LEMMA FinishKeeps == ASSUME GreedyInv, Finish PROVE GreedyInv'
<1>1. /\ pc = "round" /\ it = NumRanks /\ it' = it /\ pc' = "done"
      /\ rem' = rem /\ order' = order /\ loads' = loads /\ rhome' = rhome
      /\ src' = src /\ dst' = dst /\ move' = move /\ moved' = moved /\ tries' = tries
  BY DEF Finish
<1>2. TypeOK'
  BY <1>1 DEF GreedyInv, TypeOK
<1>3. LoadsTotal' /\ LoadsAreRows' /\ Settled' /\ Progress'
  BY <1>1 DEF GreedyInv, LoadsTotal, LoadsAreRows, RowsOn, Settled, Progress, AtCapacity
<1>4. ServedInOrder' /\ SegmentsNumbered' /\ OneSourcePerReceiver'
  BY <1>1 DEF GreedyInv, ServedInOrder, SegmentsNumbered, OneSourcePerReceiver
<1> QED
  BY <1>1, <1>2, <1>3, <1>4 DEF GreedyInv, Moving, TriesCount

\* A try that finds nothing left to move, or no home row on the source.
LEMMA SkipExpertKeeps == ASSUME GreedyInv, SkipExpert PROVE GreedyInv'
<1>1. /\ pc = "move" /\ tries < Epn /\ tries' = tries + 1 /\ pc' = pc /\ it' = it
      /\ rem' = rem /\ order' = order /\ loads' = loads /\ rhome' = rhome
      /\ src' = src /\ dst' = dst /\ move' = move /\ moved' = moved
      /\ move <= 0 \/ \A e \in ExpertsOf(src) : rem[e][src] <= 0
  BY DEF SkipExpert
<1>2. TypeOK /\ Moving
  BY DEF GreedyInv
<1>3. move = 0
  <2>1. PICK e \in ExpertsOf(src) : rem[e][src] > 0
    BY <1>1, SourceHasRows
  <2>2. rem[e][src] \in Nat
    BY <1>2 DEF TypeOK, ExpertsOf
  <2> QED
    BY <1>1, <1>2, <2>1, <2>2 DEF TypeOK, Moving
<1>4. TypeOK'
  BY <1>1, <1>2, EpnAssumption DEF TypeOK
<1>5. LoadsTotal' /\ Settled' /\ Progress'
  BY <1>1 DEF GreedyInv, LoadsTotal, Settled, Progress, AtCapacity
<1>6. LoadsAreRows' /\ Moving'
  BY <1>1 DEF GreedyInv, LoadsAreRows, RowsOn, Moving
<1>7. ServedInOrder' /\ OneSourcePerReceiver'
  BY <1>1 DEF GreedyInv, ServedInOrder, OneSourcePerReceiver
<1>8. SegmentsNumbered'
  BY <1>1 DEF GreedyInv, SegmentsNumbered
<1> QED
  BY <1>1, <1>3, <1>4, <1>5, <1>6, <1>7, <1>8 DEF GreedyInv, TriesCount

\* The end of a round: the receiver's books are set to the capacity, and the
\* rows it has are as many, because everything wanted was moved.
LEMMA EndRoundKeeps == ASSUME GreedyInv, EndRound PROVE GreedyInv'
<1>1. /\ pc = "move" /\ tries = Epn /\ it' = it + 1 /\ pc' = "round"
      /\ loads' = [[loads EXCEPT ![src] = @ - moved] EXCEPT ![dst] = Cap]
      /\ rem' = rem /\ order' = order /\ rhome' = rhome
      /\ src' = src /\ dst' = dst /\ move' = move /\ moved' = moved /\ tries' = tries
  BY DEF EndRound
<1>2. TypeOK /\ LoadsTotal /\ Settled /\ Progress
  BY DEF GreedyInv
<1>3. /\ it < NumRanks /\ loads[src] > NumRows /\ loads[dst] < NumRows
      /\ rhome[src] = -1 /\ rhome[dst] = src
      /\ move + moved = NumRows - loads[dst]
      /\ RowsOn(src) = loads[src] - moved /\ RowsOn(dst) = loads[dst] + moved
      /\ \A r \in Ranks : r # src /\ r # dst => RowsOn(r) = loads[r]
  BY <1>1 DEF GreedyInv, Moving
<1>4. /\ Cap = NumRows /\ loads \in [Ranks -> Nat] /\ NumRows \in Nat
      /\ src \in Ranks /\ dst \in Ranks /\ moved \in Nat /\ move \in Int
      /\ rhome \in [Ranks -> Ranks \cup {-1}] /\ it \in 0 .. NumRanks
  BY <1>2, LoadsFacts, NumRowsAssumption DEF TypeOK
<1>5. src # dst
  BY <1>3, <1>4
<1>6. moved = NumRows - loads[dst]
  BY <1>1, <1>3, <1>4, AllMoved
<1>7. /\ loads'[src] = loads[src] - moved /\ loads'[dst] = NumRows
      /\ \A r \in Ranks : r # src /\ r # dst => loads'[r] = loads[r]
  BY <1>1, <1>4, <1>5
<1>8. loads' \in [Ranks -> Nat]
  <2>1. loads[src] - moved \in Nat
    BY <1>3, <1>4, <1>6
  <2> QED
    BY <1>1, <1>4, <2>1
<1>9. TypeOK'
  BY <1>1, <1>2, <1>3, <1>4, <1>8, NumRanksAssumption DEF TypeOK
<1>10. LoadsTotal'
  <2> DEFINE half == [loads EXCEPT ![src] = @ - moved]
  <2>1. half \in [Ranks -> Int] /\ half[src] = loads[src] - moved /\ half[dst] = loads[dst]
        /\ \A r \in Ranks \ {src} : half[r] = loads[r]
    BY <1>4, <1>5
  <2>2. \A r \in Ranks \ {dst} : loads'[r] = half[r]
    BY <1>7, <2>1
  <2>3. SumFunctionOnSet(half, Ranks)
          = SumFunctionOnSet(loads, Ranks) - loads[src] + half[src]
    <3>1. \A r \in Ranks : loads[r] \in Int /\ half[r] \in Int
      BY <1>4, <2>1
    <3> HIDE DEF half
    <3> QED
      BY <1>4, <2>1, <3>1, IndexFacts, SumChange
  <2>4. SumFunctionOnSet(loads', Ranks)
          = SumFunctionOnSet(half, Ranks) - half[dst] + loads'[dst]
    <3>1. \A r \in Ranks : half[r] \in Int /\ loads'[r] \in Int
      BY <1>8, <2>1
    <3> HIDE DEF half
    <3> QED
      BY <1>4, <2>2, <3>1, IndexFacts, SumChange
  <2>5. SumFunctionOnSet(loads, Ranks) = NumRanks * NumRows
    BY <1>2, LoadsFacts
  <2>6. NumRanks * NumRows \in Int
    BY <1>4, NumRanksAssumption
  <2> HIDE DEF half
  <2>7. SumFunctionOnSet(loads', Ranks) = NumRanks * NumRows
    BY <1>3, <1>4, <1>6, <1>7, <2>1, <2>3, <2>4, <2>5, <2>6
  <2>8. DOMAIN loads' = Ranks
    BY <1>8
  <2> QED
    BY <2>7, <2>8 DEF LoadsTotal, SumFunction
<1>11. LoadsAreRows'
  <2> SUFFICES ASSUME NEW r \in Ranks PROVE loads'[r] = RowsOn(r)'
    BY DEF LoadsAreRows
  <2>1. RowsOn(r)' = RowsOn(r)
    BY <1>1 DEF RowsOn
  <2>2. CASE r = src
    BY <1>3, <1>7, <2>1, <2>2
  <2>3. CASE r = dst
    BY <1>3, <1>4, <1>6, <1>7, <2>1, <2>3
  <2>4. CASE r # src /\ r # dst
    BY <1>3, <1>7, <2>1, <2>4
  <2> QED
    BY <2>2, <2>3, <2>4
<1>12. ServedInOrder' /\ SegmentsNumbered' /\ OneSourcePerReceiver'
  BY <1>1 DEF GreedyInv, ServedInOrder, SegmentsNumbered, OneSourcePerReceiver
<1>13. Settled'
  <2> SUFFICES ASSUME NEW r \in Ranks, rhome[r] # -1 PROVE loads'[r] = NumRows
    BY <1>1 DEF Settled
  <2>1. r # src
    BY <1>3
  <2>2. CASE r = dst
    BY <1>7, <2>2
  <2>3. CASE r # dst
    BY <1>2, <1>7, <2>1, <2>3 DEF Settled
  <2> QED
    BY <2>2, <2>3
<1>14. Progress'
  <2>1. IsFiniteSet(AtCapacity) /\ Cardinality(AtCapacity) \in Nat /\ dst \notin AtCapacity
        /\ AtCapacity # Ranks
    BY <1>2, <1>3, <1>4, LoadsFacts DEF AtCapacity
  <2>2. Cardinality(AtCapacity \cup {dst}) = Cardinality(AtCapacity) + 1
    BY <2>1, FS_AddElement
  <2>3. AtCapacity \cup {dst} \subseteq AtCapacity'
    BY <1>3, <1>4, <1>7 DEF AtCapacity
  <2>4. IsFiniteSet(AtCapacity') /\ Cardinality(AtCapacity') \in Nat
    <3>1. AtCapacity' \subseteq Ranks
      BY DEF AtCapacity
    <3> QED
      BY <3>1, IndexFacts, FS_Subset, FS_CardinalityType
  <2>5. Cardinality(AtCapacity') >= Cardinality(AtCapacity) + 1
    BY <2>1, <2>2, <2>3, <2>4, FS_Subset
  <2>6. Cardinality(AtCapacity) >= it
    BY <1>2, <2>1 DEF Progress
  <2> QED
    BY <1>1, <1>4, <2>1, <2>4, <2>5, <2>6 DEF Progress
<1> QED
  BY <1>1, <1>9, <1>10, <1>11, <1>12, <1>13, <1>14 DEF GreedyInv, Moving, TriesCount

\* One expert's rows move: what is off the source is on the receiver, and the
\* receiver has a segment number that is one more than there were.
LEMMA MoveExpertKeeps == ASSUME GreedyInv, MoveExpert PROVE GreedyInv'
<1>1. /\ pc = "move" /\ tries < Epn /\ move > 0 /\ tries' = tries + 1
      /\ loads' = loads /\ rhome' = rhome /\ it' = it /\ pc' = pc /\ src' = src /\ dst' = dst
  BY DEF MoveExpert
<1>2. PICK e \in Experts :
        /\ Largest(e, src)
        /\ order' = [order EXCEPT ![e][dst] = NextOrder(e, dst)]
        /\ rem' = [rem EXCEPT ![e][src] = @ - MinOf(rem[e][src], move),
                              ![e][dst] = @ + MinOf(rem[e][src], move)]
        /\ move' = move - MinOf(rem[e][src], move)
        /\ moved' = moved + MinOf(rem[e][src], move)
  BY DEF MoveExpert
<1> DEFINE take == MinOf(rem[e][src], move)
<1>3. TypeOK /\ ServedInOrder /\ SegmentsNumbered /\ OneSourcePerReceiver /\ TriesCount
  BY DEF GreedyInv
<1>4. /\ it < NumRanks /\ loads[src] > NumRows /\ loads[dst] < NumRows
      /\ rhome[src] = -1 /\ rhome[dst] = src /\ move >= 0
      /\ move + moved = NumRows - loads[dst]
      /\ RowsOn(src) = loads[src] - moved /\ RowsOn(dst) = loads[dst] + moved
      /\ \A r \in Ranks : r # src /\ r # dst => RowsOn(r) = loads[r]
  BY <1>1 DEF GreedyInv, Moving
<1>5. /\ loads \in [Ranks -> Nat] /\ NumRows \in Nat
      /\ src \in Ranks /\ dst \in Ranks /\ moved \in Nat /\ move \in Int
      /\ rem \in [Experts -> [Ranks -> Nat]] /\ order \in [Experts -> [Ranks -> Nat]]
  BY <1>3, NumRowsAssumption DEF TypeOK
<1>6. src # dst
  BY <1>4, <1>5
<1>7. e \in ExpertsOf(src) /\ HomeOf(e) = src /\ rem[e][src] > 0
  BY <1>2 DEF Largest, ExpertsOf
<1>8. /\ take \in Nat /\ take > 0 /\ take <= rem[e][src] /\ take <= move
      /\ take = rem[e][src] \/ take = move
  BY <1>1, <1>5, <1>7 DEF MinOf
<1>9. move' = move - take /\ moved' = moved + take
  BY <1>2
<1>10. /\ rem' \in [Experts -> [Ranks -> Nat]]
       /\ rem'[e][src] = rem[e][src] - take /\ rem'[e][dst] = rem[e][dst] + take
       /\ \A f \in Experts, r \in Ranks :
             f # e \/ (r # src /\ r # dst) => rem'[f][r] = rem[f][r]
  <2>1. rem' = [rem EXCEPT ![e][src] = @ - take, ![e][dst] = @ + take]
    BY <1>2
  <2>2. rem[e][src] \in Nat /\ rem[e][dst] \in Nat /\ rem[e][src] - take \in Nat
        /\ rem[e][dst] + take \in Nat
    BY <1>5, <1>8
  <2> HIDE DEF take
  <2> QED
    BY <1>5, <1>6, <2>1, <2>2
<1> DEFINE n == Cardinality(Serving(e))
<1>11. IsFiniteSet(Serving(e)) /\ n \in Nat \ {0} /\ src \in Serving(e)
  <2>1. IsFiniteSet(Serving(e))
    BY IndexFacts, FS_Subset DEF Serving
  <2>2. src \in Serving(e)
    BY <1>3, <1>5, <1>7 DEF Serving, ServedInOrder, Home, Unserved
  <2>3. n \in Nat /\ n # 0
    BY <2>1, <2>2, FS_CardinalityType, FS_EmptySet
  <2> QED
    BY <2>1, <2>2, <2>3
<1>12. Serving(e) = {r \in Ranks : order[e][r] > Unserved}
  BY <1>5 DEF Serving, Unserved
<1>13. NextOrder(e, dst) = IF order[e][dst] = Unserved THEN n + 1 ELSE order[e][dst]
  BY <1>12 DEF NextOrder
<1>14. order[e][dst] # Home
  BY <1>3, <1>5, <1>6, <1>7 DEF ServedInOrder
<1>15. NextOrder(e, dst) \in Nat /\ NextOrder(e, dst) >= FirstReplica
  <2>1. order[e][dst] \in Nat
    BY <1>5
  <2> QED
    BY <1>11, <1>13, <1>14, <2>1 DEF Home, Unserved, FirstReplica
<1>16. /\ order' \in [Experts -> [Ranks -> Nat]]
       /\ order'[e][dst] = NextOrder(e, dst)
       /\ \A f \in Experts, r \in Ranks : f # e \/ r # dst => order'[f][r] = order[f][r]
       /\ \A f \in Experts : f # e => order'[f] = order[f]
  BY <1>2, <1>5, <1>15
<1> HIDE DEF take, n
<1>17. TypeOK'
  <2>1. move' \in Int /\ moved' \in Nat /\ tries' \in 0 .. Epn
    BY <1>1, <1>3, <1>5, <1>8, <1>9, EpnAssumption DEF TypeOK
  <2> QED
    BY <1>1, <1>3, <1>10, <1>16, <2>1 DEF TypeOK
<1>18. LoadsTotal' /\ LoadsAreRows' /\ Settled' /\ Progress'
  BY <1>1 DEF GreedyInv, LoadsTotal, LoadsAreRows, Settled, Progress, AtCapacity
<1>19. ServedInOrder'
  <2> SUFFICES ASSUME NEW f \in Experts, NEW r \in Ranks
               PROVE  /\ rem'[f][r] > 0 => order'[f][r] # Unserved
                      /\ order'[f][r] = Home <=> r = HomeOf(f)
    BY DEF ServedInOrder
  <2>1. CASE f = e /\ r = dst
    BY <1>6, <1>7, <1>15, <1>16, <2>1 DEF Home, Unserved, FirstReplica
  <2>2. CASE f = e /\ r = src
    BY <1>6, <1>7, <1>3, <1>16, <2>2 DEF ServedInOrder, Home, Unserved
  <2>3. CASE f # e \/ (r # src /\ r # dst)
    BY <1>3, <1>10, <1>16, <2>3 DEF ServedInOrder
  <2> QED
    BY <2>1, <2>2, <2>3
<1>20. OneSourcePerReceiver'
  <2> SUFFICES ASSUME NEW f \in Experts, NEW r \in Ranks, order'[f][r] >= FirstReplica
               PROVE  HomeOf(f) = rhome[r]
    BY <1>1 DEF OneSourcePerReceiver
  <2>1. CASE f = e /\ r = dst
    BY <1>4, <1>7, <2>1
  <2>2. CASE f # e \/ r # dst
    BY <1>3, <1>16, <2>2 DEF OneSourcePerReceiver
  <2> QED
    BY <2>1, <2>2
<1>21. SegmentsNumbered'
  <2> SUFFICES ASSUME NEW f \in Experts
               PROVE  LET serving == {r \in Ranks : order'[f][r] # Unserved}
                      IN  /\ order'[f][HomeOf(f)] = Home
                          /\ {order'[f][r] : r \in serving} = 1 .. Cardinality(serving)
                          /\ \A r \in Ranks : rem'[f][r] > 0 => r \in serving
    BY DEF SegmentsNumbered
  <2> DEFINE after == {r \in Ranks : order'[f][r] # Unserved}
  <2>1. order'[f][HomeOf(f)] = Home
    BY <1>19, IndexFacts DEF ServedInOrder
  <2>2. \A r \in Ranks : rem'[f][r] > 0 => r \in after
    BY <1>19 DEF ServedInOrder
  <2>3. {order'[f][r] : r \in after} = 1 .. Cardinality(after)
    <3>1. CASE f # e
      <4>1. order'[f] = order[f]
        BY <1>16, <3>1
      <4>2. {order[f][r] : r \in Serving(f)} = 1 .. Cardinality(Serving(f))
        BY <1>3 DEF SegmentsNumbered, Serving
      <4> QED
        BY <4>1, <4>2 DEF Serving
    <3>2. CASE f = e /\ order[e][dst] # Unserved
      <4>1. \A r \in Ranks : order'[e][r] = order[e][r]
        BY <1>13, <1>16, <3>2
      <4>2. {order[e][r] : r \in Serving(e)} = 1 .. Cardinality(Serving(e))
        BY <1>3 DEF SegmentsNumbered, Serving
      <4>3. after = Serving(e)
        BY <3>2, <4>1 DEF Serving
      <4>4. {order'[f][r] : r \in after} = {order[e][r] : r \in Serving(e)}
        BY <3>2, <4>1, <4>3 DEF Serving
      <4> QED
        BY <4>2, <4>3, <4>4
    <3>3. CASE f = e /\ order[e][dst] = Unserved
      <4>1. {order[e][r] : r \in Serving(e)} = 1 .. n
        BY <1>3 DEF SegmentsNumbered, Serving, n
      <4>2. order'[e][dst] = n + 1 /\ dst \notin Serving(e)
        BY <1>13, <1>16, <3>3 DEF Serving
      <4>3. after = Serving(e) \cup {dst}
        BY <1>5, <1>11, <1>16, <3>3, <4>2 DEF Serving, Unserved
      <4>4. Cardinality(after) = n + 1
        <5> HIDE DEF after
        <5> QED
          BY <1>11, <4>2, <4>3, FS_AddElement DEF n
      <4>5. \A r \in Serving(e) : order'[e][r] = order[e][r]
        BY <1>16, <4>2 DEF Serving
      <4>6. {order'[e][r] : r \in after} = {order[e][r] : r \in Serving(e)} \cup {n + 1}
        BY <4>2, <4>3, <4>5
      <4>7. (1 .. n) \cup {n + 1} = 1 .. n + 1
        BY <1>11
      <4> QED
        BY <3>3, <4>1, <4>4, <4>6, <4>7
    <3> QED
      BY <3>1, <3>2, <3>3
  <2> QED
    BY <2>1, <2>2, <2>3
<1>22. /\ RowsOn(src)' = RowsOn(src) - take /\ RowsOn(dst)' = RowsOn(dst) + take
       /\ \A r \in Ranks : r # src /\ r # dst => RowsOn(r)' = RowsOn(r)
  <2> DEFINE col(r) == [x \in Experts |-> rem[x][r]]
             new(r) == [x \in Experts |-> rem'[x][r]]
  <2>1. \A r \in Ranks : RowsOn(r) = SumFunctionOnSet(col(r), Experts)
                         /\ RowsOn(r)' = SumFunctionOnSet(new(r), Experts)
    BY DEF RowsOn, SumFunction
  <2>2. \A r \in Ranks, x \in Experts : col(r)[x] \in Int /\ new(r)[x] \in Int
    BY <1>5, <1>10
  <2>3. \A r \in Ranks, x \in Experts \ {e} : col(r)[x] = new(r)[x]
    BY <1>10
  <2>4. \A r \in Ranks : col(r)[e] = rem[e][r] /\ new(r)[e] = rem'[e][r]
    OBVIOUS
  <2>5. RowsOn(src)' = SumFunctionOnSet(new(src), Experts)
        /\ RowsOn(dst)' = SumFunctionOnSet(new(dst), Experts)
    BY <1>1 DEF RowsOn, SumFunction
  <2>6. \A r \in Ranks : SumFunctionOnSet(col(r), Experts) \in Int
    <3> HIDE DEF col
    <3> QED
      BY <2>2, IndexFacts, SumInt
  <2> HIDE DEF col, new
  <2>7. \A r \in Ranks : SumFunctionOnSet(new(r), Experts)
                           = SumFunctionOnSet(col(r), Experts) - rem[e][r] + rem'[e][r]
    BY <2>2, <2>3, <2>4, IndexFacts, SumChange
  <2>8. \A r \in Ranks : rem[e][r] \in Int /\ rem'[e][r] \in Int
    BY <1>5, <1>10
  <2>9. take \in Int
    BY <1>8
  <2>10. RowsOn(src)' = RowsOn(src) - take
    BY <1>5, <1>10, <2>1, <2>5, <2>6, <2>7, <2>8, <2>9
  <2>11. RowsOn(dst)' = RowsOn(dst) + take
    BY <1>5, <1>10, <2>1, <2>5, <2>6, <2>7, <2>8, <2>9
  <2>12. ASSUME NEW r \in Ranks, r # src, r # dst PROVE RowsOn(r)' = RowsOn(r)
    BY <1>10, <2>1, <2>6, <2>7, <2>8, <2>12
  <2> QED
    BY <2>10, <2>11, <2>12
<1>23. Moving'
  <2>1. take \in Int /\ loads[src] \in Int /\ loads[dst] \in Int
    BY <1>5, <1>8
  <2>2. move' >= 0 /\ move' + moved' = NumRows - loads[dst]
    BY <1>4, <1>5, <1>8, <1>9, <2>1
  <2>3. RowsOn(src)' = loads[src] - moved' /\ RowsOn(dst)' = loads[dst] + moved'
    BY <1>4, <1>5, <1>9, <1>22, <2>1
  <2> QED
    BY <1>1, <1>4, <1>22, <2>2, <2>3 DEF Moving
<1>24. TriesCount'
  <2> SUFFICES ASSUME move' > 0
               PROVE  Cardinality({x \in ExpertsOf(src) : rem'[x][src] = 0}) >= tries + 1
    BY <1>1 DEF TriesCount, ExpertsOf
  <2> DEFINE Z == {x \in ExpertsOf(src) : rem[x][src] = 0}
             W == {x \in ExpertsOf(src) : rem'[x][src] = 0}
  <2>1. rem'[e][src] = 0
    BY <1>5, <1>8, <1>9, <1>10
  <2>2. Z \cup {e} \subseteq W
    <3>1. \A x \in ExpertsOf(src) : x \in Experts
      BY DEF ExpertsOf
    <3> QED
      BY <1>5, <1>7, <1>10, <2>1, <3>1
  <2>3. e \notin Z
    BY <1>7
  <2>4. IsFiniteSet(Z) /\ IsFiniteSet(W)
    BY <1>5, ExpertsOfCard, FS_Subset
  <2>5. Cardinality(Z) >= tries
    BY <1>1, <1>3 DEF TriesCount
  <2> HIDE DEF Z, W
  <2>6. Cardinality(Z \cup {e}) = Cardinality(Z) + 1 /\ Cardinality(Z) \in Nat
        /\ Cardinality(W) \in Nat /\ IsFiniteSet(Z \cup {e})
    BY <2>3, <2>4, FS_AddElement, FS_CardinalityType
  <2>7. Cardinality(Z \cup {e}) <= Cardinality(W)
    BY <2>2, <2>4, FS_Subset
  <2>8. tries \in Int
    BY <1>3, EpnAssumption DEF TypeOK
  <2>9. Cardinality(W) >= tries + 1
    BY <2>5, <2>6, <2>7, <2>8
  <2> QED
    BY <2>9 DEF W
<1> QED
  BY <1>1, <1>17, <1>18, <1>19, <1>20, <1>21, <1>23, <1>24 DEF GreedyInv

\* Every step of the greedy keeps the invariant.
LEMMA NextKeeps == ASSUME GreedyInv, [Next]_vars PROVE GreedyInv'
<1>1. CASE StartRound
  BY <1>1, StartRoundKeeps
<1>2. CASE IdleRound
  BY <1>2, IdleRoundKeeps
<1>3. CASE MoveExpert
  BY <1>3, MoveExpertKeeps
<1>4. CASE SkipExpert
  BY <1>4, SkipExpertKeeps
<1>5. CASE EndRound
  BY <1>5, EndRoundKeeps
<1>6. CASE Finish
  BY <1>6, FinishKeeps
<1>7. CASE UNCHANGED vars
  <2>1. /\ rem' = rem /\ order' = order /\ loads' = loads /\ rhome' = rhome
        /\ it' = it /\ pc' = pc /\ src' = src /\ dst' = dst
        /\ move' = move /\ moved' = moved /\ tries' = tries
    BY <1>7 DEF vars
  <2>2. TypeOK'
    BY <2>1 DEF GreedyInv, TypeOK
  <2>3. LoadsTotal' /\ LoadsAreRows' /\ Settled' /\ Progress'
    BY <2>1 DEF GreedyInv, LoadsTotal, LoadsAreRows, RowsOn, Settled, Progress, AtCapacity
  <2>4. ServedInOrder' /\ SegmentsNumbered' /\ OneSourcePerReceiver'
    BY <2>1 DEF GreedyInv, ServedInOrder, SegmentsNumbered, OneSourcePerReceiver
  <2>5. Moving' /\ TriesCount'
    BY <2>1 DEF GreedyInv, Moving, TriesCount, RowsOn, ExpertsOf
  <2> QED
    BY <2>1, <2>2, <2>3, <2>4, <2>5 DEF GreedyInv
<1> QED
  BY <1>1, <1>2, <1>3, <1>4, <1>5, <1>6, <1>7 DEF Next, Stopped

\* Every token is of some expert of some rank, so the demands add up to all
\* the rows.
LEMMA DemandTotal ==
  ASSUME topk \in [Ranks -> [Tokens -> Experts]]
  PROVE  LET t == [e \in Experts |-> SumFunction([r \in Ranks |-> Demand(r, e)])]
         IN  t \in [Experts -> Nat] /\ SumFunction(t) = NumRanks * NumRows
<1> DEFINE d == [e \in Experts |-> [r \in Ranks |-> Demand(r, e)]]
           t == [e \in Experts |-> SumFunction([r \in Ranks |-> Demand(r, e)])]
           u == [e \in Experts |-> SumFunctionOnSet(d[e], Ranks)]
           ofRank == [r \in Ranks |-> SumFunctionOnSet([e \in Experts |-> d[e][r]], Experts)]
<1>1. IsFiniteSet(Tokens) /\ Cardinality(Tokens) = NumRows
  BY NumRowsAssumption, FS_Interval DEF Tokens
<1>2. \A r \in Ranks, e \in Experts : Demand(r, e) \in Nat
  BY <1>1, FS_Subset, FS_CardinalityType DEF Demand
<1>3. t = u
  BY DEF SumFunction
<1>4. d \in [Experts -> [Ranks -> Int]]
  BY <1>2
<1>5. u \in [Experts -> Nat]
  <2> SUFFICES ASSUME NEW e \in Experts PROVE SumFunctionOnSet(d[e], Ranks) \in Nat
    OBVIOUS
  <2>1. \A r \in Ranks : d[e][r] \in Int /\ d[e][r] \in Nat
    BY <1>2
  <2> HIDE DEF d
  <2> QED
    BY <2>1, IndexFacts, SumInt
<1>6. SumFunctionOnSet(u, Experts) = SumFunctionOnSet(ofRank, Ranks)
  <2> HIDE DEF d
  <2> QED
    BY <1>4, IndexFacts, SumSwap
<1>7. \A r \in Ranks : ofRank[r] = NumRows
  <2> SUFFICES ASSUME NEW r \in Ranks PROVE ofRank[r] = NumRows
    OBVIOUS
  <2> DEFINE k == topk[r]
             parts == [e \in Experts |-> Cardinality({i \in Tokens : k[i] = e})]
  <2>1. \A i \in Tokens : k[i] \in Experts
    OBVIOUS
  <2>2. SumFunctionOnSet(parts, Experts) = Cardinality(Tokens)
    <3> HIDE DEF k
    <3> QED
      BY <1>1, <2>1, IndexFacts, CountParts
  <2>3. [e \in Experts |-> d[e][r]] = parts
    BY DEF Demand
  <2>4. ofRank[r] = SumFunctionOnSet([e \in Experts |-> d[e][r]], Experts)
    OBVIOUS
  <2> HIDE DEF d, parts, ofRank
  <2> QED
    BY <1>1, <2>2, <2>3, <2>4
<1>8. SumFunctionOnSet(ofRank, Ranks) = NumRanks * NumRows
  <2>1. NumRows \in Int
    BY NumRowsAssumption
  <2> HIDE DEF ofRank
  <2> QED
    BY <1>7, <2>1, IndexFacts, SumConst
<1>9. SumFunction(u) = SumFunctionOnSet(u, Experts)
  BY DEF SumFunction
<1> HIDE DEF u, t, ofRank
<1>10. t \in [Experts -> Nat] /\ SumFunction(t) = NumRanks * NumRows
  BY <1>3, <1>5, <1>6, <1>8, <1>9, IndexFacts
<1> QED
  BY <1>10 DEF t

\* The demand that the plan kernel counts from the routing is such a demand.
LEMMA PlanInitInv == ASSUME PlanInit PROVE GreedyInv
<1>1. topk \in [Ranks -> [Tokens -> Experts]]
  BY InputsAssumption DEF PlanInit
<1> DEFINE t == [e \in Experts |-> SumFunction([r \in Ranks |-> Demand(r, e)])]
<1>2. t \in [Experts -> Nat] /\ SumFunction(t) = NumRanks * NumRows
  BY <1>1, DemandTotal
<1>3. InitFrom(t)
  BY DEF PlanInit
<1> HIDE DEF t
<1> QED
  BY <1>2, <1>3, InitInv

\* The invariant, of the greedy alone and of the plan kernel.
LEMMA GreedyInvariant == (Spec => []GreedyInv) /\ (PlanSpec => []GreedyInv)
<1>1. Init => GreedyInv
  BY InitInv, RoutingsAssumption DEF Init
<1>2. PlanInit => GreedyInv
  BY PlanInitInv
<1>3. GreedyInv /\ [Next]_vars => GreedyInv'
  BY NextKeeps
<1>4. GreedyInv /\ [PlanNext]_pvars => GreedyInv'
  BY NextKeeps DEF PlanNext, pvars
<1> QED
  BY <1>1, <1>2, <1>3, <1>4, PTL DEF Spec, PlanSpec

(* The tables of the greedy hold what their types say: whatever a round      *)
(* moves, no count of rows falls below zero.                                *)
THEOREM GreedyTypes == PlanSpec => []TypeOK
<1>1. GreedyInv => TypeOK
  BY DEF GreedyInv
<1> QED
  BY <1>1, GreedyInvariant, PTL

(* The loads the greedy goes by are the rows its tables assign (its booking *)
(* of a move on source and target keeps up with rem).                       *)
THEOREM GreedyBooks == PlanSpec => []LoadsAreRows
<1>1. GreedyInv => LoadsAreRows
  BY DEF GreedyInv
<1> QED
  BY <1>1, GreedyInvariant, PTL

(* Whatever the routing: when the greedy is done every rank computes        *)
(* exactly NumRows rows.                                                    *)
THEOREM GreedyBalances == PlanSpec => []Balanced
<1>1. GreedyInv => Balanced
  <2> SUFFICES ASSUME GreedyInv, pc = "done", NEW r \in Ranks PROVE RowsOn(r) = NumRows
    BY DEF Balanced
  <2>1. AtCapacity = Ranks
    BY LoadsFacts, NumRanksAssumption DEF GreedyInv, Progress
  <2>2. loads[r] = RowsOn(r)
    BY DEF GreedyInv, LoadsAreRows
  <2> QED
    BY <2>1, <2>2 DEF AtCapacity
<1> QED
  BY <1>1, GreedyInvariant, PTL

(* A rank gets replicas from one source only, so that its single window of   *)
(* weights has one sender.                                                  *)
THEOREM GreedyOneSource == PlanSpec => []OneSourcePerReceiver
<1>1. GreedyInv => OneSourcePerReceiver
  BY DEF GreedyInv
<1> QED
  BY <1>1, GreedyInvariant, PTL

(* The ranks that serve an expert are numbered without gap in the order the  *)
(* greedy chose them, which is what the segment search of the kernel needs. *)
THEOREM GreedySegments == PlanSpec => []SegmentsNumbered
<1>1. GreedyInv => SegmentsNumbered
  BY DEF GreedyInv
<1> QED
  BY <1>1, GreedyInvariant, PTL

-----------------------------------------------------------------------------
\* Division of a number by a positive one: quotient and remainder.
LEMMA DivMod ==
  ASSUME NEW n \in Nat, NEW d \in Nat \ {0}
  PROVE  /\ n \div d \in Nat /\ n % d \in 0 .. d - 1
         /\ n = d * (n \div d) + (n % d)
OBVIOUS

\* Quotient and remainder are determined by the number.
LEMMA DivUnique ==
  ASSUME NEW d \in Nat \ {0}, NEW q \in Nat, NEW r \in 0 .. d - 1, NEW x \in Nat, NEW s \in 0 .. d - 1,
         d * q + r = d * x + s
  PROVE  q = x /\ r = s
<1>1. ASSUME NEW a \in Nat, NEW b \in Nat, NEW u \in 0 .. d - 1, NEW v \in 0 .. d - 1, a < b
      PROVE d * a + u # d * b + v
  <2>1. PICK k \in Nat : b = a + 1 + k
     <3> b - a - 1 \in Nat /\ b = a + 1 + (b - a - 1) BY <1>1
     <3> QED OBVIOUS
  <2>2. d * b = d * a + d + d * k /\ d * k \in Nat /\ d * a \in Nat
     BY <2>1
  <2> QED BY <2>2
<1>2. ~ (q < x) /\ ~ (x < q) BY <1>1
<1> QED BY <1>2

\* A number that is given by its quotient and remainder.
LEMMA DivIs ==
  ASSUME NEW d \in Nat \ {0}, NEW q \in Nat, NEW r \in 0 .. d - 1
  PROVE  (d * q + r) \div d = q /\ (d * q + r) % d = r
<1> DEFINE n == d * q + r
<1>1. n \in Nat BY d * q \in Nat
<1>2. n \div d \in Nat /\ n % d \in 0 .. d - 1 /\ n = d * (n \div d) + (n % d)
   BY <1>1, DivMod
<1> HIDE DEF n
<1>3. n \div d = q /\ n % d = r BY <1>2, DivUnique DEF n
<1> QED BY <1>3 DEF n

\* A set of natural numbers that is not empty has a least element: the
\* intervals 0 .. k that end in it have one that no other is a part of.
LEMMA LeastElement ==
  ASSUME NEW T \in SUBSET Nat, T # {}
  PROVE  \E m \in T : \A k \in T : m <= k
<1> PICK n \in T : TRUE
  OBVIOUS
<1> DEFINE C == {0 .. k : k \in {x \in T : x <= n}}
<1>1. IsFiniteSet(0 .. n)
  BY FS_Interval
<1>2. IsWellFoundedOn(StrictSubsetOrdering(0 .. n), FiniteSubsetsOf(0 .. n))
  BY <1>1, FS_StrictSubsetOrderingWellFounded
<1>3. C \subseteq FiniteSubsetsOf(0 .. n) /\ C # {}
  <2>1. \A k \in T : k <= n => (0 .. k) \in SUBSET (0 .. n) /\ IsFiniteSet(0 .. k)
     BY FS_Interval
  <2>2. C # {}
     OBVIOUS
  <2> QED
    BY <2>1, <2>2 DEF FiniteSubsetsOf
<1>4. PICK x \in C : \A y \in C : <<y, x>> \notin StrictSubsetOrdering(0 .. n)
  BY <1>2, <1>3, WFMin
<1>5. PICK m \in T : m <= n /\ x = 0 .. m
  BY <1>4
<1>6. ASSUME NEW k \in T, k < m PROVE FALSE
  <2>1. (0 .. k) \in C /\ (0 .. m) \in C
    BY <1>5, <1>6
  <2>2. (0 .. k) \subseteq 0 .. m /\ (0 .. k) # 0 .. m
    <3>1. m \in 0 .. m /\ m \notin 0 .. k
      BY <1>6
    <3> QED BY <1>6, <3>1
  <2>3. (0 .. k) \subseteq 0 .. n /\ (0 .. m) \subseteq 0 .. n
    BY <1>5, <1>6
  <2> QED
    BY <1>4, <1>5, <2>1, <2>2, <2>3 DEF StrictSubsetOrdering
<1> QED
  BY <1>6

-----------------------------------------------------------------------------
\* The rows of an expert on all ranks are the tokens routed to it: moving rows
\* neither loses nor makes any.
DemandServed ==
    \A e \in Experts :
        SumFunctionOnSet(rem[e], Ranks)
            = SumFunctionOnSet([r \in Ranks |-> Demand(r, e)], Ranks)

(* The inductive invariant of the plan kernel.                              *)
PlanInv ==
    /\ GreedyInv
    /\ topk \in [Ranks -> [Tokens -> Experts]]
    /\ DemandServed

\* The demand of a rank is a number.
LEMMA DemandNat ==
  ASSUME NEW r, NEW e
  PROVE  /\ IsFiniteSet({i \in Tokens : topk[r][i] = e})
         /\ Demand(r, e) \in Nat
<1>1. IsFiniteSet(Tokens)
  BY NumRowsAssumption, FS_Interval DEF Tokens
<1> QED
  BY <1>1, FS_Subset, FS_CardinalityType DEF Demand

\* At first the home of an expert has all its rows.
LEMMA InitServes == ASSUME PlanInit PROVE PlanInv
<1>1. topk \in [Ranks -> [Tokens -> Experts]]
  BY InputsAssumption DEF PlanInit
<1>2. GreedyInv
  BY PlanInitInv
<1>3. DemandServed
  <2> SUFFICES ASSUME NEW e \in Experts
               PROVE SumFunctionOnSet(rem[e], Ranks)
                       = SumFunctionOnSet([r \in Ranks |-> Demand(r, e)], Ranks)
    BY DEF DemandServed
  <2> DEFINE n == SumFunctionOnSet([r \in Ranks |-> Demand(r, e)], Ranks)
  <2>1. SumFunction([r \in Ranks |-> Demand(r, e)]) = n
    BY DEF SumFunction
  <2>2. rem[e] = [r \in Ranks |-> IF r = HomeOf(e) THEN n ELSE 0]
    BY <2>1 DEF PlanInit, InitFrom
  <2>3. HomeOf(e) \in Ranks /\ IsFiniteSet(Ranks)
    BY IndexFacts
  <2>4. n \in Int
    <3> DEFINE d == [r \in Ranks |-> Demand(r, e)]
    <3>0. \A r \in Ranks : Demand(r, e) \in Nat
      BY DemandNat
    <3>1. \A r \in Ranks : Demand(r, e) \in Int
      BY <3>0
    <3>2. \A r \in Ranks : d[r] \in Int
      BY <3>1
    <3> HIDE DEF d
    <3>3. SumFunctionOnSet(d, Ranks) \in Int
      BY <2>3, <3>2, SumInt
    <3> QED
      BY <3>3 DEF d
  <2> HIDE DEF n
  <2>5. SumFunctionOnSet(rem[e], Ranks)
          = rem[e][HomeOf(e)] + SumFunctionOnSet(rem[e], Ranks \ {HomeOf(e)})
    <3>1. \A r \in Ranks : rem[e][r] \in Int
      BY <2>2, <2>4
    <3> QED
      BY <2>3, <3>1, SumRemove
  <2>6. SumFunctionOnSet(rem[e], Ranks \ {HomeOf(e)}) = 0
    <3>1. IsFiniteSet(Ranks \ {HomeOf(e)})
      BY <2>3, FS_Subset
    <3>2. \A r \in Ranks \ {HomeOf(e)} : rem[e][r] = 0
      BY <2>2
    <3> QED
      BY <3>1, <3>2, SumZero
  <2>7. rem[e][HomeOf(e)] = n
    BY <2>2, <2>3
  <2>8. SumFunctionOnSet(rem[e], Ranks) = n
    BY <2>4, <2>5, <2>6, <2>7
  <2> QED
    BY <2>8 DEF n
<1> QED
  BY <1>1, <1>2, <1>3 DEF PlanInv

\* What leaves the source arrives at the receiver.
LEMMA MoveServes ==
  ASSUME GreedyInv, MoveExpert, DemandServed, UNCHANGED topk
  PROVE  DemandServed'
<1>1. PICK e \in Experts :
        /\ Largest(e, src)
        /\ rem' = [rem EXCEPT ![e][src] = @ - MinOf(rem[e][src], move),
                              ![e][dst] = @ + MinOf(rem[e][src], move)]
  BY DEF MoveExpert
<1> DEFINE take == MinOf(rem[e][src], move)
<1>2. /\ src \in Ranks /\ dst \in Ranks /\ src # dst
      /\ rem \in [Experts -> [Ranks -> Nat]]
      /\ move \in Int
  <2>1. loads[src] > NumRows /\ loads[dst] < NumRows /\ loads \in [Ranks -> Nat]
        /\ src \in Ranks /\ dst \in Ranks
    BY DEF MoveExpert, GreedyInv, Moving, TypeOK
  <2>2. loads[src] \in Nat
    BY <2>1
  <2> QED
    BY <2>1, <2>2, NumRowsAssumption DEF GreedyInv, TypeOK
<1>3. take \in Int
  BY <1>2 DEF MinOf
<1>4. /\ rem'[e][src] = rem[e][src] - take /\ rem'[e][dst] = rem[e][dst] + take
      /\ \A r \in Ranks : r # src /\ r # dst => rem'[e][r] = rem[e][r]
      /\ \A f \in Experts : f # e => rem'[f] = rem[f]
  <2> DEFINE t == MinOf(rem[e][src], move)
  <2>1. rem' = [rem EXCEPT ![e][src] = @ - t, ![e][dst] = @ + t]
    BY <1>1
  <2>2. t = take
    OBVIOUS
  <2> HIDE DEF t, take
  <2> QED
    BY <1>2, <2>1, <2>2
<1> HIDE DEF take
<1>5. SumFunctionOnSet(rem'[e], Ranks) = SumFunctionOnSet(rem[e], Ranks)
  <2> DEFINE mid == [rem[e] EXCEPT ![src] = @ - take]
  <2>0. IsFiniteSet(Ranks)
    BY IndexFacts
  <2>1. /\ \A r \in Ranks : rem[e][r] \in Int /\ mid[r] \in Int /\ rem'[e][r] \in Int
        /\ \A r \in Ranks \ {src} : mid[r] = rem[e][r]
        /\ mid[src] = rem[e][src] - take /\ mid[dst] = rem[e][dst]
        /\ \A r \in Ranks \ {dst} : rem'[e][r] = mid[r]
    <3>1. \A r \in Ranks : rem[e][r] \in Int
      BY <1>2
    <3>2. \A r \in Ranks : mid[r] = IF r = src THEN rem[e][src] - take ELSE rem[e][r]
      BY <1>2
    <3> HIDE DEF mid
    <3> QED
      BY <1>2, <1>3, <1>4, <3>1, <3>2
  <2> HIDE DEF mid
  <2>2. SumFunctionOnSet(mid, Ranks) = SumFunctionOnSet(rem[e], Ranks) - rem[e][src] + mid[src]
    BY <1>2, <2>0, <2>1, SumChange
  <2>3. SumFunctionOnSet(rem'[e], Ranks) = SumFunctionOnSet(mid, Ranks) - mid[dst] + rem'[e][dst]
    BY <1>2, <2>0, <2>1, SumChange
  <2>4. SumFunctionOnSet(rem[e], Ranks) \in Int
    BY <2>0, <2>1, SumInt
  <2>5. rem[e][src] \in Int /\ rem[e][dst] \in Int
    BY <1>2, <2>1
  <2> QED
    BY <1>3, <1>4, <2>1, <2>2, <2>3, <2>4, <2>5
<1>6. \A f \in Experts : SumFunctionOnSet(rem'[f], Ranks) = SumFunctionOnSet(rem[f], Ranks)
  BY <1>4, <1>5
<1>7. \A r, f : Demand(r, f)' = Demand(r, f)
  BY DEF Demand
<1> QED
  BY <1>6, <1>7 DEF DemandServed

\* The invariant of the plan kernel.
LEMMA PlanInvariant == PlanSpec => []PlanInv
<1>1. PlanInit => PlanInv
  BY InitServes
<1>2. PlanInv /\ [PlanNext]_pvars => PlanInv'
  <2> SUFFICES ASSUME PlanInv, [PlanNext]_pvars PROVE PlanInv'
    OBVIOUS
  <2>1. GreedyInv'
    BY NextKeeps DEF PlanInv, PlanNext, pvars
  <2>2. topk' = topk
    BY DEF PlanNext, pvars
  <2>3. DemandServed'
    <3>1. CASE MoveExpert
      BY <2>2, <3>1, MoveServes DEF PlanInv
    <3>2. CASE UNCHANGED rem
      BY <2>2, <3>2 DEF PlanInv, DemandServed, Demand
    <3> QED
      BY <3>1, <3>2 DEF PlanNext, Next, pvars, vars, StartRound, IdleRound, SkipExpert,
                        EndRound, Finish, Stopped
  <2> QED
    BY <2>1, <2>2, <2>3 DEF PlanInv
<1> QED
  BY <1>1, <1>2, PTL DEF PlanSpec

-----------------------------------------------------------------------------
\* A sum over a prefix, by its last summand.
LEMMA SumPrefix ==
  ASSUME NEW n \in Nat, NEW f, NEW g, \A i \in 0 .. n : f[i] \in Int,
         \A i \in 0 .. n - 1 : g[i] = f[i]
  PROVE  SumFunctionOnSet(f, 0 .. n) = SumFunctionOnSet(g, 0 .. n - 1) + f[n]
<1>1. IsFiniteSet(0 .. n) /\ IsFiniteSet(0 .. n - 1)
  BY FS_Interval
<1>2. n \in 0 .. n /\ (0 .. n) \ {n} = 0 .. n - 1
  OBVIOUS
<1>3. SumFunctionOnSet(f, 0 .. n) = f[n] + SumFunctionOnSet(f, 0 .. n - 1)
  BY <1>1, <1>2, SumRemove
<1>4. \A i \in 0 .. n - 1 : f[i] = g[i] /\ f[i] \in Int
  OBVIOUS
<1>5. SumFunctionOnSet(f, 0 .. n - 1) = SumFunctionOnSet(g, 0 .. n - 1)
  BY <1>1, <1>4, SumSame
<1>6. SumFunctionOnSet(f, 0 .. n - 1) \in Int
  BY <1>1, <1>4, SumInt
<1> QED
  BY <1>2, <1>3, <1>5, <1>6

\* A sum with one summand.
LEMMA SumSingle ==
  ASSUME NEW f, NEW x, f[x] \in Int
  PROVE  SumFunctionOnSet(f, {x}) = f[x]
<1> DEFINE T == {x}
           D == T \ {x}
<1>1. IsFiniteSet(T) /\ x \in T /\ (\A y \in T : f[y] \in Int) /\ D = {}
  BY FS_Singleton
<1> HIDE DEF T
<1>2. SumFunctionOnSet(f, T) = f[x] + SumFunctionOnSet(f, D)
  BY <1>1, SumRemove
<1> HIDE DEF D
<1>3. SumFunctionOnSet(f, D) = 0
  BY <1>1, SumEmpty
<1>4. SumFunctionOnSet(f, T) = f[x]
  BY <1>2, <1>3
<1> QED
  BY <1>4 DEF T

\* A part of natural numbers sums up to no more than all of them.
LEMMA SumSubset ==
  ASSUME NEW f, NEW T, IsFiniteSet(T), NEW S \in SUBSET T, \A x \in T : f[x] \in Nat
  PROVE  SumFunctionOnSet(f, S) <= SumFunctionOnSet(f, T)
<1> DEFINE g == [x \in T |-> IF x \in S THEN f[x] ELSE 0]
           h == [x \in T |-> IF x \in S THEN 0 ELSE f[x]]
<1>1. \A x \in T : /\ g[x] \in Int /\ h[x] \in Int /\ h[x] \in Nat /\ f[x] = g[x] + h[x]
                   /\ x \in S => g[x] = f[x]
                   /\ x \notin S => g[x] = 0
  OBVIOUS
<1> HIDE DEF g, h
<1>2. SumFunctionOnSet(f, T) = SumFunctionOnSet(g, T) + SumFunctionOnSet(h, T)
  BY <1>1, SumPlus
<1>3. SumFunctionOnSet(g, T) = SumFunctionOnSet(g, S)
  BY <1>1, SumSupport
<1>4. SumFunctionOnSet(g, S) = SumFunctionOnSet(f, S)
  <2>1. IsFiniteSet(S) /\ \A x \in S : g[x] = f[x]
    BY <1>1, FS_Subset
  <2> QED
    BY <2>1, SumSame
<1>5. SumFunctionOnSet(h, T) \in Nat /\ SumFunctionOnSet(g, T) \in Int
  BY <1>1, SumInt
<1> QED
  BY <1>2, <1>3, <1>4, <1>5

-----------------------------------------------------------------------------
\* The segments of an expert have the numbers 1 .. n, each once; the home has
\* the first, and nobody else has rows of it.
LEMMA SegmentFacts ==
  ASSUME PlanInv, NEW e \in Experts
  PROVE  /\ Serving(e) = Segments(e) /\ IsFiniteSet(Serving(e)) /\ Serving(e) \subseteq Ranks
         /\ \A r \in Ranks : rem[e][r] \in Nat /\ order[e][r] \in Nat
         /\ \A r \in Serving(e) : order[e][r] \in 1 .. NumRanks
         /\ \A r, q \in Serving(e) : order[e][r] = order[e][q] => r = q
         /\ \A r \in Ranks : order[e][r] = Home <=> r = HomeOf(e)
         /\ \A r \in Ranks \ Serving(e) : rem[e][r] = 0
<1>1. \A r \in Ranks : rem[e][r] \in Nat /\ order[e][r] \in Nat
  BY DEF PlanInv, GreedyInv, TypeOK
<1>2. Serving(e) = Segments(e)
  BY <1>1 DEF Serving, Segments, Home, Unserved
<1>3. /\ IsFiniteSet(Serving(e)) /\ Cardinality(Serving(e)) \in Nat
      /\ Cardinality(Serving(e)) <= NumRanks /\ Serving(e) \subseteq Ranks
  BY IndexFacts, FS_Subset, FS_CardinalityType DEF Serving
<1>4. {order[e][r] : r \in Serving(e)} = 1 .. Cardinality(Serving(e))
  BY DEF Serving, PlanInv, GreedyInv, SegmentsNumbered
<1>5. \A r \in Serving(e) : order[e][r] \in 1 .. NumRanks
  <2>1. \A r \in Serving(e) : order[e][r] \in 1 .. Cardinality(Serving(e))
    BY <1>4
  <2> QED
    BY <1>3, <2>1, NumRanksAssumption
<1>6. \A r, q \in Serving(e) : order[e][r] = order[e][q] => r = q
  <2> DEFINE n == Cardinality(Serving(e))
             f == [r \in Serving(e) |-> order[e][r]]
  <2>1. f \in Surjection(Serving(e), 1 .. n)
    <3>1. \A k \in 1 .. n : \E r \in Serving(e) : order[e][r] = k
      BY <1>4
    <3>2. \A r \in Serving(e) : order[e][r] \in 1 .. n
      BY <1>4
    <3>3. f \in [Serving(e) -> 1 .. n] /\ \A k \in 1 .. n : \E r \in Serving(e) : f[r] = k
      BY <3>1, <3>2
    <3> HIDE DEF f, n
    <3> QED
      BY <3>3 DEF Surjection
  <2>2. IsFiniteSet(1 .. n) /\ Cardinality(1 .. n) = n
    BY <1>3, FS_Interval
  <2>3. f \in Injection(Serving(e), 1 .. n)
    <3> HIDE DEF f
    <3> QED
      BY <1>3, <2>1, <2>2, FS_SurjSameCardinalityImpliesInj
  <2>4. \A r, q \in Serving(e) : f[r] = f[q] => r = q
    <3> HIDE DEF f, n
    <3> QED
      BY <2>3 DEF Injection, IsInjective
  <2> QED
    BY <2>4
<1>7. \A r \in Ranks : order[e][r] = Home <=> r = HomeOf(e)
  BY DEF PlanInv, GreedyInv, ServedInOrder
<1>8. \A r \in Ranks \ Serving(e) : rem[e][r] = 0
  <2>1. \A r \in Ranks : rem[e][r] > 0 => r \in Serving(e)
    BY DEF Serving, PlanInv, GreedyInv, ServedInOrder
  <2> QED
    BY <1>1, <2>1
<1> QED
  BY <1>1, <1>2, <1>3, <1>5, <1>6, <1>7, <1>8

\* The rows in the segment with number p + 1.
SegRows(e, p) ==
  IF \E r \in Segments(e) : order[e][r] = p + 1 THEN rem[e][OrdRank(e, p)] ELSE 0

\* A segment is the one of the rank with its number.
LEMMA SegRowsFacts ==
  ASSUME PlanInv, NEW e \in Experts, NEW p \in Nat
  PROVE  /\ SegRows(e, p) \in Nat
         /\ \A r \in Segments(e) : order[e][r] = p + 1 =>
                OrdRank(e, p) = r /\ SegRows(e, p) = rem[e][r]
         /\ SegRows(e, p) # 0 => OrdRank(e, p) \in Segments(e) /\ order[e][OrdRank(e, p)] = p + 1
<1> USE SegmentFacts
<1>1. ASSUME NEW r \in Segments(e), order[e][r] = p + 1
      PROVE  OrdRank(e, p) = r /\ SegRows(e, p) = rem[e][r]
  <2>1. OrdRank(e, p) \in Segments(e) /\ order[e][OrdRank(e, p)] = p + 1
    BY <1>1 DEF OrdRank
  <2>2. OrdRank(e, p) = r
    BY <1>1, <2>1
  <2> QED
    BY <1>1, <2>2 DEF SegRows
<1>2. CASE \E r \in Segments(e) : order[e][r] = p + 1
  <2>1. PICK r \in Segments(e) : order[e][r] = p + 1
    BY <1>2
  <2>2. r \in Ranks
    BY <2>1 DEF Segments
  <2> QED
    BY <1>1, <2>1, <2>2
<1>3. CASE ~ \E r \in Segments(e) : order[e][r] = p + 1
  BY <1>1, <1>3 DEF SegRows
<1> QED
  BY <1>2, <1>3

\* Where a segment ends, from where the one before it does.
LEMMA OrdEndStep ==
  ASSUME PlanInv, NEW e \in Experts, NEW o \in Nat
  PROVE  /\ OrdEnd(e, o) \in Nat
         /\ OrdEnd(e, o) = (IF o = 0 THEN 0 ELSE OrdEnd(e, o - 1)) + SegRows(e, o)
<1> DEFINE f == [p \in 0 .. o |-> SegRows(e, p)]
           g == [p \in 0 .. o - 1 |-> SegRows(e, p)]
<1>1. \A p \in 0 .. o : f[p] = SegRows(e, p) /\ f[p] \in Nat /\ f[p] \in Int
  <2>1. \A p \in Nat : SegRows(e, p) \in Nat
    BY SegRowsFacts
  <2> QED
    BY <2>1
<1>2. OrdEnd(e, o) = SumFunctionOnSet(f, 0 .. o)
  BY DEF OrdEnd, SegRows, SumFunction
<1>3. o - 1 \in Nat => OrdEnd(e, o - 1) = SumFunctionOnSet(g, 0 .. o - 1)
  BY DEF OrdEnd, SegRows, SumFunction
<1>4. \A p \in 0 .. o - 1 : g[p] = f[p]
  OBVIOUS
<1> HIDE DEF f, g
<1>5. SumFunctionOnSet(f, 0 .. o) = SumFunctionOnSet(g, 0 .. o - 1) + f[o]
  BY <1>1, <1>4, SumPrefix
<1>6. IsFiniteSet(0 .. o)
  BY FS_Interval
<1>7. SumFunctionOnSet(f, 0 .. o) \in Nat
  BY <1>1, <1>6, SumInt
<1>8. CASE o = 0
  <2>1. 0 .. o - 1 = {}
    BY <1>8
  <2>2. SumFunctionOnSet(g, {}) = 0
    BY SumEmpty
  <2>3. f[o] = SegRows(e, o) /\ f[o] \in Nat
    BY <1>1
  <2> QED
    BY <1>2, <1>5, <1>7, <1>8, <2>1, <2>2, <2>3
<1>9. CASE o # 0
  <2>1. o - 1 \in Nat
    BY <1>9
  <2>2. f[o] = SegRows(e, o)
    BY <1>1
  <2> QED
    BY <1>2, <1>3, <1>5, <1>7, <1>9, <2>1, <2>2
<1> QED
  BY <1>8, <1>9

\* The segments together hold all rows of the expert.
LEMMA OrdEndTotal ==
  ASSUME PlanInv, NEW e \in Experts
  PROVE  OrdEnd(e, NumRanks - 1) = SumFunctionOnSet(rem[e], Ranks)
<1> DEFINE N == NumRanks - 1
           h == [r \in Serving(e) |-> order[e][r] - 1]
           seg == [p \in 0 .. N |-> SegRows(e, p)]
           parts == [p \in 0 .. N |-> SumFunctionOnSet(rem[e], {r \in Serving(e) : h[r] = p})]
<1>1. N \in Nat /\ Ranks = 0 .. N /\ IsFiniteSet(0 .. N)
  BY NumRanksAssumption, FS_Interval DEF Ranks
<1>2. \A r \in Serving(e) : h[r] \in 0 .. N /\ h[r] = order[e][r] - 1
  BY SegmentFacts, NumRanksAssumption
<1>3. IsFiniteSet(Serving(e)) /\ Serving(e) \in SUBSET Ranks /\ IsFiniteSet(Ranks)
  BY SegmentFacts, IndexFacts
<1>4. \A r \in Ranks : rem[e][r] \in Int /\ rem[e][r] \in Nat
  BY SegmentFacts
<1>5. SumFunctionOnSet(parts, 0 .. N) = SumFunctionOnSet(rem[e], Serving(e))
  <2>1. \A r \in Serving(e) : rem[e][r] \in Int
    BY <1>3, <1>4
  <2>2. \A r \in Serving(e) : h[r] \in 0 .. N
    BY <1>2
  <2> DEFINE t == rem[e]
             E == Serving(e)
             R == 0 .. N
  <2>3. /\ \A x \in E : t[x] \in Int /\ h[x] \in R
        /\ IsFiniteSet(E) /\ IsFiniteSet(R)
    BY <1>1, <1>3, <2>1, <2>2
  <2>4. parts = [p \in R |-> SumFunctionOnSet(t, {r \in E : h[r] = p})]
    OBVIOUS
  <2> HIDE DEF h, N, t, E, R, parts
  <2>5. SumFunctionOnSet([p \in R |-> SumFunctionOnSet(t, {r \in E : h[r] = p})], R)
          = SumFunctionOnSet(t, E)
    BY <2>3, SumParts
  <2> QED
    BY <2>4, <2>5 DEF t, E, R
<1>6. SumFunctionOnSet(rem[e], Serving(e)) = SumFunctionOnSet(rem[e], Ranks)
  <2>1. \A r \in Ranks \ Serving(e) : rem[e][r] = 0
    BY SegmentFacts
  <2> QED
    BY <1>3, <1>4, <2>1, SumSupport
<1>7. ASSUME NEW p \in 0 .. N PROVE parts[p] = seg[p]
  <2> DEFINE R == {r \in Serving(e) : h[r] = p}
  <2>a. parts[p] = SumFunctionOnSet(rem[e], R) /\ seg[p] = SegRows(e, p)
    OBVIOUS
  <2>0. p \in Nat /\ Serving(e) = Segments(e)
    BY <1>1, SegmentFacts
  <2>00. R = {r \in Serving(e) : order[e][r] = p + 1}
    BY <1>1, <1>2, SegmentFacts
  <2>1. CASE \E r \in Serving(e) : order[e][r] = p + 1
    <3>1. PICK r \in Serving(e) : order[e][r] = p + 1
      BY <2>1
    <3>2. R = {r}
      BY <2>00, <3>1, SegmentFacts
    <3>3. SegRows(e, p) = rem[e][r]
      BY <2>0, <3>1, SegRowsFacts
    <3>4. SumFunctionOnSet(rem[e], {r}) = rem[e][r]
      <4>1. rem[e][r] \in Int
        BY <1>3, <1>4, <3>1
      <4> QED
        BY <4>1, SumSingle
    <3> HIDE DEF parts, seg, R
    <3> QED
      BY <2>a, <3>2, <3>3, <3>4
  <2>2. CASE ~ \E r \in Serving(e) : order[e][r] = p + 1
    <3>1. R = {}
      BY <2>00, <2>2
    <3>2. SegRows(e, p) = 0
      BY <2>0, <2>2 DEF SegRows
    <3>3. SumFunctionOnSet(rem[e], {}) = 0
      BY SumEmpty
    <3> HIDE DEF parts, seg, R
    <3> QED
      BY <2>a, <3>1, <3>2, <3>3
  <2> QED
    BY <2>1, <2>2
<1>8. OrdEnd(e, N) = SumFunctionOnSet(seg, 0 .. N)
  BY DEF OrdEnd, SegRows, SumFunction
<1> HIDE DEF parts, seg, N
<1>9. SumFunctionOnSet(parts, 0 .. N) = SumFunctionOnSet(seg, 0 .. N)
  BY <1>1, <1>7, SumSame
<1> QED
  BY <1>5, <1>6, <1>8, <1>9 DEF N

\* Segments end one behind the other.
LEMMA OrdEndGrows ==
  ASSUME PlanInv, NEW e \in Experts
  PROVE  \A p, k \in Nat : p <= k => OrdEnd(e, p) <= OrdEnd(e, k)
<1> DEFINE C == {k \in Nat : \E p \in Nat : p <= k /\ ~ (OrdEnd(e, p) <= OrdEnd(e, k))}
<1> SUFFICES ASSUME C # {} PROVE FALSE
  OBVIOUS
<1>1. PICK k \in C : \A j \in C : k <= j
  <2>1. C \in SUBSET Nat
    OBVIOUS
  <2> HIDE DEF C
  <2> QED
    BY <2>1, LeastElement
<1>2. k \in Nat
  OBVIOUS
<1>3. PICK p \in Nat : p <= k /\ ~ (OrdEnd(e, p) <= OrdEnd(e, k))
  BY <1>1
<1>4. \A j \in Nat : OrdEnd(e, j) \in Nat
  BY OrdEndStep
<1>5. p # k
  BY <1>2, <1>3, <1>4
<1>6. k - 1 \in Nat /\ p <= k - 1 /\ k # 0
  BY <1>2, <1>3, <1>5
<1>7. k - 1 \notin C
  BY <1>1, <1>2, <1>6
<1>8. OrdEnd(e, p) <= OrdEnd(e, k - 1)
  BY <1>6, <1>7
<1>9. OrdEnd(e, k) = OrdEnd(e, k - 1) + SegRows(e, k) /\ SegRows(e, k) \in Nat
  BY <1>2, <1>6, OrdEndStep, SegRowsFacts
<1> QED
  BY <1>3, <1>4, <1>6, <1>8, <1>9

-----------------------------------------------------------------------------
\* The tokens of rank q for expert e before its m-th, and the place of the
\* next one among the rows of the expert.
Earlier(q, e, m) == {k \in Tokens : k < m /\ topk[q][k] = e}
PlaceAt(q, e, m) == PcntBase(q, e) + Cardinality(Earlier(q, e, m))

\* The chunks of a rank cover its tokens.
LEMMA ChunkFacts ==
  /\ Chunk \in Nat \ {0} /\ NumRows \in Nat /\ NumRows \div Chunk \in Nat
  /\ NumRows = Chunk * (NumRows \div Chunk)
  /\ \A c \in Chunks : /\ c \in Nat /\ c * Chunk \in Nat
                       /\ (c + 1) * Chunk = c * Chunk + Chunk
                       /\ c * Chunk + Chunk <= NumRows
  /\ \A i \in Tokens : /\ i \in Nat /\ i \div Chunk \in Chunks
                       /\ (i \div Chunk) * Chunk <= i
                       /\ i < (i \div Chunk) * Chunk + Chunk
<1> DEFINE n == NumRows \div Chunk
<1>1. Chunk \in Nat \ {0} /\ NumRows \in Nat /\ NumRows % Chunk = 0
  BY ChunkAssumption, NumRowsAssumption
<1>2. n \in Nat /\ NumRows = Chunk * n
  <2>1. n \in Nat /\ NumRows = Chunk * n + (NumRows % Chunk)
    BY <1>1, DivMod
  <2>2. Chunk * n \in Int
    BY <1>1, <2>1
  <2> HIDE DEF n
  <2> QED
    BY <1>1, <2>1, <2>2
<1> HIDE DEF n
<1>3. ASSUME NEW a \in Nat, NEW b \in Nat, a < b
      PROVE  a * Chunk + Chunk <= b * Chunk /\ a * Chunk \in Nat
             /\ (a + 1) * Chunk = a * Chunk + Chunk
  <2>1. b - a - 1 \in Nat /\ b = a + 1 + (b - a - 1)
    BY <1>3
  <2>2. (b - a - 1) * Chunk \in Nat /\ a * Chunk \in Nat /\ (a + 1) * Chunk = a * Chunk + Chunk
    BY <1>1, <2>1
  <2>3. b * Chunk = a * Chunk + Chunk + (b - a - 1) * Chunk
    BY <1>1, <2>1
  <2> QED
    BY <1>1, <2>2, <2>3
<1>4. ASSUME NEW c \in Chunks
      PROVE  /\ c \in Nat /\ c * Chunk \in Nat /\ (c + 1) * Chunk = c * Chunk + Chunk
             /\ c * Chunk + Chunk <= NumRows
  <2>1. c \in Nat /\ c < n
    BY <1>2 DEF Chunks, n
  <2>2. n * Chunk = Chunk * n
    BY <1>1, <1>2
  <2> QED
    BY <1>2, <1>3, <2>1, <2>2
<1>5. ASSUME NEW i \in Tokens
      PROVE  /\ i \in Nat /\ i \div Chunk \in Chunks /\ (i \div Chunk) * Chunk <= i
             /\ i < (i \div Chunk) * Chunk + Chunk
  <2> DEFINE d == i \div Chunk
  <2>1. i \in Nat /\ i < NumRows
    BY <1>1 DEF Tokens
  <2>2. d \in Nat /\ i % Chunk \in 0 .. Chunk - 1 /\ i = Chunk * d + (i % Chunk)
    BY <1>1, <2>1, DivMod
  <2> HIDE DEF d
  <2>3. Chunk * d = d * Chunk /\ d * Chunk \in Nat
    BY <1>1, <2>2
  <2>4. d * Chunk <= i /\ i < d * Chunk + Chunk
    BY <1>1, <2>2, <2>3
  <2>5. d < n
    <3> SUFFICES ASSUME n <= d PROVE FALSE
      BY <1>2, <2>2
    <3>1. n * Chunk <= d * Chunk
      <4>1. CASE n = d
        BY <2>3, <4>1
      <4>2. CASE n < d
        <5>1. n * Chunk + Chunk <= d * Chunk /\ n * Chunk \in Nat
          BY <1>2, <1>3, <2>2, <4>2
        <5> QED
          BY <1>1, <2>3, <5>1
      <4> QED
        BY <1>2, <2>2, <4>1, <4>2
    <3>2. n * Chunk = NumRows
      BY <1>1, <1>2
    <3> QED
      BY <1>1, <2>1, <2>3, <2>4, <3>1, <3>2
  <2>6. d \in Chunks
    BY <1>2, <2>2, <2>5 DEF Chunks, n
  <2> QED
    BY <2>1, <2>4, <2>6 DEF d
<1> QED
  BY <1>1, <1>2, <1>4, <1>5 DEF n

\* How many earlier tokens there are, token by token.
LEMMA EarlierFacts ==
  ASSUME NEW q, NEW e
  PROVE  /\ \A m : /\ IsFiniteSet(Earlier(q, e, m)) /\ Cardinality(Earlier(q, e, m)) \in Nat
                   /\ Cardinality(Earlier(q, e, m)) <= Demand(q, e)
         /\ \A i \in Tokens :
               Cardinality(Earlier(q, e, i + 1))
                 = Cardinality(Earlier(q, e, i)) + (IF topk[q][i] = e THEN 1 ELSE 0)
<1> DEFINE T == {k \in Tokens : topk[q][k] = e}
<1>0. \A i \in Tokens : i \in Nat
  BY NumRowsAssumption DEF Tokens
<1>1. IsFiniteSet(T) /\ Demand(q, e) = Cardinality(T)
  BY DemandNat DEF Demand
<1>2. \A m : Earlier(q, e, m) \in SUBSET T
  BY DEF Earlier
<1> HIDE DEF T
<1>3. \A m : /\ IsFiniteSet(Earlier(q, e, m)) /\ Cardinality(Earlier(q, e, m)) \in Nat
             /\ Cardinality(Earlier(q, e, m)) <= Demand(q, e)
  BY <1>1, <1>2, FS_Subset, FS_CardinalityType
<1>4. ASSUME NEW i \in Tokens
      PROVE  Cardinality(Earlier(q, e, i + 1))
               = Cardinality(Earlier(q, e, i)) + (IF topk[q][i] = e THEN 1 ELSE 0)
  <2>1. i \notin Earlier(q, e, i)
    BY <1>0 DEF Earlier
  <2>2. CASE topk[q][i] = e
    <3>1. Earlier(q, e, i + 1) = Earlier(q, e, i) \cup {i}
      BY <1>0, <2>2 DEF Earlier
    <3>2. Cardinality(Earlier(q, e, i) \cup {i}) = Cardinality(Earlier(q, e, i)) + 1
      BY <1>3, <2>1, FS_AddElement
    <3> QED
      BY <2>2, <3>1, <3>2
  <2>3. CASE topk[q][i] # e
    <3>1. Earlier(q, e, i + 1) = Earlier(q, e, i)
      BY <1>0, <2>3 DEF Earlier
    <3> QED
      BY <1>3, <2>3, <3>1
  <2> QED
    BY <2>2, <2>3
<1> QED
  BY <1>3, <1>4

\* What _pfx stores for a chunk: the place of its first token.
LEMMA PcntIs ==
  ASSUME NEW q, NEW e, NEW c \in Chunks
  PROVE  Pcnt(q, e, c) = PlaceAt(q, e, c * Chunk)
<1> DEFINE T == Earlier(q, e, c * Chunk)
           R == 0 .. c - 1
           h == [k \in T |-> k \div Chunk]
           parts == [b \in R |-> Cardinality({k \in T : h[k] = b})]
           counts == [b \in R |-> Counts(q, b, e)]
<1>1. c \in Nat /\ c * Chunk \in Nat /\ c * Chunk + Chunk <= NumRows /\ Chunk \in Nat \ {0}
      /\ NumRows \in Nat
  BY ChunkFacts
<1>2. IsFiniteSet(T) /\ IsFiniteSet(R)
  <2>1. IsFiniteSet(T)
    BY EarlierFacts
  <2>2. IsFiniteSet(R)
    BY <1>1, FS_Interval
  <2> QED
    BY <2>1, <2>2
<1>3. ASSUME NEW k \in T
      PROVE  /\ h[k] = k \div Chunk /\ h[k] \in R /\ k \in Nat
             /\ h[k] * Chunk <= k /\ k < h[k] * Chunk + Chunk
  <2>1. k \in Tokens /\ k < c * Chunk
    BY DEF Earlier
  <2>2. /\ k \in Nat /\ k \div Chunk \in Nat /\ (k \div Chunk) * Chunk <= k
        /\ k < (k \div Chunk) * Chunk + Chunk
    <3>1. k \div Chunk \in Chunks
      BY <2>1, ChunkFacts
    <3> QED
      BY <2>1, <3>1, ChunkFacts
  <2> DEFINE d == k \div Chunk
  <2>3. d < c
    <3> SUFFICES ASSUME c <= d PROVE FALSE
      BY <1>1, <2>2
    <3> HIDE DEF d
    <3>1. d - c \in Nat
      BY <1>1, <2>2 DEF d
    <3>2. d * Chunk = c * Chunk + (d - c) * Chunk /\ (d - c) * Chunk \in Nat
      BY <1>1, <2>2, <3>1 DEF d
    <3> QED
      BY <1>1, <2>1, <2>2, <3>2 DEF d
  <2> QED
    BY <1>1, <2>2, <2>3
<1>4. ASSUME NEW b \in R PROVE parts[b] = counts[b]
  <2>1. b \in Nat /\ b < c
    BY <1>1
  <2>2. /\ b * Chunk \in Nat /\ (b + 1) * Chunk = b * Chunk + Chunk
        /\ b * Chunk + Chunk <= c * Chunk
    <3>1. c - b - 1 \in Nat
      BY <1>1, <2>1
    <3>2. (c - b - 1) * Chunk \in Nat /\ c * Chunk = b * Chunk + Chunk + (c - b - 1) * Chunk
          /\ b * Chunk \in Nat /\ (b + 1) * Chunk = b * Chunk + Chunk
      BY <1>1, <2>1, <3>1
    <3> QED
      BY <1>1, <3>2
  <2> DEFINE P == {k \in T : h[k] = b}
             Q == {k \in b * Chunk .. (b + 1) * Chunk - 1 : topk[q][k] = e}
  <2>3. ASSUME NEW k \in P PROVE k \in Q
    <3>1. k \in T /\ h[k] = b
      OBVIOUS
    <3>2. k \in Nat /\ b * Chunk <= k /\ k < b * Chunk + Chunk /\ topk[q][k] = e
      BY <1>3, <3>1 DEF Earlier
    <3> QED
      BY <1>1, <2>2, <3>2
  <2>4. ASSUME NEW k \in Q PROVE k \in P
    <3>1. k \in Int /\ b * Chunk <= k /\ k < b * Chunk + Chunk /\ topk[q][k] = e
      BY <1>1, <2>2
    <3>2. k \in Nat /\ k < c * Chunk /\ k < NumRows
      BY <1>1, <2>2, <3>1
    <3>3. k \in T
      BY <1>1, <3>1, <3>2 DEF Earlier, Tokens
    <3>4. h[k] = b
      <4>1. k - b * Chunk \in 0 .. Chunk - 1 /\ k = Chunk * b + (k - b * Chunk)
        BY <1>1, <2>1, <2>2, <3>1
      <4>2. (Chunk * b + (k - b * Chunk)) \div Chunk = b
        BY <1>1, <2>1, <4>1, DivIs
      <4> QED
        BY <3>3, <4>1, <4>2
    <3> QED
      BY <3>3, <3>4
  <2>5. P = Q
    BY <2>3, <2>4
  <2>6. parts[b] = Cardinality(P) /\ counts[b] = Cardinality(Q)
    BY DEF Counts
  <2> HIDE DEF P, Q, parts, counts
  <2> QED
    BY <2>5, <2>6
<1>5. SumFunctionOnSet(parts, R) = Cardinality(T)
  <2>1. \A k \in T : h[k] \in R
    BY <1>3
  <2> HIDE DEF T, R, h
  <2> QED
    BY <1>2, <2>1, CountParts
<1>6. SumFunctionOnSet(parts, R) = SumFunctionOnSet(counts, R)
  <2> HIDE DEF T, R, h, parts, counts
  <2> QED
    BY <1>2, <1>4, SumSame
<1>7. Pcnt(q, e, c) = PcntBase(q, e) + SumFunctionOnSet(counts, R)
  BY DEF Pcnt, SumFunction
<1> HIDE DEF parts, counts, R, h
<1> QED
  BY <1>5, <1>6, <1>7 DEF PlaceAt

\* The place of a token is before the end of the last segment.
LEMMA PlaceBelow ==
  ASSUME PlanInv, NEW q \in Ranks, NEW e \in Experts
  PROVE  /\ PcntBase(q, e) \in Nat
         /\ PcntBase(q, e) + Demand(q, e) <= OrdEnd(e, NumRanks - 1)
         /\ \A m : PlaceAt(q, e, m) \in Nat
         /\ \A i \in Tokens : topk[q][i] = e => PlaceAt(q, e, i) < OrdEnd(e, NumRanks - 1)
<1> DEFINE d == [r \in Ranks |-> Demand(r, e)]
           S == {r \in Ranks : r # q /\ Before(r, q, e)}
           Q == S \cup {q}
<1>0. \A r : Demand(r, e) \in Nat
  BY DemandNat
<1>1. \A r \in Ranks : d[r] = Demand(r, e) /\ d[r] \in Nat /\ d[r] \in Int
  BY <1>0
<1>2. IsFiniteSet(Ranks) /\ S \in SUBSET Ranks /\ Q \in SUBSET Ranks /\ q \in Q /\ Q \ {q} = S
  BY IndexFacts
<1>3. PcntBase(q, e) = SumFunctionOnSet(d, S)
  BY DEF PcntBase
<1>4. OrdEnd(e, NumRanks - 1) = SumFunctionOnSet(d, Ranks)
  BY OrdEndTotal DEF PlanInv, DemandServed
<1> HIDE DEF d, S, Q
<1>5. IsFiniteSet(S) /\ IsFiniteSet(Q)
  BY <1>2, FS_Subset
<1>6. SumFunctionOnSet(d, S) \in Nat
  <2>1. \A r \in S : d[r] \in Int /\ d[r] \in Nat
    BY <1>1, <1>2
  <2> QED
    BY <1>5, <2>1, SumInt
<1>7. SumFunctionOnSet(d, Q) = d[q] + SumFunctionOnSet(d, S)
  <2>1. \A r \in Q : d[r] \in Int
    BY <1>1, <1>2
  <2> QED
    BY <1>2, <1>5, <2>1, SumRemove
<1>8. SumFunctionOnSet(d, Q) <= SumFunctionOnSet(d, Ranks)
  BY <1>1, <1>2, SumSubset
<1>9. SumFunctionOnSet(d, Ranks) \in Nat
  BY <1>1, <1>2, SumInt
<1>10. PcntBase(q, e) + Demand(q, e) <= OrdEnd(e, NumRanks - 1)
  BY <1>1, <1>3, <1>4, <1>6, <1>7, <1>8, <1>9
<1>11. \A m : PlaceAt(q, e, m) \in Nat
  <2>1. \A m : Cardinality(Earlier(q, e, m)) \in Nat
    BY EarlierFacts
  <2> QED
    BY <1>3, <1>6, <2>1 DEF PlaceAt
<1>12. ASSUME NEW i \in Tokens, topk[q][i] = e
       PROVE  PlaceAt(q, e, i) < OrdEnd(e, NumRanks - 1)
  <2>1. /\ Cardinality(Earlier(q, e, i)) \in Nat
        /\ Cardinality(Earlier(q, e, i + 1)) <= Demand(q, e)
        /\ Cardinality(Earlier(q, e, i + 1)) = Cardinality(Earlier(q, e, i)) + 1
    BY <1>12, EarlierFacts
  <2>2. OrdEnd(e, NumRanks - 1) \in Nat /\ Demand(q, e) \in Nat /\ PcntBase(q, e) \in Nat
    BY <1>0, <1>3, <1>4, <1>6, <1>9
  <2> QED
    BY <1>10, <2>1, <2>2 DEF PlaceAt
<1> QED
  BY <1>3, <1>6, <1>10, <1>11, <1>12

-----------------------------------------------------------------------------
\* Place pos of expert e is in segment o: behind it ends no earlier one.
InSegment(e, pos, o) ==
    /\ o \in 0 .. NumRanks - 1
    /\ pos < OrdEnd(e, o)
    /\ \A p \in 0 .. o - 1 : OrdEnd(e, p) <= pos

\* A place is in no more than one segment, and that is the one _relocate finds.
LEMMA SegmentUnique ==
  ASSUME PlanInv, NEW e \in Experts, NEW pos \in Nat, NEW o, InSegment(e, pos, o)
  PROVE  SegmentAt(e, pos) = o
<1>1. \A p \in Nat : OrdEnd(e, p) \in Nat
  BY OrdEndStep
<1>2. ASSUME NEW a, NEW b, InSegment(e, pos, a), InSegment(e, pos, b), a < b
      PROVE  FALSE
  <2>1. a \in Nat /\ b \in Nat /\ a \in 0 .. b - 1
    BY <1>2, NumRanksAssumption DEF InSegment
  <2>2. OrdEnd(e, a) <= pos /\ pos < OrdEnd(e, a) /\ OrdEnd(e, a) \in Nat
    BY <1>1, <1>2, <2>1 DEF InSegment
  <2> QED
    BY <2>2
<1>3. \A a, b : InSegment(e, pos, a) /\ InSegment(e, pos, b) => a = b
  <2> SUFFICES ASSUME NEW a, NEW b, InSegment(e, pos, a), InSegment(e, pos, b), a # b
               PROVE  FALSE
    OBVIOUS
  <2>1. a \in Nat /\ b \in Nat
    BY NumRanksAssumption DEF InSegment
  <2>2. a < b \/ b < a
    BY <2>1
  <2> QED
    BY <1>2, <2>2
<1>4. SegmentAt(e, pos) = CHOOSE a \in 0 .. NumRanks - 1 :
                            pos < OrdEnd(e, a) /\ \A p \in 0 .. a - 1 : OrdEnd(e, p) <= pos
  BY DEF SegmentAt
<1>5. InSegment(e, pos, SegmentAt(e, pos))
  <2>1. \E a \in 0 .. NumRanks - 1 :
           pos < OrdEnd(e, a) /\ \A p \in 0 .. a - 1 : OrdEnd(e, p) <= pos
    BY DEF InSegment
  <2> QED
    BY <1>4, <2>1 DEF InSegment
<1> QED
  BY <1>3, <1>5

\* Every place of the expert is in a segment, and there are rows in it.
LEMMA SegmentAtIs ==
  ASSUME PlanInv, NEW e \in Experts, NEW pos \in Nat, pos < OrdEnd(e, NumRanks - 1)
  PROVE  /\ InSegment(e, pos, SegmentAt(e, pos))
         /\ SegRows(e, SegmentAt(e, pos)) # 0
<1> DEFINE T == {o \in 0 .. NumRanks - 1 : pos < OrdEnd(e, o)}
<1>0. NumRanks - 1 \in Nat /\ NumRanks - 1 \in T /\ T \in SUBSET Nat
  BY NumRanksAssumption
<1>1. \A o \in Nat : OrdEnd(e, o) \in Nat
  BY OrdEndStep
<1>2. PICK o \in T : \A p \in T : o <= p
  <2> HIDE DEF T
  <2> QED
    BY <1>0, LeastElement
<1>3. InSegment(e, pos, o)
  <2>1. ASSUME NEW p \in 0 .. o - 1 PROVE OrdEnd(e, p) <= pos
    <3>1. p \in Nat /\ p \in 0 .. NumRanks - 1 /\ p < o
      BY <1>0, <1>2, NumRanksAssumption
    <3>2. p \notin T
      BY <1>0, <1>2, <3>1
    <3>3. OrdEnd(e, p) \in Nat
      BY <1>1, <3>1
    <3> QED
      BY <3>1, <3>2, <3>3
  <2> QED
    BY <1>2, <2>1 DEF InSegment
<1> DEFINE s == SegmentAt(e, pos)
<1>4. InSegment(e, pos, s)
  BY <1>3, SegmentUnique
<1>5. SegRows(e, s) # 0
  <2>1. s \in Nat /\ pos < OrdEnd(e, s) /\ \A p \in 0 .. s - 1 : OrdEnd(e, p) <= pos
    BY <1>4, NumRanksAssumption DEF InSegment
  <2> HIDE DEF s
  <2>2. OrdEnd(e, s) = (IF s = 0 THEN 0 ELSE OrdEnd(e, s - 1)) + SegRows(e, s)
    BY <2>1, OrdEndStep
  <2>3. CASE s = 0
    BY <2>1, <2>2, <2>3
  <2>4. CASE s # 0
    <3>1. s - 1 \in Nat /\ s - 1 \in 0 .. s - 1
      BY <2>1, <2>4
    <3>2. OrdEnd(e, s - 1) <= pos /\ OrdEnd(e, s - 1) \in Nat
      BY <1>1, <2>1, <3>1
    <3> QED
      BY <2>1, <2>2, <2>4, <3>2
  <2> QED
    BY <2>3, <2>4
<1> QED
  BY <1>4, <1>5

-----------------------------------------------------------------------------
\* The registers of _assign_chunk at its start, and one turn of its loop.
ChunkStart(q, c) ==
    [vid |-> [i \in {} |-> 0],
     pos |-> [e \in Experts |-> IF IsFast(e) THEN 0 ELSE Pcnt(q, e, c)],
     segEnd |-> [e \in Experts |-> 0],
     cur |-> [e \in Experts |-> 0]]

ChunkTurn(q, c, s, n) ==
    LET i == c * Chunk + n - 1
        e == topk[q][i]
        o == SegmentAt(e, s.pos[e])
        hit == s.pos[e] < s.segEnd[e]
        v == IF IsFast(e) THEN HomeSlot(HomeOf(e), e)
             ELSE IF hit THEN s.cur[e] ELSE SlotOfSegment(e, o)
    IN  [vid |-> [k \in DOMAIN s.vid \cup {i} |-> IF k = i THEN v ELSE s.vid[k]],
         pos |-> [s.pos EXCEPT ![e] = @ + 1],
         segEnd |-> IF IsFast(e) \/ hit THEN s.segEnd
                    ELSE [s.segEnd EXCEPT ![e] = OrdEnd(e, o)],
         cur |-> [s.cur EXCEPT ![e] = v]]

IsRun(g, q, c, m) ==
    g = [n \in 0 .. m |-> IF n = 0 THEN ChunkStart(q, c) ELSE ChunkTurn(q, c, g[n - 1], n)]

\* The result of _assign_chunk is what such a run of the loop leaves in vid.
LEMMA AssignIs ==
  ASSUME NEW q, NEW c
  PROVE  AssignChunk(q, c) = (CHOOSE g : IsRun(g, q, c, Chunk))[Chunk].vid
BY DEF AssignChunk, IsRun, ChunkStart, ChunkTurn

\* There is such a run, of any length.
LEMMA RunExists ==
  ASSUME NEW q, NEW c, NEW m \in Nat
  PROVE  \E g : IsRun(g, q, c, m)
<1> DEFINE C == {k \in Nat : ~ \E g : IsRun(g, q, c, k)}
<1> SUFFICES ASSUME C # {} PROVE FALSE
  OBVIOUS
<1>1. PICK k \in C : \A j \in C : k <= j
  <2>1. C \in SUBSET Nat
    OBVIOUS
  <2> HIDE DEF C
  <2> QED
    BY <2>1, LeastElement
<1>2. k \in Nat /\ ~ \E g : IsRun(g, q, c, k)
  OBVIOUS
<1>3. CASE k = 0
  <2> DEFINE g == [n \in 0 .. 0 |-> ChunkStart(q, c)]
  <2>1. g = [n \in 0 .. 0 |-> IF n = 0 THEN ChunkStart(q, c) ELSE ChunkTurn(q, c, g[n - 1], n)]
    OBVIOUS
  <2> HIDE DEF g
  <2>2. IsRun(g, q, c, 0)
    BY <2>1 DEF IsRun
  <2> QED
    BY <1>2, <1>3, <2>2
<1>4. CASE k # 0
  <2>1. k - 1 \in Nat /\ k - 1 \notin C
    BY <1>1, <1>2, <1>4
  <2>2. PICK g : IsRun(g, q, c, k - 1)
    BY <2>1
  <2> DEFINE Val(n) == IF n = 0 THEN ChunkStart(q, c) ELSE ChunkTurn(q, c, g[n - 1], n)
             G == [n \in 0 .. k |-> Val(n)]
  <2>3. \A n \in 0 .. k - 1 : g[n] = Val(n)
    BY <2>2 DEF IsRun
  <2>4. \A n \in 0 .. k : G[n] = Val(n)
    OBVIOUS
  <2>5. \A n \in 0 .. k - 1 : G[n] = g[n]
    <3> HIDE DEF G, Val
    <3> QED
      BY <1>2, <2>3, <2>4
  <2>6. \A n \in 0 .. k : n # 0 => G[n - 1] = g[n - 1]
    <3>1. \A n \in 0 .. k : n # 0 => n - 1 \in 0 .. k - 1
      BY <1>2
    <3> HIDE DEF G
    <3> QED
      BY <2>5, <3>1
  <2> DEFINE Own(n) == IF n = 0 THEN ChunkStart(q, c) ELSE ChunkTurn(q, c, G[n - 1], n)
  <2>7. \A n \in 0 .. k : Val(n) = Own(n)
    <3> HIDE DEF G
    <3> QED
      BY <2>6
  <2>8. G = [n \in 0 .. k |-> Own(n)]
    <3> HIDE DEF Own, Val
    <3> QED
      BY <2>7
  <2>9. IsRun(G, q, c, k)
    <3> HIDE DEF G
    <3> QED
      BY <2>8 DEF IsRun
  <2> QED
    BY <1>2, <2>9
<1> QED
  BY <1>3, <1>4

-----------------------------------------------------------------------------
\* The slot of a token, from its place alone: what a search for each token
\* would give.
VidOf(q, i) ==
    LET e == topk[q][i]
    IN  IF IsFast(e) THEN HomeSlot(HomeOf(e), e)
        ELSE SlotOfSegment(e, SegmentAt(e, PlaceAt(q, e, i)))

\* The cursor of an expert: as long as its place is before segEnd, segEnd and
\* cur are those of the segment with that place.
CursorRight(e, pos, segEnd, cur) ==
    /\ segEnd \in Nat
    /\ pos < segEnd =>
          /\ InSegment(e, pos, SegmentAt(e, pos))
          /\ segEnd = OrdEnd(e, SegmentAt(e, pos))
          /\ cur = SlotOfSegment(e, SegmentAt(e, pos))

\* The registers of _assign_chunk after n tokens of its chunk.
TurnsRight(q, c, s, n) ==
    /\ DOMAIN s.vid = c * Chunk .. c * Chunk + n - 1
    /\ \A k \in c * Chunk .. c * Chunk + n - 1 : s.vid[k] = VidOf(q, k)
    /\ DOMAIN s.pos = Experts /\ DOMAIN s.segEnd = Experts /\ DOMAIN s.cur = Experts
    /\ \A e \in Experts : ~ IsFast(e) =>
          /\ s.pos[e] = PlaceAt(q, e, c * Chunk + n)
          /\ CursorRight(e, s.pos[e], s.segEnd[e], s.cur[e])

\* At its start a chunk has assigned nothing and looked nothing up.
LEMMA StartRight ==
  ASSUME PlanInv, NEW q \in Ranks, NEW c \in Chunks
  PROVE  TurnsRight(q, c, ChunkStart(q, c), 0)
<1>1. c * Chunk \in Nat
  BY ChunkFacts
<1>2. c * Chunk .. c * Chunk + 0 - 1 = {} /\ c * Chunk + 0 = c * Chunk
  BY <1>1
<1>3. \A e \in Experts : Pcnt(q, e, c) = PlaceAt(q, e, c * Chunk) /\ PlaceAt(q, e, c * Chunk) \in Nat
  BY PcntIs, PlaceBelow
<1> DEFINE s == ChunkStart(q, c)
<1>4. /\ DOMAIN s.vid = {} /\ DOMAIN s.pos = Experts
      /\ DOMAIN s.segEnd = Experts /\ DOMAIN s.cur = Experts
      /\ \A e \in Experts : ~ IsFast(e) => s.pos[e] = Pcnt(q, e, c) /\ s.segEnd[e] = 0
  BY DEF ChunkStart
<1> HIDE DEF s
<1>5. \A e \in Experts : ~ IsFast(e) => CursorRight(e, s.pos[e], s.segEnd[e], s.cur[e])
  <2> SUFFICES ASSUME NEW e \in Experts, ~ IsFast(e)
               PROVE  CursorRight(e, s.pos[e], s.segEnd[e], s.cur[e])
    OBVIOUS
  <2>1. s.pos[e] \in Nat /\ s.segEnd[e] = 0
    BY <1>3, <1>4
  <2> QED
    BY <2>1 DEF CursorRight
<1> QED
  BY <1>2, <1>3, <1>4, <1>5 DEF TurnsRight, s

\* One token further, a place stays in its segment until the segment ends.
LEMMA CursorStep ==
  ASSUME PlanInv, NEW e \in Experts, NEW pos \in Nat, NEW o, InSegment(e, pos, o)
  PROVE  CursorRight(e, pos + 1, OrdEnd(e, o), SlotOfSegment(e, o))
<1>1. o \in Nat /\ OrdEnd(e, o) \in Nat
  BY OrdEndStep, NumRanksAssumption DEF InSegment
<1>2. ASSUME pos + 1 < OrdEnd(e, o) PROVE InSegment(e, pos + 1, o)
  <2>1. \A p \in 0 .. o - 1 : OrdEnd(e, p) <= pos + 1
    <3>1. \A p \in 0 .. o - 1 : OrdEnd(e, p) <= pos /\ OrdEnd(e, p) \in Nat
      BY <1>1, OrdEndStep DEF InSegment
    <3> QED
      BY <3>1
  <2> QED
    BY <1>2, <2>1 DEF InSegment
<1>3. pos + 1 < OrdEnd(e, o) => SegmentAt(e, pos + 1) = o
  BY <1>2, SegmentUnique
<1> QED
  BY <1>1, <1>2, <1>3 DEF CursorRight

\* A turn of the loop gives its token the slot of its place, whether the
\* cursor still holds or the segment is looked up.
LEMMA TurnRight ==
  ASSUME PlanInv, NEW q \in Ranks, NEW c \in Chunks, NEW n \in 1 .. Chunk, NEW s,
         TurnsRight(q, c, s, n - 1)
  PROVE  TurnsRight(q, c, ChunkTurn(q, c, s, n), n)
<1> DEFINE b == c * Chunk
           i == b + n - 1
           e == topk[q][i]
<1>1. b \in Nat /\ b + Chunk <= NumRows /\ Chunk \in Nat \ {0} /\ NumRows \in Nat /\ n \in Nat
  BY ChunkFacts
<1>2. i \in Tokens /\ i \in Nat /\ b + n - 1 = i /\ b + (n - 1) - 1 = i - 1 /\ b + n = i + 1
      /\ b + (n - 1) = i
  BY <1>1 DEF Tokens
<1>3. e \in Experts
  BY <1>2 DEF PlanInv
<1> DEFINE o == SegmentAt(e, s.pos[e])
           hit == s.pos[e] < s.segEnd[e]
           v == IF IsFast(e) THEN HomeSlot(HomeOf(e), e)
                ELSE IF hit THEN s.cur[e] ELSE SlotOfSegment(e, o)
           t == ChunkTurn(q, c, s, n)
<1>4. /\ t.vid = [k \in DOMAIN s.vid \cup {i} |-> IF k = i THEN v ELSE s.vid[k]]
      /\ t.pos = [s.pos EXCEPT ![e] = @ + 1]
      /\ t.segEnd = IF IsFast(e) \/ hit THEN s.segEnd ELSE [s.segEnd EXCEPT ![e] = OrdEnd(e, o)]
      /\ t.cur = [s.cur EXCEPT ![e] = v]
  BY DEF ChunkTurn
<1> HIDE DEF b, i, e, o, hit, v, t
<1>5. /\ DOMAIN s.vid = b .. i - 1
      /\ \A k \in b .. i - 1 : s.vid[k] = VidOf(q, k)
      /\ DOMAIN s.pos = Experts /\ DOMAIN s.segEnd = Experts /\ DOMAIN s.cur = Experts
      /\ \A f \in Experts : ~ IsFast(f) =>
            /\ s.pos[f] = PlaceAt(q, f, i)
            /\ CursorRight(f, s.pos[f], s.segEnd[f], s.cur[f])
  BY <1>2 DEF TurnsRight, b
<1>6. ASSUME ~ IsFast(e)
      PROVE  /\ s.pos[e] \in Nat /\ InSegment(e, s.pos[e], o)
             /\ v = SlotOfSegment(e, o) /\ t.segEnd[e] = OrdEnd(e, o)
  <2>1. s.pos[e] = PlaceAt(q, e, i) /\ CursorRight(e, s.pos[e], s.segEnd[e], s.cur[e])
    BY <1>3, <1>5, <1>6
  <2>2. PlaceAt(q, e, i) \in Nat /\ PlaceAt(q, e, i) < OrdEnd(e, NumRanks - 1)
    BY <1>2, <1>3, PlaceBelow DEF e
  <2>3. InSegment(e, s.pos[e], o)
    BY <1>3, <2>1, <2>2, SegmentAtIs DEF o
  <2>4. CASE hit
    <3>1. s.segEnd[e] = OrdEnd(e, o) /\ s.cur[e] = SlotOfSegment(e, o)
      BY <2>1, <2>4 DEF CursorRight, hit, o
    <3>2. t.segEnd = s.segEnd
      BY <1>4, <2>4
    <3> QED
      BY <1>6, <2>1, <2>2, <2>3, <2>4, <3>1, <3>2 DEF v
  <2>5. CASE ~ hit
    <3>1. t.segEnd = [s.segEnd EXCEPT ![e] = OrdEnd(e, o)]
      BY <1>4, <1>6, <2>5
    <3>2. t.segEnd[e] = OrdEnd(e, o)
      BY <1>3, <1>5, <3>1
    <3> QED
      BY <1>6, <2>1, <2>2, <2>3, <2>5, <3>2 DEF v
  <2> QED
    BY <2>4, <2>5
<1>7. v = VidOf(q, i)
  <2>1. CASE IsFast(e)
    BY <2>1 DEF VidOf, v, e
  <2>2. CASE ~ IsFast(e)
    <3>1. s.pos[e] = PlaceAt(q, e, i)
      BY <1>3, <1>5, <2>2
    <3> QED
      BY <1>6, <2>2, <3>1 DEF VidOf, e, o
  <2> QED
    BY <2>1, <2>2
<1>8. DOMAIN t.vid = b .. i /\ \A k \in b .. i : t.vid[k] = VidOf(q, k)
  <2>1. (b .. i - 1) \cup {i} = b .. i
    BY <1>1, <1>2
  <2>2. \A k \in b .. i : k # i => k \in b .. i - 1
    BY <1>1, <1>2
  <2>3. t.vid = [k \in b .. i |-> IF k = i THEN v ELSE s.vid[k]]
    BY <1>4, <1>5, <2>1
  <2> QED
    BY <1>5, <1>7, <2>2, <2>3
<1>9. /\ DOMAIN t.pos = Experts /\ DOMAIN t.segEnd = Experts /\ DOMAIN t.cur = Experts
      /\ t.pos[e] = s.pos[e] + 1 /\ t.cur[e] = v
      /\ \A f \in Experts : f # e => /\ t.pos[f] = s.pos[f] /\ t.segEnd[f] = s.segEnd[f]
                                     /\ t.cur[f] = s.cur[f]
  BY <1>3, <1>4, <1>5
<1>10. ASSUME NEW f \in Experts, ~ IsFast(f)
       PROVE  t.pos[f] = PlaceAt(q, f, i + 1) /\ CursorRight(f, t.pos[f], t.segEnd[f], t.cur[f])
  <2>1. PlaceAt(q, f, i + 1) = PlaceAt(q, f, i) + (IF e = f THEN 1 ELSE 0)
    <3>1. /\ Cardinality(Earlier(q, f, i + 1))
               = Cardinality(Earlier(q, f, i)) + (IF e = f THEN 1 ELSE 0)
          /\ Cardinality(Earlier(q, f, i)) \in Nat
      BY <1>2, EarlierFacts DEF e
    <3>2. PcntBase(q, f) \in Nat
      BY PlaceBelow
    <3> QED
      BY <3>1, <3>2 DEF PlaceAt
  <2>2. PlaceAt(q, f, i) \in Nat
    BY PlaceBelow
  <2>3. CASE f = e
    <3>1. t.pos[f] = s.pos[f] + 1 /\ s.pos[f] = PlaceAt(q, f, i)
      BY <1>5, <1>9, <1>10, <2>3
    <3>2. CursorRight(e, s.pos[e] + 1, OrdEnd(e, o), SlotOfSegment(e, o))
      BY <1>3, <1>6, <1>10, <2>3, CursorStep
    <3>3. t.segEnd[e] = OrdEnd(e, o) /\ t.cur[e] = SlotOfSegment(e, o)
      BY <1>6, <1>9, <1>10, <2>3
    <3> QED
      BY <2>1, <2>3, <3>1, <3>2, <3>3
  <2>4. CASE f # e
    BY <1>5, <1>9, <1>10, <2>1, <2>2, <2>4
  <2> QED
    BY <2>3, <2>4
<1>11. TurnsRight(q, c, t, n)
  BY <1>2, <1>8, <1>9, <1>10 DEF TurnsRight, b
<1> QED
  BY <1>11 DEF t

\* Hence vtopk is what a search for every single token would give: the chunks
\* begin at the right places, and no cursor is used beyond its segment.
LEMMA VtopkIs ==
  ASSUME PlanInv, NEW q \in Ranks, NEW i \in Tokens
  PROVE  Vtopk(q)[i] = VidOf(q, i)
<1> DEFINE c == i \div Chunk
           g == CHOOSE h : IsRun(h, q, c, Chunk)
<1>1. /\ c \in Chunks /\ Chunk \in Nat \ {0} /\ c * Chunk \in Nat /\ i \in Nat
      /\ c * Chunk <= i /\ i < c * Chunk + Chunk
  <2>1. i \div Chunk \in Chunks
    BY ChunkFacts
  <2> QED
    BY <2>1, ChunkFacts
<1>2. Vtopk(q)[i] = g[Chunk].vid[i]
  BY AssignIs DEF Vtopk
<1> HIDE DEF c
<1>3. IsRun(g, q, c, Chunk)
  <2>1. \E h : IsRun(h, q, c, Chunk)
    BY <1>1, RunExists
  <2> QED
    BY <2>1
<1> HIDE DEF g
<1>4. /\ g[0] = ChunkStart(q, c)
      /\ \A n \in 1 .. Chunk : g[n] = ChunkTurn(q, c, g[n - 1], n)
  BY <1>1, <1>3 DEF IsRun
<1> DEFINE C == {n \in 0 .. Chunk : ~ TurnsRight(q, c, g[n], n)}
<1>5. C = {}
  <2> SUFFICES ASSUME C # {} PROVE FALSE
    OBVIOUS
  <2>1. PICK n \in C : \A k \in C : n <= k
    <3>1. C \in SUBSET Nat
      OBVIOUS
    <3> HIDE DEF C
    <3> QED
      BY <3>1, LeastElement
  <2>2. n \in 0 .. Chunk /\ ~ TurnsRight(q, c, g[n], n)
    OBVIOUS
  <2>3. n # 0
    BY <1>1, <1>4, <2>2, StartRight
  <2>4. n \in 1 .. Chunk /\ n - 1 \in 0 .. Chunk /\ n - 1 \notin C
    BY <1>1, <2>1, <2>2, <2>3
  <2>5. TurnsRight(q, c, g[n - 1], n - 1)
    BY <2>4
  <2>6. TurnsRight(q, c, ChunkTurn(q, c, g[n - 1], n), n)
    BY <1>1, <2>4, <2>5, TurnRight
  <2> QED
    BY <1>4, <2>2, <2>4, <2>6
<1>6. TurnsRight(q, c, g[Chunk], Chunk)
  BY <1>1, <1>5
<1>7. i \in c * Chunk .. c * Chunk + Chunk - 1
  BY <1>1
<1> QED
  BY <1>2, <1>6, <1>7 DEF TurnsRight

-----------------------------------------------------------------------------
\* The rank whose rows a token joins, and where that rank has its expert: at
\* its own place at home, behind the own experts elsewhere.
RankOf(q, i) ==
    LET e == topk[q][i]
    IN  IF IsFast(e) THEN HomeOf(e) ELSE OrdRank(e, SegmentAt(e, PlaceAt(q, e, i)))

IndexAt(r, e) == IF r = HomeOf(e) THEN e % Epn ELSE Epn + JRep(r, e)

\* Rank and index of a slot are found from its number.
LEMMA SlotNumbers ==
  ASSUME NEW r \in Ranks, NEW j \in Slots
  PROVE  /\ r * 2 * Epn + j \in 0 .. NumRanks * 2 * Epn - 1
         /\ (r * 2 * Epn + j) \div (2 * Epn) = r
         /\ (r * 2 * Epn + j) % (2 * Epn) = j
<1> DEFINE d == 2 * Epn
<1>1. d \in Nat \ {0} /\ r \in Nat /\ r < NumRanks /\ NumRanks \in Nat /\ j \in 0 .. d - 1 /\ j \in Nat
  BY EpnAssumption, NumRanksAssumption DEF Ranks, Slots
<1>2. r * 2 * Epn = d * r /\ NumRanks * 2 * Epn = d * NumRanks
  BY <1>1, EpnAssumption
<1> HIDE DEF d
<1>3. (d * r + j) \div d = r /\ (d * r + j) % d = j
  BY <1>1, DivIs
<1>4. d * r \in Nat /\ d * r + j < d * NumRanks /\ d * NumRanks \in Nat
  <2>1. NumRanks - r - 1 \in Nat
    BY <1>1
  <2>2. d * (NumRanks - r - 1) \in Nat /\ d * r \in Nat
    BY <1>1, <2>1
  <2>3. d * NumRanks = d * r + d + d * (NumRanks - r - 1)
    BY <1>1, <2>1
  <2> QED
    BY <1>1, <2>2, <2>3
<1>5. d * r + j \in 0 .. d * NumRanks - 1
  BY <1>1, <1>4
<1> QED
  BY <1>2, <1>3, <1>5 DEF d

\* The replicas of a rank are experts of one other rank; they are no more than
\* it has, and each has a number of its own.
LEMMA ReplicaFacts ==
  ASSUME PlanInv, NEW r \in Ranks
  PROVE  /\ ReplicasOn(r) \subseteq Experts /\ IsFiniteSet(ReplicasOn(r))
         /\ \A e \in Experts : e \in ReplicasOn(r) <=> order[e][r] >= FirstReplica
         /\ \A e \in ReplicasOn(r) : JRep(r, e) \in 0 .. Epn - 1
         /\ \A e, f \in ReplicasOn(r) : JRep(r, e) = JRep(r, f) => e = f
<1> DEFINE P == ReplicasOn(r)
           Below(e) == {f \in P : f < e}
<1>1. P \subseteq Experts /\ \A e \in Experts : e \in P <=> order[e][r] >= FirstReplica
  <2>1. P \subseteq Experts
    BY DEF ReplicasOn, ExpertsOf
  <2>2. ASSUME NEW e \in Experts, order[e][r] >= FirstReplica PROVE e \in P
    <3>1. HomeOf(e) = rhome[r] /\ HomeOf(e) \in Ranks
      BY <2>2, IndexFacts DEF PlanInv, GreedyInv, OneSourcePerReceiver
    <3>2. ~ (rhome[r] < 0)
      BY <3>1, NumRanksAssumption DEF Ranks
    <3>3. e \in ExpertsOf(rhome[r])
      BY <3>1 DEF ExpertsOf
    <3> QED
      BY <2>2, <3>2, <3>3 DEF ReplicasOn
  <2>3. \A e \in P : order[e][r] >= FirstReplica
    BY DEF ReplicasOn
  <2> QED
    BY <2>1, <2>2, <2>3
<1>2. IsFiniteSet(P) /\ Cardinality(P) \in Nat /\ Cardinality(P) <= Epn
  <2>1. CASE rhome[r] < 0
    <3>1. P = {}
      BY <2>1 DEF ReplicasOn
    <3> QED
      BY <3>1, FS_EmptySet, EpnAssumption
  <2>2. CASE ~ (rhome[r] < 0)
    <3>1. rhome[r] \in Ranks
      <4>1. rhome[r] \in Ranks \cup {-1}
        BY DEF PlanInv, GreedyInv, TypeOK
      <4> QED
        BY <2>2, <4>1
    <3>2. IsFiniteSet(ExpertsOf(rhome[r])) /\ Cardinality(ExpertsOf(rhome[r])) <= Epn
      BY <3>1, ExpertsOfCard
    <3>3. P \subseteq ExpertsOf(rhome[r])
      BY <2>2 DEF ReplicasOn
    <3>4. IsFiniteSet(P) /\ Cardinality(P) <= Cardinality(ExpertsOf(rhome[r]))
      BY <3>2, <3>3, FS_Subset
    <3>5. Cardinality(P) \in Nat /\ Cardinality(ExpertsOf(rhome[r])) \in Nat
      BY <3>2, <3>4, FS_CardinalityType
    <3> QED
      BY <3>2, <3>4, <3>5, EpnAssumption
  <2> QED
    BY <2>1, <2>2
<1>3. \A e : JRep(r, e) = Cardinality(Below(e))
  BY DEF JRep
<1> HIDE DEF P
<1>4. ASSUME NEW e \in P
      PROVE  IsFiniteSet(Below(e)) /\ Cardinality(Below(e)) \in Nat
             /\ Cardinality(Below(e)) + 1 <= Cardinality(P)
  <2>1. e \in Nat
    BY <1>1, NumRanksAssumption, EpnAssumption DEF Experts
  <2>2. Below(e) \in SUBSET (P \ {e})
    BY <2>1
  <2>3. IsFiniteSet(P \ {e}) /\ Cardinality(P \ {e}) = Cardinality(P) - 1
    BY <1>2, FS_RemoveElement
  <2> HIDE DEF Below
  <2>4. IsFiniteSet(Below(e)) /\ Cardinality(Below(e)) <= Cardinality(P \ {e})
    BY <2>2, <2>3, FS_Subset
  <2>5. Cardinality(Below(e)) \in Nat
    BY <2>4, FS_CardinalityType
  <2> QED
    BY <1>2, <2>3, <2>4, <2>5
<1>5. \A e \in P : JRep(r, e) \in 0 .. Epn - 1
  <2> SUFFICES ASSUME NEW e \in P PROVE JRep(r, e) \in 0 .. Epn - 1
    OBVIOUS
  <2>1. JRep(r, e) \in Nat /\ JRep(r, e) + 1 <= Cardinality(P)
    BY <1>3, <1>4
  <2> QED
    BY <1>2, <2>1, EpnAssumption
<1>6. ASSUME NEW e \in P, NEW f \in P, e < f PROVE JRep(r, e) < JRep(r, f)
  <2>1. e \in Nat /\ f \in Nat
    BY <1>1, NumRanksAssumption, EpnAssumption DEF Experts
  <2>2. Below(e) \in SUBSET (Below(f) \ {e}) /\ e \in Below(f)
    <3>0. \A g \in P : g \in Nat
      BY <1>1, NumRanksAssumption, EpnAssumption DEF Experts
    <3>1. e \in Below(f)
      BY <1>6
    <3>2. ASSUME NEW g \in Below(e) PROVE g \in Below(f) /\ g # e
      <4>1. g \in P /\ g < e /\ g \in Nat
        BY <3>0
      <4>2. g < f /\ g # e
        BY <1>6, <2>1, <4>1
      <4> QED
        BY <4>1, <4>2
    <3> HIDE DEF Below
    <3> QED
      BY <3>1, <3>2
  <2>3. IsFiniteSet(Below(f)) /\ Cardinality(Below(f)) \in Nat /\ Cardinality(Below(e)) \in Nat
    BY <1>4
  <2> HIDE DEF Below
  <2>4. IsFiniteSet(Below(f) \ {e}) /\ Cardinality(Below(f) \ {e}) = Cardinality(Below(f)) - 1
    BY <2>2, <2>3, FS_RemoveElement
  <2>5. Cardinality(Below(e)) <= Cardinality(Below(f) \ {e})
    BY <2>2, <2>4, FS_Subset
  <2> QED
    BY <1>3, <2>3, <2>4, <2>5
<1>7. ASSUME NEW e \in P, NEW f \in P, JRep(r, e) = JRep(r, f), e # f PROVE FALSE
  <2>1. e \in Nat /\ f \in Nat
    BY <1>1, NumRanksAssumption, EpnAssumption DEF Experts
  <2>2. e < f \/ f < e
    BY <1>7, <2>1
  <2>3. JRep(r, e) \in Nat /\ JRep(r, f) \in Nat
    BY <1>3, <1>4
  <2> QED
    BY <1>6, <1>7, <2>2, <2>3
<1> QED
  BY <1>1, <1>2, <1>5, <1>7 DEF P

\* Whoever serves an expert has its weights where IndexAt says.
LEMMA IndexAtFacts ==
  ASSUME PlanInv, NEW e \in Experts, NEW r \in Serving(e)
  PROVE  /\ r \in Ranks /\ IndexAt(r, e) \in Slots
         /\ ExpertInSlot(r, IndexAt(r, e)) = e
<1>0. r \in Ranks /\ order[e][r] \in Nat \ {0} /\ r \in Nat
  <2>1. r \in Ranks /\ order[e][r] # 0
    BY DEF Serving, Unserved
  <2>2. order[e][r] \in Nat
    BY <2>1, SegmentFacts
  <2> QED
    BY <2>1, <2>2, NumRanksAssumption DEF Ranks
<1>e. Epn \in Nat \ {0}
  BY EpnAssumption
<1>1. CASE r = HomeOf(e)
  <2>1. e \in Nat
    BY NumRanksAssumption, EpnAssumption DEF Experts
  <2>2. e % Epn \in 0 .. Epn - 1 /\ e = Epn * r + (e % Epn)
    BY <1>1, <1>e, <2>1, DivMod DEF HomeOf
  <2>3. IndexAt(r, e) = e % Epn
    BY <1>1 DEF IndexAt
  <2>4. Epn * r = r * Epn
    BY <1>0, <1>e
  <2>5. r * Epn + (e % Epn) = e
    BY <2>2, <2>4
  <2>6. e % Epn \in Slots /\ e % Epn < Epn
    BY <1>e, <2>2 DEF Slots
  <2> QED
    BY <1>0, <2>3, <2>5, <2>6 DEF ExpertInSlot
<1>2. CASE r # HomeOf(e)
  <2>1. order[e][r] >= FirstReplica
    <3>1. order[e][r] # Home
      BY <1>0, <1>2, SegmentFacts
    <3> QED
      BY <1>0, <3>1 DEF Home, FirstReplica
  <2>2. e \in ReplicasOn(r)
    BY <1>0, <2>1, ReplicaFacts
  <2> DEFINE j == JRep(r, e)
  <2>3. j \in 0 .. Epn - 1
    BY <1>0, <2>2, ReplicaFacts
  <2>4. ExpertsToCopy(r, j) = e
    <3>1. \A f \in ReplicasOn(r) : JRep(r, f) = j => f = e
      BY <1>0, <2>2, ReplicaFacts
    <3>2. \E f \in ReplicasOn(r) : JRep(r, f) = j
      BY <2>2
    <3> HIDE DEF j
    <3>3. ExpertsToCopy(r, j) = CHOOSE f \in ReplicasOn(r) : JRep(r, f) = j
      BY <3>2 DEF ExpertsToCopy
    <3> QED
      BY <3>1, <3>2, <3>3
  <2>5. IndexAt(r, e) = Epn + j
    BY <1>2 DEF IndexAt
  <2> HIDE DEF j
  <2>6. /\ Epn + j \in Slots /\ ~ (Epn + j < Epn) /\ (Epn + j) - Epn = j
    BY <1>e, <2>3 DEF Slots
  <2>7. ExpertInSlot(r, Epn + j) = e
    BY <2>4, <2>6 DEF ExpertInSlot
  <2> QED
    BY <1>0, <2>5, <2>6, <2>7
<1> QED
  BY <1>1, <1>2

\* A token goes to the place of its expert on a rank that serves it.
LEMMA VidIs ==
  ASSUME PlanInv, NEW q \in Ranks, NEW i \in Tokens
  PROVE  LET e == topk[q][i]
         IN  /\ e \in Experts /\ RankOf(q, i) \in Serving(e)
             /\ Vtopk(q)[i] = RankOf(q, i) * 2 * Epn + IndexAt(RankOf(q, i), e)
<1> DEFINE e == topk[q][i]
           r == RankOf(q, i)
           pos == PlaceAt(q, e, i)
           o == SegmentAt(e, pos)
<1>1. e \in Experts
  BY DEF PlanInv
<1>2. Vtopk(q)[i] = IF IsFast(e) THEN HomeSlot(HomeOf(e), e) ELSE SlotOfSegment(e, o)
  BY VtopkIs DEF VidOf
<1>3. r = IF IsFast(e) THEN HomeOf(e) ELSE OrdRank(e, o)
  BY DEF RankOf
<1>a. pos \in Nat /\ pos < OrdEnd(e, NumRanks - 1)
  BY <1>1, PlaceBelow
<1> HIDE DEF e, r, pos
<1>b. InSegment(e, pos, o) /\ SegRows(e, o) # 0
  BY <1>1, <1>a, SegmentAtIs
<1> HIDE DEF o
<1>4. CASE IsFast(e)
  <2>1. HomeOf(e) \in Ranks /\ r = HomeOf(e)
    BY <1>1, <1>3, <1>4, IndexFacts
  <2>2. order[e][HomeOf(e)] = Home
    BY <1>1, <2>1, SegmentFacts
  <2>3. r \in Serving(e)
    BY <2>1, <2>2 DEF Serving, Home, Unserved
  <2>4. Vtopk(q)[i] = r * 2 * Epn + IndexAt(r, e)
    BY <1>2, <1>4, <2>1 DEF HomeSlot, IndexAt
  <2> QED
    BY <1>1, <2>3, <2>4 DEF e, r
<1>5. CASE ~ IsFast(e)
  <2>1. o \in Nat
    BY <1>b, NumRanksAssumption DEF InSegment
  <2>2. r \in Segments(e) /\ order[e][r] = o + 1
    BY <1>1, <1>3, <1>5, <1>b, <2>1, SegRowsFacts
  <2>3. r \in Serving(e) /\ r \in Ranks
    BY <1>1, <2>2, SegmentFacts
  <2>4. r = HomeOf(e) <=> o = 0
    <3>1. order[e][r] = Home <=> r = HomeOf(e)
      BY <1>1, <2>3, SegmentFacts
    <3> QED
      BY <2>1, <2>2, <3>1 DEF Home
  <2>5. Vtopk(q)[i] = IF o = 0 THEN HomeSlot(r, e) ELSE ReplicaSlot(r, e)
    BY <1>2, <1>3, <1>5 DEF SlotOfSegment
  <2>6. ASSUME o # 0 PROVE ReplicaSlot(r, e) = r * 2 * Epn + (Epn + JRep(r, e))
    <3>1. order[e][r] >= FirstReplica
      BY <2>1, <2>2, <2>6 DEF FirstReplica
    <3>2. JRep(r, e) \in 0 .. Epn - 1
      BY <1>1, <2>3, <3>1, ReplicaFacts
    <3>3. JRep(r, e) \in Int /\ Epn \in Int /\ r * 2 * Epn \in Int
      BY <2>3, <3>2, EpnAssumption, NumRanksAssumption DEF Ranks
    <3> QED
      BY <3>3 DEF ReplicaSlot
  <2>7. Vtopk(q)[i] = r * 2 * Epn + IndexAt(r, e)
    BY <2>4, <2>5, <2>6 DEF HomeSlot, IndexAt
  <2> QED
    BY <1>1, <2>3, <2>7 DEF e, r
<1> QED
  BY <1>4, <1>5

\* The slot vtopk gives a token exists and holds the weights of its expert.
LEMMA PlanTokensReach == PlanInv => TokensReachTheirExpert
<1> SUFFICES ASSUME PlanInv, NEW q \in Ranks, NEW i \in Tokens
             PROVE  /\ Vtopk(q)[i] \in 0 .. NumRanks * 2 * Epn - 1
                    /\ ExpertInSlot(Vtopk(q)[i] \div (2 * Epn), Vtopk(q)[i] % (2 * Epn)) = topk[q][i]
  BY DEF TokensReachTheirExpert, Sent
<1> DEFINE e == topk[q][i]
           r == RankOf(q, i)
           j == IndexAt(r, e)
<1>1. e \in Experts /\ r \in Serving(e) /\ Vtopk(q)[i] = r * 2 * Epn + j
  BY VidIs
<1> HIDE DEF e, r
<1>2. r \in Ranks /\ j \in Slots /\ ExpertInSlot(r, j) = e
  BY <1>1, IndexAtFacts
<1> HIDE DEF j
<1>3. /\ r * 2 * Epn + j \in 0 .. NumRanks * 2 * Epn - 1
      /\ (r * 2 * Epn + j) \div (2 * Epn) = r
      /\ (r * 2 * Epn + j) % (2 * Epn) = j
  BY <1>2, SlotNumbers
<1> QED
  BY <1>1, <1>2, <1>3 DEF e

(* Every token is sent to a slot that holds the weights of its expert, for  *)
(* any routing: the ranks cut the rows of an expert alike, and the cursor   *)
(* of _assign_chunk never outlives its segment.                             *)
THEOREM PlanReaches == PlanSpec => []TokensReachTheirExpert
BY PlanInvariant, PlanTokensReach, PTL

-----------------------------------------------------------------------------
\* Sets whose elements correspond to one another have the same size.
LEMMA SameSize ==
  ASSUME NEW S, IsFiniteSet(S), NEW T, NEW f \in [S -> T],
         \A a, b \in S : f[a] = f[b] => a = b,
         \A t \in T : \E s \in S : f[s] = t
  PROVE  IsFiniteSet(T) /\ Cardinality(T) = Cardinality(S)
<1>1. f \in Bijection(S, T)
  BY DEF Bijection, Injection, Surjection, IsInjective
<1>2. ExistsBijection(S, T)
  BY <1>1 DEF ExistsBijection
<1> QED
  BY <1>2, FS_Bijection

\* What a rank sends are the slots of its tokens, once each.
LEMMA SentFacts ==
  /\ \A s \in Sent : /\ s.rank \in Ranks /\ s.token \in Tokens
                     /\ s.vid = Vtopk(s.rank)[s.token]
  /\ \A s, t \in Sent : s.rank = t.rank /\ s.token = t.token => s = t
  /\ \A q \in Ranks, i \in Tokens : \E s \in Sent : s.rank = q /\ s.token = i
  /\ IsFiniteSet(Sent)
<1>1. \A s \in Sent : /\ s.rank \in Ranks /\ s.token \in Tokens
                      /\ s.vid = Vtopk(s.rank)[s.token]
  BY DEF Sent
<1>2. \A s, t \in Sent : s.rank = t.rank /\ s.token = t.token => s = t
  BY DEF Sent
<1>3. \A q \in Ranks, i \in Tokens : \E s \in Sent : s.rank = q /\ s.token = i
  <2> SUFFICES ASSUME NEW q \in Ranks, NEW i \in Tokens
               PROVE  \E s \in Sent : s.rank = q /\ s.token = i
    OBVIOUS
  <2> DEFINE s == [rank |-> q, token |-> i, vid |-> Vtopk(q)[i]]
  <2>1. s \in Sent
    BY DEF Sent
  <2>2. s.rank = q /\ s.token = i
    OBVIOUS
  <2> HIDE DEF s
  <2> QED
    BY <2>1, <2>2
<1>4. IsFiniteSet(Sent)
  <2> DEFINE f == [s \in Sent |-> <<s.rank, s.token>>]
             P == Ranks \X Tokens
  <2>1. IsFiniteSet(P)
    <3>1. IsFiniteSet(Tokens)
      BY NumRowsAssumption, FS_Interval DEF Tokens
    <3> QED
      BY <3>1, IndexFacts, FS_Product
  <2>2. f \in [Sent -> P] /\ \A s, t \in Sent : f[s] = f[t] => s = t
    BY <1>1, <1>2
  <2> HIDE DEF f, P
  <2>3. f \in Injection(Sent, P)
    BY <2>2 DEF Injection, IsInjective
  <2> QED
    BY <2>1, <2>3, FS_Injection
<1> QED
  BY <1>1, <1>2, <1>3, <1>4

\* The tokens sent for expert e.
SentFor(e) == {s \in Sent : topk[s.rank][s.token] = e}

\* They are as many as there are rows of the expert.
LEMMA SentForCard ==
  ASSUME PlanInv, NEW e \in Experts
  PROVE  IsFiniteSet(SentFor(e)) /\ Cardinality(SentFor(e)) = OrdEnd(e, NumRanks - 1)
<1> DEFINE X == SentFor(e)
           h == [s \in X |-> s.rank]
           parts == [q \in Ranks |-> Cardinality({s \in X : h[s] = q})]
           d == [q \in Ranks |-> Demand(q, e)]
<1>1. IsFiniteSet(X) /\ IsFiniteSet(Ranks)
  BY SentFacts, IndexFacts, FS_Subset DEF SentFor
<1>2. \A s \in X : h[s] = s.rank /\ h[s] \in Ranks /\ s \in Sent /\ topk[s.rank][s.token] = e
  BY SentFacts DEF SentFor
<1>3. ASSUME NEW q \in Ranks PROVE parts[q] = d[q]
  <2> DEFINE S == {i \in Tokens : topk[q][i] = e}
             T == {s \in X : h[s] = q}
             f == [i \in S |-> CHOOSE s \in Sent : s.rank = q /\ s.token = i]
  <2>1. \A i \in S : f[i] \in Sent /\ f[i].rank = q /\ f[i].token = i
    <3>1. \A i \in S : \E s \in Sent : s.rank = q /\ s.token = i
      BY SentFacts
    <3> QED
      BY <3>1
  <2>2. \A i \in S : topk[q][i] = e
    OBVIOUS
  <2>3. \A s \in X : s \in T <=> s.rank = q
    BY <1>2
  <2>4. \A s \in Sent : s \in X <=> topk[s.rank][s.token] = e
    BY DEF SentFor
  <2>5. T \in SUBSET X /\ DOMAIN f = S /\ f = [i \in S |-> f[i]]
    OBVIOUS
  <2>6. \A i \in Tokens : topk[q][i] = e => i \in S
    OBVIOUS
  <2>7. IsFiniteSet(S) /\ d[q] = Cardinality(S) /\ parts[q] = Cardinality(T)
    BY DemandNat DEF Demand
  <2> HIDE DEF S, T, f, X, h, parts, d
  <2>8. \A i \in S : f[i] \in T
    BY <2>1, <2>2, <2>3, <2>4
  <2>9. f \in [S -> T]
    BY <2>5, <2>8
  <2>10. \A i, k \in S : f[i] = f[k] => i = k
    BY <2>1
  <2>11. \A s \in T : \E i \in S : f[i] = s
    <3> SUFFICES ASSUME NEW s \in T PROVE \E i \in S : f[i] = s
      OBVIOUS
    <3>1. s \in X /\ s.rank = q
      BY <2>3, <2>5
    <3>2. s \in Sent /\ s.token \in Tokens /\ topk[q][s.token] = e
      BY <1>2, <3>1, SentFacts
    <3>3. s.token \in S
      BY <2>6, <3>2
    <3>4. f[s.token] = s
      BY <2>1, <3>1, <3>2, <3>3, SentFacts
    <3> QED
      BY <3>3, <3>4
  <2>12. Cardinality(T) = Cardinality(S)
    BY <2>7, <2>9, <2>10, <2>11, SameSize
  <2> QED
    BY <2>7, <2>12
<1>4. SumFunctionOnSet(parts, Ranks) = Cardinality(X)
  <2>1. \A s \in X : h[s] \in Ranks
    BY <1>2
  <2> HIDE DEF X, h
  <2> QED
    BY <1>1, <2>1, CountParts
<1>5. SumFunctionOnSet(parts, Ranks) = SumFunctionOnSet(d, Ranks)
  <2> HIDE DEF parts, d
  <2> QED
    BY <1>1, <1>3, SumSame
<1>6. OrdEnd(e, NumRanks - 1) = SumFunctionOnSet(d, Ranks)
  BY OrdEndTotal DEF PlanInv, DemandServed
<1> HIDE DEF X, parts, d
<1> QED
  BY <1>1, <1>4, <1>5, <1>6 DEF X

-----------------------------------------------------------------------------
\* The order in which the ranks' tokens are laid along the segments is one.
LEMMA BeforeOrders ==
  ASSUME PlanInv, NEW e \in Experts
  PROVE  /\ \A r, q \in Ranks : r # q => Before(r, q, e) \/ Before(q, r, e)
         /\ \A r, q \in Ranks : Before(r, q, e) => ~ Before(q, r, e)
         /\ \A r, q, p \in Ranks : Before(r, q, e) /\ Before(q, p, e) => Before(r, p, e)
<1>1. /\ \A r \in Ranks : order[e][r] \in Nat /\ r \in Nat
      /\ \A r, q \in Ranks : order[e][r] # Unserved /\ order[e][r] = order[e][q] => r = q
  <2>1. \A r \in Ranks : order[e][r] \in Nat /\ r \in Nat
    BY SegmentFacts, NumRanksAssumption DEF Ranks
  <2>2. \A r \in Ranks : order[e][r] # Unserved => r \in Serving(e)
    BY DEF Serving
  <2> QED
    BY <2>1, <2>2, SegmentFacts
<1>2. \A r, q \in Ranks : r # q => Before(r, q, e) \/ Before(q, r, e)
  <2> SUFFICES ASSUME NEW r \in Ranks, NEW q \in Ranks, r # q
               PROVE  Before(r, q, e) \/ Before(q, r, e)
    OBVIOUS
  <2>1. /\ order[e][r] \in Nat /\ order[e][q] \in Nat /\ r \in Nat /\ q \in Nat
        /\ order[e][r] # Unserved => order[e][r] # order[e][q]
    BY <1>1
  <2> QED
    BY <2>1 DEF Before
<1>3. \A r, q \in Ranks : Before(r, q, e) => ~ Before(q, r, e)
  <2> SUFFICES ASSUME NEW r \in Ranks, NEW q \in Ranks, Before(r, q, e), Before(q, r, e)
               PROVE  FALSE
    OBVIOUS
  <2>1. order[e][r] \in Nat /\ order[e][q] \in Nat /\ r \in Nat /\ q \in Nat
    BY <1>1
  <2> QED
    BY <2>1 DEF Before
<1>4. \A r, q, p \in Ranks : Before(r, q, e) /\ Before(q, p, e) => Before(r, p, e)
  <2> SUFFICES ASSUME NEW r \in Ranks, NEW q \in Ranks, NEW p \in Ranks,
                      Before(r, q, e), Before(q, p, e)
               PROVE  Before(r, p, e)
    OBVIOUS
  <2>1. /\ order[e][r] \in Nat /\ order[e][q] \in Nat /\ order[e][p] \in Nat
        /\ r \in Nat /\ q \in Nat /\ p \in Nat
    BY <1>1
  <2> QED
    BY <2>1 DEF Before
<1> QED
  BY <1>2, <1>3, <1>4

\* The tokens of a rank have places before those of the next one.
LEMMA BaseStep ==
  ASSUME PlanInv, NEW e \in Experts, NEW r \in Ranks, NEW q \in Ranks, Before(r, q, e)
  PROVE  PcntBase(r, e) + Demand(r, e) <= PcntBase(q, e)
<1> DEFINE d == [p \in Ranks |-> Demand(p, e)]
           S == {p \in Ranks : p # r /\ Before(p, r, e)}
           T == {p \in Ranks : p # q /\ Before(p, q, e)}
           U == S \cup {r}
<1>1. \A p \in Ranks : d[p] = Demand(p, e) /\ d[p] \in Nat /\ d[p] \in Int
  <2>1. \A p : Demand(p, e) \in Nat
    BY DemandNat
  <2> QED
    BY <2>1
<1>2. U \in SUBSET T
  <2>1. r # q /\ r \in T
    BY BeforeOrders
  <2>2. ASSUME NEW p \in S PROVE p \in T
    <3>1. p \in Ranks /\ Before(p, r, e)
      OBVIOUS
    <3>2. Before(p, q, e)
      BY <3>1, BeforeOrders
    <3>3. p # q
      BY <3>1, BeforeOrders
    <3> QED
      BY <3>1, <3>2, <3>3
  <2> QED
    BY <2>1, <2>2
<1>3. /\ IsFiniteSet(Ranks) /\ S \in SUBSET Ranks /\ T \in SUBSET Ranks /\ U \in SUBSET Ranks
      /\ r \in U /\ U \ {r} = S
  BY IndexFacts
<1>4. PcntBase(r, e) = SumFunctionOnSet(d, S) /\ PcntBase(q, e) = SumFunctionOnSet(d, T)
  BY DEF PcntBase
<1> HIDE DEF d, S, T, U
<1>5. IsFiniteSet(S) /\ IsFiniteSet(T) /\ IsFiniteSet(U)
  BY <1>3, FS_Subset
<1>6. SumFunctionOnSet(d, U) = d[r] + SumFunctionOnSet(d, S)
  <2>1. \A p \in U : d[p] \in Int
    BY <1>1, <1>3
  <2> QED
    BY <1>3, <1>5, <2>1, SumRemove
<1>7. SumFunctionOnSet(d, U) <= SumFunctionOnSet(d, T)
  <2>1. \A p \in T : d[p] \in Nat
    BY <1>1, <1>3
  <2> QED
    BY <1>2, <1>5, <2>1, SumSubset
<1>8. SumFunctionOnSet(d, S) \in Nat /\ SumFunctionOnSet(d, T) \in Nat
  BY <1>4, PlaceBelow
<1> QED
  BY <1>1, <1>4, <1>6, <1>7, <1>8

\* No two tokens of an expert have the same place.
LEMMA PlacesApart ==
  ASSUME PlanInv, NEW e \in Experts,
         NEW q \in Ranks, NEW i \in Tokens, topk[q][i] = e,
         NEW r \in Ranks, NEW k \in Tokens, topk[r][k] = e,
         PlaceAt(q, e, i) = PlaceAt(r, e, k)
  PROVE  q = r /\ i = k
<1>0. \A j \in Tokens : j \in Nat
  BY NumRowsAssumption DEF Tokens
<1>1. ASSUME NEW p \in Ranks, NEW a \in Tokens, NEW b \in Tokens, topk[p][a] = e, a < b
      PROVE  PlaceAt(p, e, a) # PlaceAt(p, e, b)
  <2>1. Earlier(p, e, a + 1) \in SUBSET Earlier(p, e, b)
    BY <1>0, <1>1 DEF Earlier
  <2>2. Cardinality(Earlier(p, e, a + 1)) <= Cardinality(Earlier(p, e, b))
    BY <2>1, EarlierFacts, FS_Subset
  <2>3. /\ Cardinality(Earlier(p, e, a + 1)) = Cardinality(Earlier(p, e, a)) + 1
        /\ Cardinality(Earlier(p, e, a)) \in Nat
    BY <1>1, EarlierFacts
  <2>4. Cardinality(Earlier(p, e, b)) \in Nat
    BY EarlierFacts
  <2>5. PcntBase(p, e) \in Nat
    BY PlaceBelow
  <2> QED
    BY <2>2, <2>3, <2>4, <2>5 DEF PlaceAt
<1>2. ASSUME NEW p \in Ranks, NEW a \in Tokens, topk[p][a] = e,
             NEW s \in Ranks, NEW b \in Tokens, Before(p, s, e)
      PROVE  PlaceAt(p, e, a) # PlaceAt(s, e, b)
  <2>1. PcntBase(p, e) + Demand(p, e) <= PcntBase(s, e)
    BY <1>2, BaseStep
  <2>2. /\ Cardinality(Earlier(p, e, a + 1)) = Cardinality(Earlier(p, e, a)) + 1
        /\ Cardinality(Earlier(p, e, a)) \in Nat
        /\ Cardinality(Earlier(p, e, a + 1)) <= Demand(p, e)
    BY <1>2, EarlierFacts
  <2>3. Cardinality(Earlier(s, e, b)) \in Nat /\ Demand(p, e) \in Nat
    BY EarlierFacts, DemandNat
  <2>4. PcntBase(p, e) \in Nat /\ PcntBase(s, e) \in Nat
    BY PlaceBelow
  <2> QED
    BY <2>1, <2>2, <2>3, <2>4 DEF PlaceAt
<1>3. q = r
  <2> SUFFICES ASSUME q # r PROVE FALSE
    OBVIOUS
  <2>1. Before(q, r, e) \/ Before(r, q, e)
    BY BeforeOrders
  <2>2. CASE Before(q, r, e)
    BY <1>2, <2>2
  <2>3. CASE Before(r, q, e)
    <3>1. PlaceAt(r, e, k) # PlaceAt(q, e, i)
      BY <1>2, <2>3
    <3> QED
      BY <3>1
  <2> QED
    BY <2>1, <2>2, <2>3
<1>4. i = k
  <2> SUFFICES ASSUME i # k PROVE FALSE
    OBVIOUS
  <2>1. i < k \/ k < i
    BY <1>0
  <2>2. CASE i < k
    BY <1>1, <1>3, <2>2
  <2>3. CASE k < i
    <3>1. PlaceAt(r, e, k) # PlaceAt(r, e, i)
      BY <1>1, <1>3, <2>3
    <3> QED
      BY <1>3, <3>1
  <2> QED
    BY <2>1, <2>2, <2>3
<1> QED
  BY <1>3, <1>4

\* The tokens of an expert have the places 0 .. n - 1, each once.
LEMMA PlacesFill ==
  ASSUME PlanInv, NEW e \in Experts
  PROVE  LET n == OrdEnd(e, NumRanks - 1)
             place == [s \in SentFor(e) |-> PlaceAt(s.rank, e, s.token)]
         IN  /\ place \in [SentFor(e) -> 0 .. n - 1]
             /\ \A s, t \in SentFor(e) : place[s] = place[t] => s = t
             /\ \A p \in 0 .. n - 1 : \E s \in SentFor(e) : place[s] = p
<1> DEFINE n == OrdEnd(e, NumRanks - 1)
           X == SentFor(e)
           place == [s \in X |-> PlaceAt(s.rank, e, s.token)]
<1>1. \A s \in X : /\ s \in Sent /\ s.rank \in Ranks /\ s.token \in Tokens
                   /\ topk[s.rank][s.token] = e
  BY SentFacts DEF SentFor
<1>2. IsFiniteSet(X) /\ Cardinality(X) = n
  BY SentForCard
<1>3. n \in Nat
  BY <1>2, FS_CardinalityType
<1>4. \A s \in X : place[s] = PlaceAt(s.rank, e, s.token)
  OBVIOUS
<1>5. \A s \in X : place[s] \in 0 .. n - 1
  <2> SUFFICES ASSUME NEW s \in X PROVE place[s] \in 0 .. n - 1
    OBVIOUS
  <2>1. place[s] \in Nat /\ place[s] < n
    BY <1>1, <1>4, PlaceBelow
  <2> HIDE DEF place, n
  <2> QED
    BY <1>3, <2>1
<1>6. \A s, t \in X : place[s] = place[t] => s = t
  <2> SUFFICES ASSUME NEW s \in X, NEW t \in X, place[s] = place[t] PROVE s = t
    OBVIOUS
  <2>1. PlaceAt(s.rank, e, s.token) = PlaceAt(t.rank, e, t.token)
    BY <1>4
  <2>2. s.rank = t.rank /\ s.token = t.token
    BY <1>1, <2>1, PlacesApart
  <2> QED
    BY <1>1, <2>2, SentFacts
<1>7. place = [s \in X |-> place[s]]
  OBVIOUS
<1> HIDE DEF place, n, X
<1>8. place \in [X -> 0 .. n - 1]
  BY <1>5, <1>7
<1>9. place \in Injection(X, 0 .. n - 1)
  BY <1>6, <1>8 DEF Injection, IsInjective
<1>10. IsFiniteSet(0 .. n - 1) /\ Cardinality(0 .. n - 1) = n
  BY <1>3, FS_Interval
<1>11. place \in Surjection(X, 0 .. n - 1)
  BY <1>2, <1>9, <1>10, FS_Injection
<1>12. \A p \in 0 .. n - 1 : \E s \in X : place[s] = p
  BY <1>11 DEF Surjection
<1> QED
  BY <1>6, <1>8, <1>12 DEF place, n, X

\* As many of them as there are numbers have their places in an interval.
LEMMA PlacesBetween ==
  ASSUME PlanInv, NEW e \in Experts, NEW a \in Nat, NEW b \in Nat, a <= b,
         b <= OrdEnd(e, NumRanks - 1)
  PROVE  Cardinality({s \in SentFor(e) : a <= PlaceAt(s.rank, e, s.token)
                                         /\ PlaceAt(s.rank, e, s.token) < b}) = b - a
<1> DEFINE n == OrdEnd(e, NumRanks - 1)
           X == SentFor(e)
           place == [s \in X |-> PlaceAt(s.rank, e, s.token)]
           Y == {s \in X : a <= PlaceAt(s.rank, e, s.token) /\ PlaceAt(s.rank, e, s.token) < b}
           f == [s \in Y |-> place[s]]
           I == a .. b - 1
<1>1. /\ place \in [X -> 0 .. n - 1]
      /\ \A s, t \in X : place[s] = place[t] => s = t
      /\ \A p \in 0 .. n - 1 : \E s \in X : place[s] = p
  BY PlacesFill
<1>2. n \in Nat
  <2>1. NumRanks - 1 \in Nat
    BY NumRanksAssumption
  <2> QED
    BY <2>1, OrdEndStep
<1>3. \A s \in X : s \in Y <=> a <= place[s] /\ place[s] < b
  OBVIOUS
<1>4. Y \in SUBSET X /\ IsFiniteSet(X)
  BY SentForCard
<1>5. b <= n
  OBVIOUS
<1>6. IsFiniteSet(Y)
  <2> HIDE DEF X, Y
  <2> QED
    BY <1>4, FS_Subset
<1>7. DOMAIN f = Y /\ \A s \in Y : f[s] = place[s]
  OBVIOUS
<1>8. f = [s \in Y |-> f[s]]
  OBVIOUS
<1> HIDE DEF n, X, place, Y, f
<1>9. \A s \in X : place[s] \in Nat
  BY <1>1, <1>2
<1>10. \A s \in Y : f[s] \in I
  <2> SUFFICES ASSUME NEW s \in Y PROVE f[s] \in I
    OBVIOUS
  <2>1. s \in X /\ place[s] \in Nat /\ a <= place[s] /\ place[s] < b
    BY <1>3, <1>4, <1>9
  <2> QED
    BY <1>7, <2>1
<1>11. f \in [Y -> I]
  <2> HIDE DEF I
  <2> QED
    BY <1>8, <1>10
<1>12. \A s, t \in Y : f[s] = f[t] => s = t
  BY <1>1, <1>4, <1>7
<1>13. \A p \in I : \E s \in Y : f[s] = p
  <2> SUFFICES ASSUME NEW p \in I PROVE \E s \in Y : f[s] = p
    OBVIOUS
  <2>1. p \in 0 .. n - 1 /\ a <= p /\ p < b
    BY <1>2, <1>5
  <2>2. PICK s \in X : place[s] = p
    BY <1>1, <2>1
  <2>3. s \in Y
    BY <1>3, <2>1, <2>2
  <2> QED
    BY <1>7, <2>2, <2>3
<1>14. Cardinality(I) = Cardinality(Y)
  <2> HIDE DEF I
  <2> QED
    BY <1>6, <1>11, <1>12, <1>13, SameSize
<1>15. Cardinality(I) = b - a
  <2>1. a \in Int /\ b - 1 \in Int
    OBVIOUS
  <2>2. Cardinality(a .. b - 1) = IF a > b - 1 THEN 0 ELSE (b - 1) - a + 1
    BY <2>1, FS_Interval
  <2> QED
    BY <2>2
<1>16. Cardinality(Y) = b - a
  BY <1>14, <1>15
<1> QED
  BY <1>16 DEF Y, X

\* A rank gets as many tokens of an expert as it has rows of it: the segment
\* of a rank is as long as its rows.
LEMMA RankGetsRows ==
  ASSUME PlanInv, NEW e \in Experts, NEW r \in Serving(e)
  PROVE  Cardinality({s \in SentFor(e) : RankOf(s.rank, s.token) = r}) = rem[e][r]
<1> DEFINE o == order[e][r] - 1
           Y == {s \in SentFor(e) : RankOf(s.rank, s.token) = r}
<1>1. /\ r \in Ranks /\ r \in Segments(e) /\ order[e][r] \in 1 .. NumRanks
      /\ o \in 0 .. NumRanks - 1 /\ o \in Nat /\ order[e][r] = o + 1 /\ rem[e][r] \in Nat
  <2>1. r \in Ranks /\ r \in Segments(e) /\ order[e][r] \in 1 .. NumRanks
    BY SegmentFacts
  <2>2. rem[e][r] \in Nat
    BY <2>1, SegmentFacts
  <2> QED
    BY <2>1, <2>2, NumRanksAssumption
<1>2. \A s \in SentFor(e) : s \in Sent /\ s.rank \in Ranks /\ s.token \in Tokens
                            /\ topk[s.rank][s.token] = e
  BY SentFacts DEF SentFor
<1>3. CASE IsFast(e)
  <2>1. \A s \in SentFor(e) : RankOf(s.rank, s.token) = HomeOf(e)
    BY <1>2, <1>3 DEF RankOf
  <2>2. CASE r = HomeOf(e)
    <3>1. Y = SentFor(e)
      BY <2>1, <2>2
    <3>2. Cardinality(SentFor(e)) = OrdEnd(e, NumRanks - 1)
      BY SentForCard
    <3>3. OrdEnd(e, NumRanks - 1) = SumFunctionOnSet(rem[e], Ranks)
      BY OrdEndTotal
    <3>4. SumFunctionOnSet(rem[e], Ranks) = SumFunctionOnSet(rem[e], {r})
      <4>1. /\ IsFiniteSet(Ranks) /\ {r} \in SUBSET Ranks
            /\ \A x \in Ranks : rem[e][x] \in Int /\ rem[e][x] \in Nat
        BY <1>1, IndexFacts, SegmentFacts
      <4>2. \A x \in Ranks \ {r} : rem[e][x] = 0
        <5> SUFFICES ASSUME NEW x \in Ranks, x # r PROVE rem[e][x] = 0
          OBVIOUS
        <5>1. rem[e][x] <= 0 /\ rem[e][x] \in Nat
          BY <1>3, <2>2, <4>1 DEF IsFast
        <5> QED
          BY <5>1
      <4> DEFINE D == {r}
      <4> HIDE DEF D
      <4>3. SumFunctionOnSet(rem[e], Ranks) = SumFunctionOnSet(rem[e], D)
        BY <4>1, <4>2, SumSupport DEF D
      <4> QED
        BY <4>3 DEF D
    <3>5. SumFunctionOnSet(rem[e], {r}) = rem[e][r]
      <4>1. rem[e][r] \in Int
        BY <1>1
      <4> QED
        BY <4>1, SumSingle
    <3> QED
      BY <3>1, <3>2, <3>3, <3>4, <3>5
  <2>3. CASE r # HomeOf(e)
    <3>1. Y = {}
      BY <2>1, <2>3
    <3>2. rem[e][r] <= 0
      BY <1>1, <1>3, <2>3 DEF IsFast
    <3>3. Cardinality(Y) = 0
      BY <3>1, FS_EmptySet
    <3> QED
      BY <1>1, <3>2, <3>3
  <2> QED
    BY <2>2, <2>3
<1>4. CASE ~ IsFast(e)
  <2> DEFINE a == IF o = 0 THEN 0 ELSE OrdEnd(e, o - 1)
             b == OrdEnd(e, o)
             N == NumRanks - 1
  <2> HIDE DEF o
  <2>1. a \in Nat /\ b \in Nat /\ b = a + rem[e][r] /\ N \in Nat
    <3>1. b \in Nat /\ b = a + SegRows(e, o)
      BY <1>1, OrdEndStep
    <3>2. SegRows(e, o) = rem[e][r]
      BY <1>1, SegRowsFacts
    <3>3. a \in Nat
      <4>1. o # 0 => o - 1 \in Nat
        BY <1>1
      <4>2. o # 0 => OrdEnd(e, o - 1) \in Nat
        BY <4>1, OrdEndStep
      <4> QED
        BY <4>2
    <3> QED
      BY <3>1, <3>2, <3>3, NumRanksAssumption
  <2>2. \A p, k \in Nat : p <= k => OrdEnd(e, p) <= OrdEnd(e, k)
    BY OrdEndGrows
  <2>3. b <= OrdEnd(e, N)
    BY <1>1, <2>1, <2>2
  <2>4. ASSUME NEW s \in SentFor(e)
        PROVE  RankOf(s.rank, s.token) = r
                 <=> a <= PlaceAt(s.rank, e, s.token) /\ PlaceAt(s.rank, e, s.token) < b
    <3> DEFINE pos == PlaceAt(s.rank, e, s.token)
               x == SegmentAt(e, pos)
    <3>1. pos \in Nat /\ pos < OrdEnd(e, NumRanks - 1)
      BY <1>2, PlaceBelow
    <3>2. RankOf(s.rank, s.token) = OrdRank(e, x)
      BY <1>2, <1>4 DEF RankOf
    <3> HIDE DEF pos
    <3>3. InSegment(e, pos, x) /\ SegRows(e, x) # 0
      BY <3>1, SegmentAtIs
    <3> HIDE DEF x
    <3>4. x \in Nat
      BY <3>3, NumRanksAssumption DEF InSegment
    <3>5. OrdRank(e, x) = r <=> x = o
      <4>1. order[e][OrdRank(e, x)] = x + 1
        BY <3>3, <3>4, SegRowsFacts
      <4>2. OrdRank(e, o) = r
        BY <1>1, SegRowsFacts
      <4> QED
        BY <1>1, <3>4, <4>1, <4>2
    <3>6. InSegment(e, pos, o) <=> a <= pos /\ pos < b
      <4>1. ASSUME InSegment(e, pos, o) PROVE a <= pos /\ pos < b
        <5>1. o # 0 => o - 1 \in 0 .. o - 1
          BY <1>1
        <5> QED
          BY <3>1, <4>1, <5>1 DEF InSegment
      <4>2. ASSUME a <= pos, pos < b PROVE InSegment(e, pos, o)
        <5>1. ASSUME NEW p \in 0 .. o - 1 PROVE OrdEnd(e, p) <= pos
          <6>1. p \in Nat /\ o - 1 \in Nat /\ p <= o - 1 /\ o # 0
            BY <1>1
          <6>2. OrdEnd(e, p) <= OrdEnd(e, o - 1)
            BY <2>2, <6>1
          <6>3. OrdEnd(e, p) \in Nat /\ OrdEnd(e, o - 1) \in Nat
            BY <6>1, OrdEndStep
          <6> QED
            BY <3>1, <4>2, <6>1, <6>2, <6>3
        <5> QED
          BY <1>1, <4>2, <5>1 DEF InSegment
      <4> QED
        BY <4>1, <4>2
    <3>7. InSegment(e, pos, o) <=> x = o
      BY <3>1, <3>3, SegmentUnique DEF x
    <3> QED
      BY <3>2, <3>5, <3>6, <3>7 DEF pos
  <2>5. Y = {s \in SentFor(e) : a <= PlaceAt(s.rank, e, s.token)
                                /\ PlaceAt(s.rank, e, s.token) < b}
    BY <2>4
  <2> HIDE DEF a, b, Y
  <2>a. a <= b /\ b <= OrdEnd(e, NumRanks - 1)
    BY <1>1, <2>1, <2>3
  <2>b. Cardinality({s \in SentFor(e) : a <= PlaceAt(s.rank, e, s.token)
                                        /\ PlaceAt(s.rank, e, s.token) < b}) = b - a
    BY <2>1, <2>a, PlacesBetween
  <2>6. Cardinality(Y) = b - a
    BY <2>5, <2>b
  <2> QED
    BY <1>1, <2>1, <2>6 DEF Y
<1> QED
  BY <1>3, <1>4

-----------------------------------------------------------------------------
\* A slot is found by its expert: nobody else on its rank has that expert.
LEMMA SlotOfExpert ==
  ASSUME PlanInv, NEW r \in Ranks, NEW j \in Slots, ExpertInSlot(r, j) # -1
  PROVE  /\ ExpertInSlot(r, j) \in Experts
         /\ r \in Serving(ExpertInSlot(r, j))
         /\ IndexAt(r, ExpertInSlot(r, j)) = j
<1> DEFINE e == ExpertInSlot(r, j)
<1>0. /\ Epn \in Nat \ {0} /\ r \in Nat /\ r < NumRanks /\ NumRanks \in Nat
      /\ j \in Nat /\ j < 2 * Epn
  BY EpnAssumption, NumRanksAssumption DEF Ranks, Slots
<1>1. CASE j < Epn
  <2>1. e = r * Epn + j
    BY <1>1 DEF ExpertInSlot
  <2> HIDE DEF e
  <2>2. r * Epn = Epn * r
    BY <1>0
  <2>3. (Epn * r + j) \div Epn = r /\ (Epn * r + j) % Epn = j
    <3>1. j \in 0 .. Epn - 1
      BY <1>0, <1>1
    <3> QED
      BY <1>0, <3>1, DivIs
  <2>4. HomeOf(e) = r /\ e % Epn = j
    BY <2>1, <2>2, <2>3 DEF HomeOf
  <2>5. e \in Experts
    <3>1. NumRanks - r - 1 \in Nat
      BY <1>0
    <3>2. (NumRanks - r - 1) * Epn \in Nat /\ r * Epn \in Nat
          /\ NumRanks * Epn = r * Epn + Epn + (NumRanks - r - 1) * Epn
      BY <1>0, <3>1
    <3>3. e \in Nat /\ e < NumRanks * Epn /\ NumRanks * Epn \in Nat
      BY <1>0, <1>1, <2>1, <3>2
    <3> QED
      BY <3>3 DEF Experts
  <2>6. r \in Serving(e)
    <3>1. order[e][r] = Home
      BY <2>4, <2>5, SegmentFacts
    <3> QED
      BY <3>1 DEF Serving, Home, Unserved
  <2>7. IndexAt(r, e) = j
    BY <2>4 DEF IndexAt
  <2> QED
    BY <2>5, <2>6, <2>7 DEF e
<1>2. CASE ~ (j < Epn)
  <2>1. e = ExpertsToCopy(r, j - Epn)
    BY <1>2 DEF ExpertInSlot
  <2> HIDE DEF e
  <2>2. e \in ReplicasOn(r) /\ JRep(r, e) = j - Epn
    <3>1. \E f \in ReplicasOn(r) : JRep(r, f) = j - Epn
      BY <2>1 DEF ExpertsToCopy, e
    <3>2. e = CHOOSE f \in ReplicasOn(r) : JRep(r, f) = j - Epn
      BY <2>1, <3>1 DEF ExpertsToCopy
    <3> QED
      BY <3>1, <3>2
  <2>3. e \in Experts /\ order[e][r] >= FirstReplica
    BY <2>2, ReplicaFacts
  <2>4. order[e][r] \in Nat /\ (order[e][r] = Home <=> r = HomeOf(e))
    BY <2>3, SegmentFacts
  <2>5. r \in Serving(e)
    BY <2>3, <2>4 DEF Serving, FirstReplica, Unserved
  <2>6. r # HomeOf(e)
    BY <2>3, <2>4 DEF FirstReplica, Home
  <2>7. IndexAt(r, e) = Epn + (j - Epn)
    BY <2>2, <2>6 DEF IndexAt
  <2>8. Epn + (j - Epn) = j
    BY <1>0
  <2> QED
    BY <2>3, <2>5, <2>7, <2>8 DEF e
<1> QED
  BY <1>1, <1>2

\* What a rank announces for a slot are the rows of its expert on that rank.
LEMMA SlotRowsAre ==
  ASSUME PlanInv, NEW r \in Ranks, NEW j \in Slots
  PROVE  /\ SlotRows(r, j) \in Nat
         /\ SlotRows(r, j) = IF ExpertInSlot(r, j) = -1 THEN 0 ELSE rem[ExpertInSlot(r, j)][r]
<1>1. SlotRows(r, j) = IF ExpertInSlot(r, j) = -1 THEN 0 ELSE rem[ExpertInSlot(r, j)][r]
  <2>1. CASE j < Epn
    <3>1. ExpertInSlot(r, j) = r * Epn + j
      BY <2>1 DEF ExpertInSlot
    <3>2. r * Epn + j # -1
      <4>1. r \in Nat /\ j \in Nat /\ Epn \in Nat
        BY EpnAssumption, NumRanksAssumption DEF Ranks, Slots
      <4>2. r * Epn \in Nat
        BY <4>1
      <4> QED
        BY <4>1, <4>2
    <3> QED
      BY <2>1, <3>1, <3>2 DEF SlotRows
  <2>2. CASE ~ (j < Epn)
    BY <2>2 DEF SlotRows, ExpertInSlot
  <2> QED
    BY <2>1, <2>2
<1>2. SlotRows(r, j) \in Nat
  <2>1. CASE ExpertInSlot(r, j) = -1
    BY <1>1, <2>1
  <2>2. CASE ExpertInSlot(r, j) # -1
    <3>1. ExpertInSlot(r, j) \in Experts
      BY <2>2, SlotOfExpert
    <3>2. rem[ExpertInSlot(r, j)][r] \in Nat
      BY <3>1, SegmentFacts
    <3> QED
      BY <1>1, <2>2, <3>2
  <2> QED
    BY <2>1, <2>2
<1> QED
  BY <1>1, <1>2

\* Its cumulative numbers grow by these rows.
LEMMA CuStep ==
  ASSUME PlanInv, NEW r \in Ranks, NEW j \in Slots
  PROVE  CuSeqlens(r, j) - (IF j = 0 THEN 0 ELSE CuSeqlens(r, j - 1)) = SlotRows(r, j)
<1> DEFINE f == [i \in 0 .. j |-> SlotRows(r, i)]
           g == [i \in 0 .. j - 1 |-> SlotRows(r, i)]
<1>1. j \in Nat /\ 0 .. j \subseteq Slots
  BY EpnAssumption DEF Slots
<1>2. \A i \in 0 .. j : f[i] = SlotRows(r, i) /\ f[i] \in Nat /\ f[i] \in Int
  <2>1. \A i \in 0 .. j : SlotRows(r, i) \in Nat
    BY <1>1, SlotRowsAre
  <2> QED
    BY <2>1
<1>3. CuSeqlens(r, j) = SumFunctionOnSet(f, 0 .. j)
      /\ (j # 0 => CuSeqlens(r, j - 1) = SumFunctionOnSet(g, 0 .. j - 1))
  BY DEF CuSeqlens, SumFunction
<1>4. \A i \in 0 .. j - 1 : g[i] = f[i]
  <2>1. \A i \in 0 .. j - 1 : i \in 0 .. j
    BY <1>1
  <2> QED
    BY <2>1
<1> HIDE DEF f, g
<1>5. SumFunctionOnSet(f, 0 .. j) = SumFunctionOnSet(g, 0 .. j - 1) + f[j]
  BY <1>1, <1>2, <1>4, SumPrefix
<1>6. IsFiniteSet(0 .. j - 1) /\ \A i \in 0 .. j - 1 : g[i] \in Int
  <2>1. IsFiniteSet(0 .. j - 1)
    BY <1>1, FS_Interval
  <2>2. \A i \in 0 .. j - 1 : i \in 0 .. j
    BY <1>1
  <2> QED
    BY <1>2, <1>4, <2>1, <2>2
<1>7. SumFunctionOnSet(g, 0 .. j - 1) \in Int
  BY <1>6, SumInt
<1>8. f[j] = SlotRows(r, j) /\ f[j] \in Int
  BY <1>1, <1>2
<1>9. CASE j = 0
  <2>1. 0 .. j - 1 = {}
    BY <1>9
  <2>2. SumFunctionOnSet(g, {}) = 0
    BY SumEmpty
  <2>3. SumFunctionOnSet(g, 0 .. j - 1) = 0
    BY <2>1, <2>2
  <2> QED
    BY <1>3, <1>5, <1>8, <1>9, <2>3
<1>10. CASE j # 0
  BY <1>3, <1>5, <1>7, <1>8, <1>10
<1> QED
  BY <1>9, <1>10

\* In the plan the slots fill, in every state of the greedy.
LEMMA PlanSlotsFill == PlanInv => SlotsFillExactly
<1> SUFFICES ASSUME PlanInv, NEW r \in Ranks, NEW j \in Slots
             PROVE  Cardinality({s \in Sent : s.vid = r * 2 * Epn + j})
                      = CuSeqlens(r, j) - (IF j = 0 THEN 0 ELSE CuSeqlens(r, j - 1))
  BY DEF SlotsFillExactly
<1> DEFINE e == ExpertInSlot(r, j)
           Y == {s \in Sent : s.vid = r * 2 * Epn + j}
<1>1. ASSUME NEW s \in Sent
      PROVE  LET f == topk[s.rank][s.token]
                 p == RankOf(s.rank, s.token)
             IN  /\ f \in Experts /\ p \in Serving(f) /\ p \in Ranks /\ IndexAt(p, f) \in Slots
                 /\ ExpertInSlot(p, IndexAt(p, f)) = f
                 /\ s.vid = p * 2 * Epn + IndexAt(p, f)
  <2> DEFINE f == topk[s.rank][s.token]
             p == RankOf(s.rank, s.token)
  <2>1. s.rank \in Ranks /\ s.token \in Tokens /\ s.vid = Vtopk(s.rank)[s.token]
    BY SentFacts
  <2>2. f \in Experts /\ p \in Serving(f) /\ Vtopk(s.rank)[s.token] = p * 2 * Epn + IndexAt(p, f)
    BY <2>1, VidIs
  <2> HIDE DEF f, p
  <2>3. p \in Ranks /\ IndexAt(p, f) \in Slots /\ ExpertInSlot(p, IndexAt(p, f)) = f
    BY <2>2, IndexAtFacts
  <2> QED
    BY <2>1, <2>2, <2>3 DEF f, p
<1>2. ASSUME NEW s \in Sent, s.vid = r * 2 * Epn + j
      PROVE  topk[s.rank][s.token] = e /\ RankOf(s.rank, s.token) = r /\ e \in Experts
  <2> DEFINE f == topk[s.rank][s.token]
             p == RankOf(s.rank, s.token)
             k == IndexAt(p, f)
  <2>1. f \in Experts /\ p \in Ranks /\ k \in Slots /\ ExpertInSlot(p, k) = f
        /\ s.vid = p * 2 * Epn + k
    BY <1>1
  <2> HIDE DEF f, p, k
  <2>2. (p * 2 * Epn + k) \div (2 * Epn) = p /\ (p * 2 * Epn + k) % (2 * Epn) = k
    BY <2>1, SlotNumbers
  <2>3. (r * 2 * Epn + j) \div (2 * Epn) = r /\ (r * 2 * Epn + j) % (2 * Epn) = j
    BY SlotNumbers
  <2>4. p = r /\ k = j
    BY <1>2, <2>1, <2>2, <2>3
  <2> QED
    BY <2>1, <2>4 DEF f, p
<1> HIDE DEF e
<1>3. CASE e = -1
  <2>1. Y = {}
    <3>1. -1 \notin Experts
      BY NumRanksAssumption, EpnAssumption DEF Experts
    <3> QED
      BY <1>2, <1>3, <3>1
  <2>2. Cardinality(Y) = 0
    BY <2>1, FS_EmptySet
  <2>3. SlotRows(r, j) = 0
    BY <1>3, SlotRowsAre DEF e
  <2> QED
    BY <2>2, <2>3, CuStep
<1>4. CASE e # -1
  <2>1. e \in Experts /\ r \in Serving(e) /\ IndexAt(r, e) = j
    BY <1>4, SlotOfExpert DEF e
  <2>2. Y = {s \in SentFor(e) : RankOf(s.rank, s.token) = r}
    <3> DEFINE Z == {s \in SentFor(e) : RankOf(s.rank, s.token) = r}
    <3>1. ASSUME NEW s \in Y PROVE s \in Z
      BY <1>2 DEF SentFor
    <3>2. ASSUME NEW s \in Z PROVE s \in Y
      <4>1. s \in Sent /\ topk[s.rank][s.token] = e /\ RankOf(s.rank, s.token) = r
        BY DEF SentFor
      <4>2. s.vid = r * 2 * Epn + IndexAt(r, e)
        BY <1>1, <4>1
      <4> QED
        BY <2>1, <4>1, <4>2
    <3> QED
      BY <3>1, <3>2
  <2> HIDE DEF Y
  <2>3. Cardinality(Y) = rem[e][r]
    BY <2>1, <2>2, RankGetsRows
  <2>4. SlotRows(r, j) = rem[e][r]
    BY <1>4, SlotRowsAre DEF e
  <2> QED
    BY <2>3, <2>4, CuStep DEF Y
<1> QED
  BY <1>3, <1>4

(* The ranks, each on its own, send every slot exactly as many tokens as its *)
(* owner has announced in cu_seqlens, for any routing: the places that the  *)
(* ranks compute for their tokens of an expert are all different and fill   *)
(* its segments.                                                            *)
THEOREM PlanFills == PlanSpec => []SlotsFillExactly
BY PlanInvariant, PlanSlotsFill, PTL
=============================================================================
