--------------------------- MODULE MoonepHostProofs --------------------------
(* Theorems about the host side of the operators: their wrappers and the     *)
(* stream guard, for any streams and any number of calls of any operators;   *)
(* and the layout of the heap, for blocks and heaps of any size, any numbers *)
(* of slots and groups, in calls that keep to one layout.                    *)
EXTENDS MoonepHost, MoonepHeap, TLAPS

(* An empty sequence, by its length.                                         *)
LEMMA EmptyLen ==
    ASSUME NEW T, NEW q \in Seq(T)
    PROVE  q = << >> <=> Len(q) = 0
OBVIOUS

(* What a sequence holds after an item was added, and after the first one    *)
(* was taken.                                                                *)
LEMMA AppendKeeps ==
    ASSUME NEW T, NEW q \in Seq(T), NEW x \in T
    PROVE  /\ Append(q, x) \in Seq(T)
           /\ Len(q) \in Nat /\ Len(Append(q, x)) = Len(q) + 1
           /\ Append(q, x)[Len(q) + 1] = x
           /\ \A i \in 1 .. Len(q) : Append(q, x)[i] = q[i]
OBVIOUS

(* What is left of a sequence moves up by one.                               *)
LEMMA TailShifts ==
    ASSUME NEW T, NEW q \in Seq(T), q # << >>
    PROVE  /\ Tail(q) \in Seq(T) /\ Head(q) = q[1] /\ q[1] \in T
           /\ Len(q) \in Nat /\ Len(q) >= 1 /\ Len(Tail(q)) = Len(q) - 1
           /\ \A i \in 1 .. Len(q) - 1 : Tail(q)[i] = q[i + 1]
OBVIOUS

(* What a sequence of steps behind another one holds.                        *)
LEMMA Joined ==
    ASSUME NEW p \in Seq(Steps), NEW q \in Seq(Steps)
    PROVE  /\ p \o q \in Seq(Steps) /\ Len(p) \in Nat /\ Len(q) \in Nat
           /\ Len(p \o q) = Len(p) + Len(q)
           /\ \A i \in 1 .. Len(p) : (p \o q)[i] = p[i]
           /\ \A i \in Len(p) + 1 .. Len(p) + Len(q) : (p \o q)[i] = q[i - Len(p)]
OBVIOUS

(* How the operators close, step by step.                                    *)
LEMMA FinishSteps ==
    /\ FinishOp(TRUE) \in Seq(Steps) /\ Len(FinishOp(TRUE)) = 1
    /\ FinishOp(TRUE)[1] = "record"
    /\ FinishOp(FALSE) \in Seq(Steps) /\ Len(FinishOp(FALSE)) = 4
    /\ FinishOp(FALSE)[1] = "launch" /\ FinishOp(FALSE)[2] = "synchronize"
    /\ FinishOp(FALSE)[3] = "record" /\ FinishOp(FALSE)[4] = "check"
<1>1. FinishOp(TRUE) = <<"record">>
      /\ FinishOp(FALSE) = SymBarrier \o <<"record", "check">>
  BY DEF FinishOp
<1>2. /\ SymBarrier \in Seq(Steps) /\ Len(SymBarrier) = 2
      /\ SymBarrier[1] = "launch" /\ SymBarrier[2] = "synchronize"
  BY DEF SymBarrier, Steps
<1> DEFINE c == <<"record", "check">>
<1>3. c \in Seq(Steps) /\ Len(c) = 2 /\ c[1] = "record" /\ c[2] = "check"
  BY DEF Steps
<1>4. <<"record">> \in Seq(Steps) /\ Len(<<"record">>) = 1
      /\ <<"record">>[1] = "record"
  BY DEF Steps
<1>5. /\ SymBarrier \o c \in Seq(Steps)
         /\ Len(SymBarrier \o c) = Len(SymBarrier) + Len(c)
      /\ \A i \in 1 .. Len(SymBarrier) : (SymBarrier \o c)[i] = SymBarrier[i]
      /\ \A i \in Len(SymBarrier) + 1 .. Len(SymBarrier) + Len(c) :
           (SymBarrier \o c)[i] = c[i - Len(SymBarrier)]
  BY <1>2, <1>3, Joined
<1>6. FinishOp(FALSE) = SymBarrier \o c
  BY <1>1
<1> HIDE DEF c
<1>7. /\ Len(SymBarrier \o c) = 4
      /\ (SymBarrier \o c)[1] = "launch" /\ (SymBarrier \o c)[2] = "synchronize"
      /\ (SymBarrier \o c)[3] = "record" /\ (SymBarrier \o c)[4] = "check"
  BY <1>2, <1>3, <1>5
<1>8. /\ FinishOp(FALSE) \in Seq(Steps) /\ Len(FinishOp(FALSE)) = 4
      /\ FinishOp(FALSE)[1] = "launch" /\ FinishOp(FALSE)[2] = "synchronize"
      /\ FinishOp(FALSE)[3] = "record" /\ FinishOp(FALSE)[4] = "check"
  BY <1>5, <1>6, <1>7
<1> QED
  BY <1>1, <1>4, <1>8

(* The wrapper of the plan, with and without the check at its end.           *)
LEMMA PlanSteps ==
    /\ MoonepPlan(FALSE) \in Seq(Steps) /\ Len(MoonepPlan(FALSE)) = 4
    /\ MoonepPlan(FALSE)[1] = "guard" /\ MoonepPlan(FALSE)[2] = "launch"
    /\ MoonepPlan(FALSE)[3] = "record" /\ MoonepPlan(FALSE)[4] = "note"
    /\ MoonepPlan(TRUE) \in Seq(Steps) /\ Len(MoonepPlan(TRUE)) = 5
    /\ MoonepPlan(TRUE)[1] = "guard" /\ MoonepPlan(TRUE)[2] = "launch"
    /\ MoonepPlan(TRUE)[3] = "record" /\ MoonepPlan(TRUE)[4] = "note"
    /\ MoonepPlan(TRUE)[5] = "check"
<1> DEFINE a == <<"guard", "launch", "record", "note">>
           b == <<"check">>
           n == << >>
<1>1. /\ a \in Seq(Steps) /\ Len(a) = 4 /\ a[1] = "guard" /\ a[2] = "launch"
      /\ a[3] = "record" /\ a[4] = "note"
  BY DEF Steps
<1>2. b \in Seq(Steps) /\ Len(b) = 1 /\ b[1] = "check" /\ n \in Seq(Steps)
      /\ Len(n) = 0
  BY DEF Steps
<1>3. MoonepPlan(FALSE) = a \o n /\ MoonepPlan(TRUE) = a \o b
  BY DEF MoonepPlan
<1> HIDE DEF a, b, n
<1>4. /\ a \o n \in Seq(Steps) /\ Len(a \o n) = Len(a) + Len(n)
      /\ \A i \in 1 .. Len(a) : (a \o n)[i] = a[i]
      /\ \A i \in Len(a) + 1 .. Len(a) + Len(n) :
           (a \o n)[i] = n[i - Len(a)]
  BY <1>1, <1>2, Joined
<1>5. /\ a \o b \in Seq(Steps) /\ Len(a \o b) = Len(a) + Len(b)
      /\ \A i \in 1 .. Len(a) : (a \o b)[i] = a[i]
      /\ \A i \in Len(a) + 1 .. Len(a) + Len(b) :
           (a \o b)[i] = b[i - Len(a)]
  BY <1>1, <1>2, Joined
<1>6. Len(a \o n) = 4 /\ \A i \in 1 .. 4 : (a \o n)[i] = a[i]
  <2>1. Len(a) = 4 /\ Len(n) = 0
    BY <1>1, <1>2
  <2>2. Len(a) + Len(n) = 4
    BY <2>1
  <2> QED
    BY <1>4, <2>1, <2>2
<1>7. Len(a \o b) = 5 /\ \A i \in 1 .. 4 : (a \o b)[i] = a[i]
  BY <1>1, <1>2, <1>5
<1>8. (a \o b)[5] = "check"
  BY <1>1, <1>2, <1>5
<1> DEFINE pa == MoonepPlan(FALSE)
           pb == MoonepPlan(TRUE)
<1>9. pa = a \o n /\ pb = a \o b
  BY <1>3
<1> HIDE DEF pa, pb
<1>10. /\ pa \in Seq(Steps) /\ Len(pa) = 4 /\ pa[1] = "guard"
          /\ pa[2] = "launch"
       /\ pa[3] = "record" /\ pa[4] = "note"
  BY <1>1, <1>4, <1>6, <1>9
<1>11. /\ pb \in Seq(Steps) /\ Len(pb) = 5 /\ pb[1] = "guard"
          /\ pb[2] = "launch"
       /\ pb[3] = "record" /\ pb[4] = "note" /\ pb[5] = "check"
  BY <1>1, <1>5, <1>7, <1>8, <1>9
<1> QED
  BY <1>10, <1>11 DEF pa, pb

(* The wrapper of the prefetch, up to how it closes.                         *)
LEMMA PrefetchSteps ==
    ASSUME NEW v \in BOOLEAN
    PROVE  /\ PrefetchWeight(v) \in Seq(Steps)
           /\ Len(PrefetchWeight(v)) = 2 + Len(FinishOp(v))
           /\ PrefetchWeight(v)[1] = "guard" /\ PrefetchWeight(v)[2] = "launch"
           /\ \A i \in 3 .. 2 + Len(FinishOp(v)) :
                PrefetchWeight(v)[i] = FinishOp(v)[i - 2]
<1> DEFINE a == <<"guard", "launch">>
<1>1. a \in Seq(Steps) /\ Len(a) = 2 /\ a[1] = "guard" /\ a[2] = "launch"
  BY DEF Steps
<1>2. PrefetchWeight(v) = a \o FinishOp(v)
  BY DEF PrefetchWeight
<1>3. FinishOp(v) \in Seq(Steps)
  BY FinishSteps
<1> HIDE DEF a
<1>4. /\ a \o FinishOp(v) \in Seq(Steps)
         /\ Len(a \o FinishOp(v)) = Len(a) + Len(FinishOp(v))
      /\ \A i \in 1 .. Len(a) : (a \o FinishOp(v))[i] = a[i]
      /\ \A i \in Len(a) + 1 .. Len(a) + Len(FinishOp(v)) :
           (a \o FinishOp(v))[i] = FinishOp(v)[i - Len(a)]
  BY <1>1, <1>3, Joined
<1> QED
  BY <1>1, <1>2, <1>3, <1>4

(* The wrapper of the gradient reduction, up to how it closes.               *)
LEMMA ReduceSteps ==
    ASSUME NEW v \in BOOLEAN
    PROVE  /\ ReduceGrad(v) \in Seq(Steps)
           /\ Len(ReduceGrad(v)) = 4 + Len(FinishOp(v))
           /\ ReduceGrad(v)[1] = "guard" /\ ReduceGrad(v)[2] = "launch"
           /\ ReduceGrad(v)[3] = "synchronize" /\ ReduceGrad(v)[4] = "launch"
           /\ \A i \in 5 .. 4 + Len(FinishOp(v)) :
                ReduceGrad(v)[i] = FinishOp(v)[i - 4]
<1> DEFINE g == <<"guard">>
           l == <<"launch">>
<1>1. /\ g \in Seq(Steps) /\ Len(g) = 1 /\ g[1] = "guard"
      /\ l \in Seq(Steps) /\ Len(l) = 1 /\ l[1] = "launch"
  BY DEF Steps
<1>2. /\ SymBarrier \in Seq(Steps) /\ Len(SymBarrier) = 2
      /\ SymBarrier[1] = "launch" /\ SymBarrier[2] = "synchronize"
  BY DEF SymBarrier, Steps
<1>3. FinishOp(v) \in Seq(Steps)
  BY FinishSteps
<1> DEFINE gs == g \o SymBarrier
           gsl == gs \o l
<1>4. ReduceGrad(v) = gsl \o FinishOp(v)
  BY DEF ReduceGrad
<1> HIDE DEF g, l
<1>5. /\ g \o SymBarrier \in Seq(Steps)
         /\ Len(g \o SymBarrier) = Len(g) + Len(SymBarrier)
      /\ \A i \in 1 .. Len(g) : (g \o SymBarrier)[i] = g[i]
      /\ \A i \in Len(g) + 1 .. Len(g) + Len(SymBarrier) :
           (g \o SymBarrier)[i] = SymBarrier[i - Len(g)]
  BY <1>1, <1>2, Joined
<1>6. /\ gs \in Seq(Steps) /\ Len(gs) = 3
      /\ gs[1] = "guard" /\ gs[2] = "launch" /\ gs[3] = "synchronize"
  BY <1>1, <1>2, <1>5
<1> HIDE DEF gs
<1>7. /\ gs \o l \in Seq(Steps) /\ Len(gs \o l) = Len(gs) + Len(l)
      /\ \A i \in 1 .. Len(gs) : (gs \o l)[i] = gs[i]
      /\ \A i \in Len(gs) + 1 .. Len(gs) + Len(l) :
           (gs \o l)[i] = l[i - Len(gs)]
  BY <1>1, <1>6, Joined
<1>8. /\ gsl \in Seq(Steps) /\ Len(gsl) = 4
      /\ gsl[1] = "guard" /\ gsl[2] = "launch" /\ gsl[3] = "synchronize"
      /\ gsl[4] = "launch"
  BY <1>1, <1>6, <1>7
<1> HIDE DEF gsl
<1>9. /\ gsl \o FinishOp(v) \in Seq(Steps)
         /\ Len(gsl \o FinishOp(v)) = Len(gsl) + Len(FinishOp(v))
      /\ \A i \in 1 .. Len(gsl) : (gsl \o FinishOp(v))[i] = gsl[i]
      /\ \A i \in Len(gsl) + 1 .. Len(gsl) + Len(FinishOp(v)) :
           (gsl \o FinishOp(v))[i] = FinishOp(v)[i - Len(gsl)]
  BY <1>3, <1>8, Joined
<1> QED
  BY <1>3, <1>4, <1>8, <1>9

(* A wrapper that begins with the guard and records once, behind its launches. *)
LEMMA OneRecord ==
    ASSUME NEW p \in Seq(Steps), NEW r \in 1 .. Len(p),
           p[r] = "record", p[1] = "guard",
           \A i \in 2 .. Len(p) : p[i] # "guard",
           \A i \in r + 1 .. Len(p) : p[i] \notin {"launch", "record"},
           \A i \in 1 .. r - 1 : p[i] # "record"
    PROVE  /\ WellFormed(p) /\ p # << >> /\ Len(p) \in Nat /\ Len(p) >= 1
           /\ \E i \in 1 .. Len(p) : p[i] = "record"
<1>1. Len(p) \in Nat /\ p # << >>
  OBVIOUS
<1>2. \A i \in 1 .. Len(p) : p[i] \in {"guard", "launch"} => i < r
  BY <1>1
<1>3. \A i \in 1 .. Len(p) : p[i] = "record" => i = r
  BY <1>1
<1> QED
  BY <1>1, <1>2, <1>3 DEF WellFormed

(* Every wrapper is of that shape, and a checking one ends with the check.   *)
LEMMA WrapperOK ==
    ASSUME NEW k \in Kinds
    PROVE  /\ WellFormed(Wrapper(k)) /\ Wrapper(k) # << >>
           /\ Len(Wrapper(k)) \in Nat /\ Len(Wrapper(k)) >= 1
           /\ Wrapper(k)[1] = "guard"
           /\ \E i \in 1 .. Len(Wrapper(k)) : Wrapper(k)[i] = "record"
           /\ k \in Checking => Wrapper(k)[Len(Wrapper(k))] = "check"
           /\ k \in {"plan", "plan_verify"} =>
                \E i \in 1 .. Len(Wrapper(k)) : Wrapper(k)[i] = "note"
<1>1. k \in {"plan", "plan_verify", "prefetch", "prefetch_async", "reduce",
             "reduce_barrier_false"}
  BY KindsAssumption
<1>2. CASE k = "plan"
  <2> DEFINE p == MoonepPlan(FALSE)
  <2>1. Wrapper(k) = p
    BY <1>2 DEF Wrapper
  <2>2. p \in Seq(Steps) /\ Len(p) = 4
    BY PlanSteps
  <2>3. p[1] = "guard" /\ p[2] = "launch" /\ p[3] = "record" /\ p[4] = "note"
    BY PlanSteps
  <2> HIDE DEF p
  <2>4. 3 \in 1 .. Len(p) /\ (\A i \in 2 .. Len(p) : p[i] # "guard")
    BY <2>2, <2>3
  <2>5. /\ \A i \in 3 + 1 .. Len(p) : p[i] \notin {"launch", "record"}
        /\ \A i \in 1 .. 3 - 1 : p[i] # "record"
    BY <2>2, <2>3
  <2>6. /\ WellFormed(p) /\ p # << >> /\ Len(p) \in Nat /\ Len(p) >= 1
        /\ \E i \in 1 .. Len(p) : p[i] = "record"
    BY <2>2, <2>3, <2>4, <2>5, OneRecord
  <2> QED
    BY <1>2, <2>1, <2>2, <2>3, <2>6 DEF Checking
<1>3. CASE k = "plan_verify"
  <2> DEFINE p == MoonepPlan(TRUE)
  <2>1. Wrapper(k) = p
    BY <1>3 DEF Wrapper
  <2>2. p \in Seq(Steps) /\ Len(p) = 5
    BY PlanSteps
  <2>3. p[1] = "guard" /\ p[2] = "launch" /\ p[3] = "record" /\ p[4] = "note"
        /\ p[5] = "check"
    BY PlanSteps
  <2> HIDE DEF p
  <2>4. 3 \in 1 .. Len(p) /\ (\A i \in 2 .. Len(p) : p[i] # "guard")
    BY <2>2, <2>3
  <2>5. /\ \A i \in 3 + 1 .. Len(p) : p[i] \notin {"launch", "record"}
        /\ \A i \in 1 .. 3 - 1 : p[i] # "record"
    BY <2>2, <2>3
  <2>6. /\ WellFormed(p) /\ p # << >> /\ Len(p) \in Nat /\ Len(p) >= 1
        /\ \E i \in 1 .. Len(p) : p[i] = "record"
    BY <2>2, <2>3, <2>4, <2>5, OneRecord
  <2>7. 4 \in 1 .. Len(p) /\ p[Len(p)] = "check"
    BY <2>2, <2>3
  <2> QED
    BY <1>3, <2>1, <2>3, <2>6, <2>7
<1>4. CASE k = "prefetch"
  <2> DEFINE p == PrefetchWeight(FALSE)
  <2>1. Wrapper(k) = p
    BY <1>4 DEF Wrapper
  <2> DEFINE f == FinishOp(FALSE)
  <2>2. /\ p \in Seq(Steps) /\ Len(p) = 2 + Len(f) /\ p[1] = "guard"
        /\ p[2] = "launch"
        /\ \A i \in 3 .. 2 + Len(f) : p[i] = f[i - 2]
    BY PrefetchSteps
  <2>3. Len(f) = 4 /\ f[1] = "launch" /\ f[2] = "synchronize"
        /\ f[3] = "record" /\ f[4] = "check"
    BY FinishSteps
  <2> HIDE DEF p, f
  <2>4. p \in Seq(Steps) /\ Len(p) = 6
    BY <2>2, <2>3
  <2>5. p[1] = "guard" /\ p[2] = "launch" /\ p[3] = "launch"
        /\ p[4] = "synchronize" /\ p[5] = "record" /\ p[6] = "check"
    BY <2>2, <2>3
  <2>6. 5 \in 1 .. Len(p) /\ (\A i \in 2 .. Len(p) : p[i] # "guard")
    BY <2>4, <2>5
  <2>7. /\ \A i \in 5 + 1 .. Len(p) : p[i] \notin {"launch", "record"}
        /\ \A i \in 1 .. 5 - 1 : p[i] # "record"
    BY <2>4, <2>5
  <2>8. /\ WellFormed(p) /\ p # << >> /\ Len(p) \in Nat /\ Len(p) >= 1
        /\ \E i \in 1 .. Len(p) : p[i] = "record"
    BY <2>4, <2>5, <2>6, <2>7, OneRecord
  <2> QED
    BY <1>4, <2>1, <2>4, <2>5, <2>8 DEF Checking
<1>5. CASE k = "prefetch_async"
  <2> DEFINE p == PrefetchWeight(TRUE)
  <2>1. Wrapper(k) = p
    BY <1>5 DEF Wrapper
  <2> DEFINE f == FinishOp(TRUE)
  <2>2. /\ p \in Seq(Steps) /\ Len(p) = 2 + Len(f) /\ p[1] = "guard"
        /\ p[2] = "launch"
        /\ \A i \in 3 .. 2 + Len(f) : p[i] = f[i - 2]
    BY PrefetchSteps
  <2>3. Len(f) = 1 /\ f[1] = "record"
    BY FinishSteps
  <2> HIDE DEF p, f
  <2>4. p \in Seq(Steps) /\ Len(p) = 3
    BY <2>2, <2>3
  <2>5. p[1] = "guard" /\ p[2] = "launch" /\ p[3] = "record"
    BY <2>2, <2>3
  <2>6. 3 \in 1 .. Len(p) /\ (\A i \in 2 .. Len(p) : p[i] # "guard")
    BY <2>4, <2>5
  <2>7. /\ \A i \in 3 + 1 .. Len(p) : p[i] \notin {"launch", "record"}
        /\ \A i \in 1 .. 3 - 1 : p[i] # "record"
    BY <2>4, <2>5
  <2>8. /\ WellFormed(p) /\ p # << >> /\ Len(p) \in Nat /\ Len(p) >= 1
        /\ \E i \in 1 .. Len(p) : p[i] = "record"
    BY <2>4, <2>5, <2>6, <2>7, OneRecord
  <2> QED
    BY <1>5, <2>1, <2>4, <2>5, <2>8 DEF Checking
<1>6. CASE k = "reduce"
  <2> DEFINE p == ReduceGrad(TRUE)
  <2>1. Wrapper(k) = p
    BY <1>6 DEF Wrapper
  <2> DEFINE f == FinishOp(TRUE)
  <2>2. /\ p \in Seq(Steps) /\ Len(p) = 4 + Len(f) /\ p[1] = "guard"
        /\ p[2] = "launch" /\ p[3] = "synchronize" /\ p[4] = "launch"
        /\ \A i \in 5 .. 4 + Len(f) : p[i] = f[i - 4]
    BY ReduceSteps
  <2>3. Len(f) = 1 /\ f[1] = "record"
    BY FinishSteps
  <2> HIDE DEF p, f
  <2>4. p \in Seq(Steps) /\ Len(p) = 5
    BY <2>2, <2>3
  <2>5. p[1] = "guard" /\ p[2] = "launch" /\ p[3] = "synchronize"
        /\ p[4] = "launch" /\ p[5] = "record"
    BY <2>2, <2>3
  <2>6. 5 \in 1 .. Len(p) /\ (\A i \in 2 .. Len(p) : p[i] # "guard")
    BY <2>4, <2>5
  <2>7. /\ \A i \in 5 + 1 .. Len(p) : p[i] \notin {"launch", "record"}
        /\ \A i \in 1 .. 5 - 1 : p[i] # "record"
    BY <2>4, <2>5
  <2>8. /\ WellFormed(p) /\ p # << >> /\ Len(p) \in Nat /\ Len(p) >= 1
        /\ \E i \in 1 .. Len(p) : p[i] = "record"
    BY <2>4, <2>5, <2>6, <2>7, OneRecord
  <2> QED
    BY <1>6, <2>1, <2>4, <2>5, <2>8 DEF Checking
<1>7. CASE k = "reduce_barrier_false"
  <2> DEFINE p == ReduceGrad(FALSE)
  <2>1. Wrapper(k) = p
    BY <1>7 DEF Wrapper
  <2> DEFINE f == FinishOp(FALSE)
  <2>2. /\ p \in Seq(Steps) /\ Len(p) = 4 + Len(f) /\ p[1] = "guard"
        /\ p[2] = "launch" /\ p[3] = "synchronize" /\ p[4] = "launch"
        /\ \A i \in 5 .. 4 + Len(f) : p[i] = f[i - 4]
    BY ReduceSteps
  <2>3. Len(f) = 4 /\ f[1] = "launch" /\ f[2] = "synchronize"
        /\ f[3] = "record" /\ f[4] = "check"
    BY FinishSteps
  <2> HIDE DEF p, f
  <2>4. p \in Seq(Steps) /\ Len(p) = 8
    BY <2>2, <2>3
  <2>5. p[1] = "guard" /\ p[2] = "launch" /\ p[3] = "synchronize"
        /\ p[4] = "launch" /\ p[5] = "launch" /\ p[6] = "synchronize"
        /\ p[7] = "record" /\ p[8] = "check"
    BY <2>2, <2>3
  <2>6. 7 \in 1 .. Len(p) /\ (\A i \in 2 .. Len(p) : p[i] # "guard")
    BY <2>4, <2>5
  <2>7. /\ \A i \in 7 + 1 .. Len(p) : p[i] \notin {"launch", "record"}
        /\ \A i \in 1 .. 7 - 1 : p[i] # "record"
    BY <2>4, <2>5
  <2>8. /\ WellFormed(p) /\ p # << >> /\ Len(p) \in Nat /\ Len(p) >= 1
        /\ \E i \in 1 .. Len(p) : p[i] = "record"
    BY <2>4, <2>5, <2>6, <2>7, OneRecord
  <2> QED
    BY <1>7, <2>1, <2>4, <2>5, <2>8 DEF Checking
<1> QED
  BY <1>1, <1>2, <1>3, <1>4, <1>5, <1>6, <1>7

(* The wrapper after its next step.                                          *)
LEMMA AfterStep ==
    ASSUME NEW p, WellFormed(p), p # << >>
    PROVE  /\ WellFormed(Tail(p)) /\ Head(p) = p[1]
           /\ Tail(p) # << >> => Head(Tail(p)) # "guard"
           /\ Tail(p) # << >> => Tail(p)[Len(Tail(p))] = p[Len(p)]
           /\ Tail(p) = << >> => p[Len(p)] = Head(p)
           /\ Head(p) = "record" =>
                ~ \E i \in 1 .. Len(Tail(p)) : Tail(p)[i] = "record"
           /\ Head(p) \in {"guard", "launch"} =>
                \E i \in 1 .. Len(Tail(p)) : Tail(p)[i] = "record"
           /\ \A w : (\E i \in 1 .. Len(Tail(p)) : Tail(p)[i] = w)
                        => \E i \in 1 .. Len(p) : p[i] = w
           /\ \A w : w # Head(p) /\ (\E i \in 1 .. Len(p) : p[i] = w)
                        => \E i \in 1 .. Len(Tail(p)) : Tail(p)[i] = w
<1>1. p \in Seq(Steps)
  BY DEF WellFormed
<1>2. /\ Tail(p) \in Seq(Steps) /\ Head(p) = p[1]
      /\ Len(p) \in Nat /\ Len(p) >= 1 /\ Len(Tail(p)) = Len(p) - 1
      /\ \A i \in 1 .. Len(p) - 1 : Tail(p)[i] = p[i + 1]
  BY <1>1, TailShifts
<1>3. \A i \in 1 .. Len(Tail(p)) : i + 1 \in 1 .. Len(p) /\ Tail(p)[i] = p[i + 1]
  BY <1>2
<1>4. \A i \in 2 .. Len(p) : i - 1 \in 1 .. Len(Tail(p)) /\ Tail(p)[i - 1] = p[i]
  BY <1>2
<1>5. WellFormed(Tail(p))
  <2> SUFFICES ASSUME NEW i \in 1 .. Len(Tail(p))
               PROVE  /\ Tail(p)[i] = "guard" => i = 1
                      /\ Tail(p)[i] \in {"guard", "launch"} =>
                           \E j \in i + 1 .. Len(Tail(p)) : Tail(p)[j] = "record"
                      /\ Tail(p)[i] = "record" =>
                           \A j \in i + 1 .. Len(Tail(p)) :
                              Tail(p)[j] \notin {"guard", "launch", "record"}
    BY <1>2 DEF WellFormed
  <2>1. i + 1 \in 1 .. Len(p) /\ Tail(p)[i] = p[i + 1]
    BY <1>3
  <2>2. Tail(p)[i] # "guard"
    BY <2>1, <1>2 DEF WellFormed
  <2>3. ASSUME Tail(p)[i] = "launch"
        PROVE  \E j \in i + 1 .. Len(Tail(p)) : Tail(p)[j] = "record"
    <3>1. PICK j \in i + 2 .. Len(p) : p[j] = "record"
      BY <2>1, <2>3 DEF WellFormed
    <3>2. j - 1 \in i + 1 .. Len(Tail(p)) /\ Tail(p)[j - 1] = "record"
      BY <3>1, <1>2, <1>4
    <3> QED
      BY <3>2
  <2>4. ASSUME Tail(p)[i] = "record", NEW j \in i + 1 .. Len(Tail(p))
        PROVE  Tail(p)[j] \notin {"guard", "launch", "record"}
    <3>1. j + 1 \in i + 2 .. Len(p) /\ Tail(p)[j] = p[j + 1]
      BY <1>2
    <3> QED
      BY <2>1, <2>4, <3>1 DEF WellFormed
  <2> QED
    BY <2>2, <2>3, <2>4
<1>6. Tail(p) # << >> => Head(Tail(p)) # "guard"
  <2>1. ASSUME Tail(p) # << >> PROVE Head(Tail(p)) = p[2] /\ 2 \in 1 .. Len(p)
    <3>1. Head(Tail(p)) = Tail(p)[1] /\ Len(Tail(p)) >= 1
      BY <1>2, <2>1, TailShifts
    <3> QED
      BY <1>2, <1>3, <3>1
  <2> QED
    BY <2>1 DEF WellFormed
<1>7. Tail(p) # << >> => Tail(p)[Len(Tail(p))] = p[Len(p)]
  <2>1. ASSUME Tail(p) # << >> PROVE Len(Tail(p)) >= 1
    BY <1>2, <2>1, TailShifts
  <2> QED
    BY <1>2, <2>1
<1>8. Tail(p) = << >> => p[Len(p)] = Head(p)
  <2>1. ASSUME Tail(p) = << >> PROVE Len(p) = 1
    <3>1. Len(Tail(p)) = 0
      BY <1>2, <2>1, EmptyLen
    <3>2. ASSUME NEW n \in Nat, NEW m, m = n - 1, m = 0 PROVE n = 1
      BY <3>2
    <3>3. Len(p) \in Nat /\ Len(Tail(p)) = Len(p) - 1
      BY <1>2
    <3> QED
      BY <3>1, <3>2, <3>3
  <2> QED
    BY <1>2, <2>1
<1>9. Head(p) = "record" => ~ \E i \in 1 .. Len(Tail(p)) : Tail(p)[i] = "record"
  BY <1>2, <1>3 DEF WellFormed
<1>10. ASSUME Head(p) \in {"guard", "launch"}
       PROVE  \E i \in 1 .. Len(Tail(p)) : Tail(p)[i] = "record"
  <2>1. PICK j \in 2 .. Len(p) : p[j] = "record"
    BY <1>2, <1>10 DEF WellFormed
  <2> QED
    BY <2>1, <1>4
<1>11. \A w : (\E i \in 1 .. Len(Tail(p)) : Tail(p)[i] = w)
                 => \E i \in 1 .. Len(p) : p[i] = w
  BY <1>3
<1>12. ASSUME NEW w, w # Head(p), NEW i \in 1 .. Len(p), p[i] = w
       PROVE  \E j \in 1 .. Len(Tail(p)) : Tail(p)[j] = w
  <2>1. i \in 2 .. Len(p)
    BY <1>2, <1>12
  <2> QED
    BY <2>1, <1>4, <1>12
<1> QED
  BY <1>2, <1>5, <1>6, <1>7, <1>8, <1>9, <1>10, <1>11, <1>12

-----------------------------------------------------------------------------
(* The call goes on by one step that is not the guard, the record, a note or *)
(* a check.                                                                  *)
LEMMA GoesOn ==
    ASSUME CallInv, prog # << >>, prog' = Tail(prog), calls' = calls, cur' = cur,
           tstream' = cur,
           tevent' = IF Head(prog) = "record" THEN calls ELSE tevent
    PROVE  /\ CallInv' /\ ~Doing("guard")' /\ calls \in 1 .. MaxCalls
           /\ cur \in Streams /\ calls \in Nat /\ tevent \in Nat
           /\ tevent <= calls
           /\ Head(prog) = "launch" => tevent < calls /\ Launching'
           /\ Head(prog) # "record" /\ Launching => Launching'
           /\ ~Doing("guard") => tstream = cur
<1>1. /\ WellFormed(prog) /\ calls \in 1 .. MaxCalls /\ cur \in Streams
      /\ ~Doing("guard") => tstream = cur
  BY MaxCallsAssumption DEF CallInv
<1>2. WellFormed(Tail(prog)) /\ (Tail(prog) # << >> => Head(Tail(prog)) # "guard")
  BY <1>1, AfterStep
<1>3. Head(prog) = "record" =>
        ~ \E i \in 1 .. Len(Tail(prog)) : Tail(prog)[i] = "record"
  BY <1>1, AfterStep
<1>4. Head(prog) # "record" =>
        ((\E i \in 1 .. Len(Tail(prog)) : Tail(prog)[i] = "record") <=> ToDo("record"))
  BY <1>1, AfterStep DEF ToDo
<1>5. Head(prog) \in {"guard", "launch"} =>
        \E i \in 1 .. Len(Tail(prog)) : Tail(prog)[i] = "record"
  BY <1>1, AfterStep
<1>6. ToDo("record")' <=> \E i \in 1 .. Len(Tail(prog)) : Tail(prog)[i] = "record"
  BY DEF ToDo
<1>7. /\ calls \in Nat /\ calls >= 1 /\ tevent \in 0 .. calls
      /\ tevent \in Nat /\ tevent <= calls
      /\ ToDo("record") => tevent < calls
  BY <1>1, MaxCallsAssumption DEF CallInv
<1>8. tevent' \in 0 .. calls /\ (ToDo("record")' => tevent' < calls)
  BY <1>3, <1>4, <1>6, <1>7
<1>9. cur # NoStream
  BY <1>1, StreamsAssumption
<1>10. ~Doing("guard")'
  BY <1>2 DEF Doing
<1>11. CallInv'
  BY <1>1, <1>2, <1>8, <1>9, <1>10 DEF CallInv
<1>12. Head(prog) = "launch" => tevent < calls /\ Launching'
  BY <1>4, <1>5, <1>6, <1>7, <1>10 DEF Launching
<1>13. Head(prog) # "record" /\ Launching => Launching'
  BY <1>4, <1>6, <1>10 DEF Launching
<1> QED
  BY <1>1, <1>7, <1>10, <1>11, <1>12, <1>13

(* A call that has the guard before it has the record before it.             *)
LEMMA GuardFirst ==
    ASSUME WellFormed(prog), Doing("guard")
    PROVE  ToDo("record")
<1>1. prog \in Seq(Steps) /\ prog # << >> /\ Head(prog) = "guard"
  BY DEF WellFormed, Doing
<1>2. prog[1] = "guard" /\ Len(prog) \in Nat /\ Len(prog) >= 1
  BY <1>1, TailShifts
<1>3. PICK j \in 2 .. Len(prog) : prog[j] = "record"
  BY <1>2 DEF WellFormed
<1> QED
  BY <1>2, <1>3 DEF ToDo

(* What a step that neither notes nor checks keeps about the layout.         *)
LEMMA LayoutKept ==
    ASSUME CallInv, OverflowInv, prog # << >>, prog' = Tail(prog), kind' = kind,
           UNCHANGED overflow, Head(prog) \notin {"note", "check"}
    PROVE  OverflowInv'
<1>1. WellFormed(prog)
  BY DEF CallInv
<1>2. /\ Tail(prog) # << >> => Tail(prog)[Len(Tail(prog))] = prog[Len(prog)]
      /\ Tail(prog) = << >> => prog[Len(prog)] = Head(prog)
      /\ ToDo("note") => \E i \in 1 .. Len(Tail(prog)) : Tail(prog)[i] = "note"
  BY <1>1, AfterStep DEF ToDo
<1>3. ToDo("note") => ToDo("note")'
  BY <1>2 DEF ToDo
<1> QED
  BY <1>2, <1>3 DEF OverflowInv, overflow

-----------------------------------------------------------------------------
(* A wait that holds a stream still does behind what is appended.            *)
LEMMA HeldBehind ==
    ASSUME QueuesInv, NEW u \in Streams, NEW x \in Items,
           queue' = [queue EXCEPT ![u] = Append(@, x)], fired' = fired,
           NEW s \in Streams, NEW p \in 1 .. Len(queue[s]) + 1, NEW i, Held(s, p, i)
    PROVE  Held(s, p, i)' /\ Held(s, Len(queue[s]) + 1, i)'
<1>1. queue[s] \in Seq(Items) /\ Len(queue[s]) \in Nat
  BY DEF QueuesInv
<1>2. \A q \in 1 .. Len(queue[s]) : queue'[s][q] = queue[s][q]
  BY <1>1, AppendKeeps DEF QueuesInv
<1>3. PICK q \in 1 .. p - 1 : /\ queue[s][q].item = "wait"
                             /\ i <= queue[s][q].call /\ queue[s][q].call \notin fired
  BY DEF Held
<1>4. q \in 1 .. Len(queue[s]) /\ q \in 1 .. Len(queue'[s]) + 1 - 1
  BY <1>1, <1>3, AppendKeeps DEF QueuesInv
<1> QED
  BY <1>2, <1>3, <1>4 DEF Held

(* A wait that holds a stream still does when the item before it is gone.    *)
LEMMA HeldShifts ==
    ASSUME QueuesInv, NEW u \in Streams, queue[u] # << >>,
           queue' = [queue EXCEPT ![u] = Tail(@)],
           Head(queue[u]).item = "wait" => Head(queue[u]).call \in fired,
           NEW i \in Nat, \A k \in fired' : k \in fired \/ k < i,
           NEW s \in Streams, NEW p \in 1 .. Len(queue[s]) + 1, Held(s, p, i)
    PROVE  IF s = u THEN Held(s, p - 1, i)' ELSE Held(s, p, i)'
<1>1. queue[s] \in Seq(Items) /\ Len(queue[s]) \in Nat
  BY DEF QueuesInv
<1>2. PICK q \in 1 .. p - 1 : /\ queue[s][q].item = "wait"
                             /\ i <= queue[s][q].call /\ queue[s][q].call \notin fired
  BY DEF Held
<1>3. q \in 1 .. Len(queue[s]) /\ queue[s][q].call \in Nat
  <2>1. q \in 1 .. Len(queue[s])
    BY <1>1, <1>2
  <2>2. queue[s][q] \in Items
    BY <1>1, <2>1
  <2>3. \A c \in 1 .. MaxCalls : c \in Nat
    BY MaxCallsAssumption
  <2> QED
    BY <2>1, <2>2, <2>3 DEF Items
<1>4. queue[s][q].call \notin fired'
  BY <1>2, <1>3
<1>5. CASE s # u
  <2>1. queue'[s] = queue[s]
    BY <1>5 DEF QueuesInv
  <2> QED
    BY <1>2, <1>4, <1>5, <2>1 DEF Held
<1>6. CASE s = u
  <2>1. /\ Head(queue[s]) = queue[s][1] /\ queue'[s] = Tail(queue[s])
        /\ \A j \in 1 .. Len(queue[s]) - 1 : Tail(queue[s])[j] = queue[s][j + 1]
    BY <1>1, <1>6, TailShifts DEF QueuesInv
  <2>2. q # 1
    BY <1>2, <1>6, <2>1
  <2>3. q - 1 \in 1 .. p - 1 - 1 /\ q - 1 \in 1 .. Len(queue[s]) - 1
    BY <1>1, <1>2, <1>3, <2>2
  <2>4. queue'[s][q - 1] = queue[s][q]
    <3>1. queue'[s][q - 1] = queue[s][(q - 1) + 1]
      BY <2>1, <2>3
    <3>2. (q - 1) + 1 = q
      BY <1>3
    <3> QED
      BY <3>1, <3>2
  <2> QED
    BY <1>2, <1>4, <1>6, <2>3, <2>4 DEF Held
<1> QED
  BY <1>5, <1>6

(* Appending an item to the stream of the operators keeps the order: a wait  *)
(* for an event no open kernel is behind, or anything once the stream is     *)
(* held.                                                                     *)
LEMMA AppendOrder ==
    ASSUME QueuesInv, OrderInv, NEW u \in Streams, NEW x \in Items,
           queue' = [queue EXCEPT ![u] = Append(@, x)],
           running' = running, fired' = fired, tstream' = u,
           \/ x.item # "wait" /\ tstream = u
           \/ /\ x.item = "wait"
              /\ \A i \in 1 .. MaxCalls, t \in Streams :
                   Open(i, t) => i <= x.call /\ x.call \notin fired,
           x.item = "kernel" =>
              /\ \A k \in fired : k < x.call
              /\ \A s \in Streams : running[s] <= x.call
              /\ \A s \in Streams \ {u} : \A p \in 1 .. Len(queue[s]) :
                   queue[s][p].item # "wait" => queue[s][p].call < x.call
    PROVE  OrderInv'
<1> SUFFICES ASSUME NEW i \in 1 .. MaxCalls, NEW t \in Streams, Open(i, t)'
             PROVE  /\ \A k \in fired' : k < i
                    /\ \A s \in Streams : running'[s] <= i
                    /\ \A s \in Streams \ {t} :
                         /\ \A p \in 1 .. Len(queue'[s]) :
                              queue'[s][p].item # "wait" /\ i <= queue'[s][p].call
                                => Held(s, p, i)'
                         /\ s = tstream' => Held(s, Len(queue[s]) + 1, i)'
  BY DEF OrderInv
<1>1. \A s \in Streams : /\ queue[s] \in Seq(Items) /\ Len(queue[s]) \in Nat
                         /\ s # u => queue'[s] = queue[s]
  BY DEF QueuesInv
<1>2. queue'[u] = Append(queue[u], x)
  BY DEF QueuesInv
<1>3. /\ Len(queue'[u]) = Len(queue[u]) + 1 /\ queue'[u][Len(queue[u]) + 1] = x
      /\ \A p \in 1 .. Len(queue[u]) : queue'[u][p] = queue[u][p]
  BY <1>1, <1>2, AppendKeeps
<1>4. /\ i \in Nat /\ i >= 1 /\ x.call \in Nat
      /\ \A s \in Streams : \A p \in 1 .. Len(queue[s]) : queue[s][p].call \in Nat
  <2>1. \A c \in 1 .. MaxCalls : c \in Nat /\ c >= 1
    BY MaxCallsAssumption
  <2>2. \A y \in Items : y.call \in 1 .. MaxCalls
    BY DEF Items
  <2> QED
    BY <1>1, <2>1, <2>2
<1>5. \/ Open(i, t)
      \/ t = u /\ x = Kernel(i)
  <2>1. CASE running'[t] = i
    BY <2>1 DEF Open
  <2>2. ASSUME NEW p \in 1 .. Len(queue'[t]), queue'[t][p] = Kernel(i)
        PROVE  Open(i, t) \/ (t = u /\ x = Kernel(i))
    <3>1. CASE t # u
      BY <1>1, <2>2, <3>1 DEF Open
    <3>2. CASE t = u /\ p \in 1 .. Len(queue[u])
      BY <1>3, <2>2, <3>2 DEF Open
    <3>3. CASE t = u /\ p = Len(queue[u]) + 1
      BY <1>3, <2>2, <3>3
    <3> QED
      BY <1>1, <1>3, <3>1, <3>2, <3>3
  <2> QED
    BY <2>1, <2>2 DEF Open
<1>6. CASE Open(i, t)
  <2>1. (\A k \in fired' : k < i) /\ \A s \in Streams : running'[s] <= i
    BY <1>6 DEF OrderInv
  <2>2. ASSUME NEW s \in Streams \ {t}, NEW p \in 1 .. Len(queue'[s]),
               queue'[s][p].item # "wait", i <= queue'[s][p].call
        PROVE  Held(s, p, i)'
    <3>1. CASE s # u \/ p \in 1 .. Len(queue[s])
      <4>1. p \in 1 .. Len(queue[s]) /\ queue'[s][p] = queue[s][p]
        BY <1>1, <1>3, <3>1
      <4>2. Held(s, p, i)
        BY <1>6, <2>2, <4>1 DEF OrderInv
      <4>3. p \in 1 .. Len(queue[s]) + 1
        BY <1>1, <4>1
      <4> QED
        BY <4>2, <4>3, HeldBehind
    <3>2. CASE s = u /\ p = Len(queue[u]) + 1
      <4>1. tstream = u
        BY <1>3, <2>2, <3>2
      <4>2. Held(s, p, i)
        BY <1>6, <2>2, <3>2, <4>1 DEF OrderInv
      <4>3. p \in 1 .. Len(queue[s]) + 1
        BY <1>1, <3>2
      <4> QED
        BY <4>2, <4>3, HeldBehind
    <3> QED
      BY <1>1, <1>3, <3>1, <3>2
  <2>3. ASSUME u # t PROVE Held(u, Len(queue[u]) + 1, i)'
    <3>1. CASE x.item # "wait" /\ tstream = u
      <4>1. Held(u, Len(queue[u]) + 1, i)
        BY <1>6, <2>3, <3>1 DEF OrderInv
      <4>2. Len(queue[u]) + 1 \in 1 .. Len(queue[u]) + 1
        BY <1>1
      <4> QED
        BY <4>1, <4>2, HeldBehind
    <3>2. CASE x.item = "wait" /\ x.call \notin fired /\ i <= x.call
      <4>1. Len(queue[u]) + 1 \in 1 .. (Len(queue'[u]) + 1) - 1
        BY <1>1, <1>3
      <4> QED
        BY <1>3, <3>2, <4>1 DEF Held
    <3> QED
      BY <1>6, <3>1, <3>2
  <2> QED
    BY <2>1, <2>2, <2>3
<1>7. CASE ~Open(i, t) /\ t = u /\ x = Kernel(i)
  <2>1. x.item = "kernel" /\ x.call = i
    BY <1>7 DEF Kernel
  <2>2. \A s \in Streams \ {t} : \A p \in 1 .. Len(queue'[s]) :
           queue'[s][p].item # "wait" => queue'[s][p].call < i
    BY <1>1, <1>7, <2>1
  <2>3. \A s \in Streams \ {t} : \A p \in 1 .. Len(queue'[s]) :
           ~(queue'[s][p].item # "wait" /\ i <= queue'[s][p].call)
    BY <1>1, <1>4, <1>7, <2>2
  <2> QED
    BY <1>7, <2>1, <2>3
<1> QED
  BY <1>5, <1>6, <1>7

(* Taking the first item of a stream keeps the order, when it is not a wait  *)
(* that still holds it and what begins or fires is before what is open.      *)
LEMMA PopOrder ==
    ASSUME QueuesInv, OrderInv, NEW u \in Streams, queue[u] # << >>,
           queue' = [queue EXCEPT ![u] = Tail(@)], tstream' = tstream,
           Head(queue[u]).item = "wait" => Head(queue[u]).call \in fired,
           \A i \in 1 .. MaxCalls : \A t \in Streams : Open(i, t)' =>
              /\ Open(i, t)
              /\ \A k \in fired' : k < i
              /\ \A s \in Streams : running'[s] <= i
    PROVE  OrderInv'
<1> SUFFICES ASSUME NEW i \in 1 .. MaxCalls, NEW t \in Streams, Open(i, t)',
                    NEW s \in Streams \ {t}
             PROVE  /\ \A p \in 1 .. Len(queue'[s]) :
                         queue'[s][p].item # "wait" /\ i <= queue'[s][p].call
                           => Held(s, p, i)'
                    /\ s = tstream' => Held(s, Len(queue[s]) + 1, i)'
  BY DEF OrderInv
<1>1. /\ queue[s] \in Seq(Items) /\ Len(queue[s]) \in Nat
      /\ s # u => queue'[s] = queue[s]
      /\ s = u => queue'[s] = Tail(queue[s])
  BY DEF QueuesInv
<1>2. i \in Nat /\ Open(i, t) /\ \A k \in fired' : k \in fired \/ k < i
  BY MaxCallsAssumption
<1>3. s = u => /\ Len(queue'[s]) = Len(queue[s]) - 1 /\ Len(queue[s]) >= 1
               /\ \A p \in 1 .. Len(queue[s]) - 1 : queue'[s][p] = queue[s][p + 1]
  BY <1>1, TailShifts
<1>4. \A p \in 1 .. Len(queue[s]) + 1 : Held(s, p, i) =>
         IF s = u THEN Held(s, p - 1, i)' ELSE Held(s, p, i)'
  BY <1>2, HeldShifts
<1>5. ASSUME NEW p \in 1 .. Len(queue'[s]),
             queue'[s][p].item # "wait", i <= queue'[s][p].call
      PROVE  Held(s, p, i)'
  <2>1. CASE s # u
    <3>1. p \in 1 .. Len(queue[s]) /\ p \in 1 .. Len(queue[s]) + 1
      BY <1>1, <2>1
    <3>2. Held(s, p, i)
      BY <1>1, <1>2, <1>5, <2>1, <3>1 DEF OrderInv
    <3> QED
      BY <1>4, <2>1, <3>1, <3>2
  <2>2. CASE s = u
    <3>1. /\ p + 1 \in 1 .. Len(queue[s]) /\ p + 1 \in 1 .. Len(queue[s]) + 1
          /\ queue'[s][p] = queue[s][p + 1] /\ (p + 1) - 1 = p
      BY <1>1, <1>3, <2>2
    <3>2. Held(s, p + 1, i)
      BY <1>2, <1>5, <3>1 DEF OrderInv
    <3>3. Held(s, (p + 1) - 1, i)'
      BY <1>4, <2>2, <3>1, <3>2
    <3> QED
      BY <3>1, <3>3
  <2> QED
    BY <2>1, <2>2
<1>6. ASSUME s = tstream' PROVE Held(s, Len(queue[s]) + 1, i)'
  <2>1. PICK n \in Nat : n = Len(queue[s])
    BY <1>1
  <2>2. Held(s, n + 1, i) /\ n + 1 \in 1 .. Len(queue[s]) + 1
    BY <1>2, <1>6, <2>1 DEF OrderInv
  <2>3. CASE s # u
    <3>1. Held(s, n + 1, i)' /\ n + 1 = Len(queue'[s]) + 1
      BY <1>1, <1>4, <2>1, <2>2, <2>3
    <3> QED
      BY <3>1
  <2>4. CASE s = u
    <3>1. Held(s, (n + 1) - 1, i)' /\ (n + 1) - 1 = Len(queue'[s]) + 1
      BY <1>3, <1>4, <2>1, <2>2, <2>4
    <3> QED
      BY <3>1
  <2> QED
    BY <2>3, <2>4
<1> QED
  BY <1>5, <1>6

-----------------------------------------------------------------------------
(* What the items of the streams are numbered with.                          *)
LEMMA ItemTypes ==
    ASSUME QueuesInv
    PROVE  \A s \in Streams :
             /\ queue[s] \in Seq(Items) /\ Len(queue[s]) \in Nat /\ running[s] \in Nat
             /\ \A p \in 1 .. Len(queue[s]) :
                  /\ queue[s][p] \in Items
                  /\ queue[s][p].call \in 1 .. MaxCalls /\ queue[s][p].call \in Nat
                  /\ queue[s][p].item \in {"kernel", "wait", "record"}
<1>1. \A c \in 0 .. MaxCalls : c \in Nat
  BY MaxCallsAssumption
<1>2. \A y \in Items : /\ y.call \in 1 .. MaxCalls /\ y.call \in Nat
                       /\ y.item \in {"kernel", "wait", "record"}
  BY <1>1 DEF Items
<1>3. ASSUME NEW s \in Streams
      PROVE  queue[s] \in Seq(Items) /\ running[s] \in Nat
  BY <1>1 DEF QueuesInv
<1>4. ASSUME NEW s \in Streams
      PROVE  Len(queue[s]) \in Nat /\ \A p \in 1 .. Len(queue[s]) : queue[s][p] \in Items
  BY <1>3
<1> QED
  BY <1>2, <1>3, <1>4

(* Nothing on the streams changes when the call goes on without them.        *)
LEMMA SameQueues ==
    ASSUME QueuesInv, UNCHANGED <<queue, running, fired, calls, cur, tevent>>,
           Launching => Launching'
    PROVE  QueuesInv'
BY DEF QueuesInv, RunningInv, ItemInv

(* A new item of the current call goes behind what its stream holds.         *)
LEMMA AppendQueues ==
    ASSUME QueuesInv, calls \in Nat, tevent \in Nat, cur \in Streams,
           NEW x \in Items, queue' = [queue EXCEPT ![cur] = Append(@, x)],
           UNCHANGED <<running, fired, calls, cur>>,
           Launching => Launching' \/ tevent' = calls,
           tevent' \in Nat, tevent <= tevent', x.call <= calls,
           x.item # "kernel" => x.call <= tevent',
           x.item = "kernel" => x.call = calls /\ tevent < calls /\ Launching'
    PROVE  QueuesInv'
<1>1. queue' \in [Streams -> Seq(Items)]
      /\ running' \in [Streams -> 0 .. MaxCalls]
  BY AppendKeeps DEF QueuesInv
<1>2. fired' \subseteq 1 .. tevent'
  BY DEF QueuesInv
<1>3. ASSUME NEW s \in Streams PROVE RunningInv(s)'
  BY ItemTypes DEF QueuesInv, RunningInv
<1>4. ASSUME NEW s \in Streams, NEW p \in 1 .. Len(queue'[s]) PROVE ItemInv(s, p)'
  <2>1. /\ queue[s] \in Seq(Items) /\ Len(queue[s]) \in Nat
        /\ s # cur => queue'[s] = queue[s]
        /\ s = cur => queue'[s] = Append(queue[s], x)
    BY ItemTypes DEF QueuesInv
  <2>2. s = cur => /\ Len(queue'[s]) = Len(queue[s]) + 1
                   /\ queue'[s][Len(queue[s]) + 1] = x
                   /\ \A q \in 1 .. Len(queue[s]) : queue'[s][q] = queue[s][q]
    BY <2>1, AppendKeeps
  <2>3. \A q \in 1 .. Len(queue[s]) :
           /\ queue'[s][q] = queue[s][q] /\ queue[s][q].call \in Nat
           /\ queue[s][q].item \in {"kernel", "wait", "record"} /\ ItemInv(s, q)
    BY <2>1, <2>2, ItemTypes DEF QueuesInv
  <2>4. CASE p \in 1 .. Len(queue[s])
    <3> DEFINE y == queue[s][p]
    <3>1. /\ queue'[s][p] = y /\ y.call \in Nat /\ y.call <= calls
          /\ y.item \in {"kernel", "wait", "record"}
          /\ y.item # "kernel" => y.call <= tevent
          /\ y.call > tevent => s = cur /\ y.call = calls /\ Launching
          /\ y.item # "wait" => \A q \in p + 1 .. Len(queue[s]) :
               queue[s][q].item = "kernel" =>
                 \/ y.call < queue[s][q].call
                 \/ y.item = "kernel" /\ y.call = queue[s][q].call
      BY <2>3, <2>4 DEF ItemInv
    <3> HIDE DEF y
    <3>2. ASSUME y.item # "wait", NEW q \in p + 1 .. Len(queue'[s]),
                 queue'[s][q].item = "kernel"
          PROVE  \/ y.call < queue'[s][q].call
                 \/ y.item = "kernel" /\ y.call = queue'[s][q].call
      <4>1. CASE q \in p + 1 .. Len(queue[s])
        <5>1. q \in 1 .. Len(queue[s])
          BY <2>1, <2>4, <4>1
        <5> QED
          BY <2>3, <3>1, <3>2, <4>1, <5>1
      <4>2. CASE s = cur /\ q = Len(queue[s]) + 1
        <5>1. queue'[s][q] = x
          BY <2>2, <4>2
        <5>2. x.call = calls /\ tevent < calls
          BY <3>2, <5>1
        <5> QED
          BY <3>1, <3>2, <5>1, <5>2
      <4> QED
        BY <2>1, <2>2, <2>4, <4>1, <4>2
    <3>3. /\ y.item # "kernel" => y.call <= tevent'
          /\ y.call > tevent' => s = cur /\ y.call = calls /\ Launching'
      BY <3>1
    <3> QED
      BY <3>1, <3>2, <3>3 DEF ItemInv
  <2>5. CASE s = cur /\ p = Len(queue[s]) + 1
    <3>1. queue'[s][p] = x /\ Len(queue'[s]) = p
      BY <2>2, <2>5
    <3>2. \A q \in p + 1 .. p : FALSE
      BY <2>1, <2>5
    <3>3. x.call > tevent' => x.call = calls /\ Launching'
      <4>1. x.call \in Nat /\ x.item \in {"kernel", "wait", "record"}
        BY MaxCallsAssumption DEF Items
      <4> QED
        BY <4>1
    <3> QED
      BY <2>5, <3>1, <3>2, <3>3 DEF ItemInv
  <2> QED
    BY <2>1, <2>2, <2>4, <2>5
<1> QED
  BY <1>1, <1>2, <1>3, <1>4 DEF QueuesInv

(* What is left of a stream keeps its places.                                *)
LEMMA PopQueues ==
    ASSUME QueuesInv, NEW u \in Streams, queue[u] # << >>,
           queue' = [queue EXCEPT ![u] = Tail(@)],
           UNCHANGED <<calls, cur, prog, tevent>>,
           running' \in [Streams -> 0 .. MaxCalls], fired' \subseteq 1 .. tevent,
           \A s \in Streams : RunningInv(s)'
    PROVE  QueuesInv'
<1>1. queue' \in [Streams -> Seq(Items)]
  BY TailShifts DEF QueuesInv
<1>2. ASSUME NEW s \in Streams, NEW p \in 1 .. Len(queue'[s]) PROVE ItemInv(s, p)'
  <2>1. CASE s # u
    <3>1. queue'[s] = queue[s]
      BY <2>1 DEF QueuesInv
    <3>2. ItemInv(s, p)
      BY <3>1 DEF QueuesInv
    <3> QED
      BY <3>1, <3>2 DEF ItemInv, Doing, Launching, ToDo
  <2>2. CASE s = u
    <3>1. queue[s] \in Seq(Items) /\ Len(queue[s]) \in Nat
      BY ItemTypes
    <3>2. /\ Len(queue'[s]) = Len(queue[s]) - 1
          /\ \A q \in 1 .. Len(queue[s]) - 1 : queue'[s][q] = queue[s][q + 1]
      BY <2>2, <3>1, TailShifts DEF QueuesInv
    <3>3. p + 1 \in 1 .. Len(queue[s]) /\ queue'[s][p] = queue[s][p + 1]
      BY <3>1, <3>2
    <3>4. ItemInv(s, p + 1)
      BY <3>3 DEF QueuesInv
    <3>5. \A q \in p + 1 .. Len(queue'[s]) :
             /\ q + 1 \in (p + 1) + 1 .. Len(queue[s])
             /\ queue'[s][q] = queue[s][q + 1]
      BY <3>1, <3>2
    <3> QED
      BY <3>3, <3>4, <3>5 DEF ItemInv, Doing, Launching, ToDo
  <2> QED
    BY <2>1, <2>2
<1> QED
  BY <1>1, <1>2 DEF QueuesInv

-----------------------------------------------------------------------------
(* At the beginning nothing is open and no layout is there.                  *)
LEMMA InitInv == Init => HostInv
<1> SUFFICES ASSUME Init PROVE HostInv
  OBVIOUS
<1>1. CallInv
  <2>1. prog \in Seq(Steps) /\ Len(prog) = 0
    BY DEF Init
  <2> QED
    BY <2>1, MaxCallsAssumption DEF Init, CallInv, WellFormed, ToDo, Doing
<1>2. OverflowInv
  BY DEF Init, OverflowInv, Checking
<1>3. QueuesInv
  BY MaxCallsAssumption DEF Init, QueuesInv, RunningInv
<1>4. OrderInv
  <2>1. \A s \in Streams : running[s] = 0 /\ Len(queue[s]) = 0
    BY DEF Init
  <2> QED
    BY <2>1 DEF OrderInv, Open
<1> QED
  BY <1>1, <1>2, <1>3, <1>4 DEF HostInv

(* A call begins: all that is on the streams is of earlier calls.            *)
LEMMA CallStep == ASSUME HostInv, Call PROVE HostInv'
<1> USE DEF HostInv
<1>1. /\ calls \in Nat /\ calls + 1 \in 0 .. MaxCalls /\ calls + 1 > 0
      /\ calls' = calls + 1
  BY MaxCallsAssumption DEF Call, CallInv
<1>2. PICK k \in Kinds : /\ kind' = k /\ prog' = Wrapper(k)
                         /\ layout = "none" => k \in {"plan", "plan_verify"}
  BY DEF Call
<1>3. /\ WellFormed(prog') /\ prog' # << >> /\ Len(prog') \in Nat
         /\ Len(prog') >= 1
      /\ prog'[1] = "guard"
      /\ \E i \in 1 .. Len(prog') : prog'[i] = "record"
      /\ k \in Checking => prog'[Len(prog')] = "check"
      /\ k \in {"plan", "plan_verify"} => \E i \in 1 .. Len(prog') : prog'[i] = "note"
  <2> DEFINE w == Wrapper(k)
  <2>1. /\ WellFormed(w) /\ w # << >> /\ Len(w) \in Nat /\ Len(w) >= 1
        /\ w[1] = "guard" /\ \E i \in 1 .. Len(w) : w[i] = "record"
        /\ k \in Checking => w[Len(w)] = "check"
        /\ k \in {"plan", "plan_verify"} => \E i \in 1 .. Len(w) : w[i] = "note"
    BY WrapperOK
  <2>2. prog' = w
    BY <1>2
  <2> HIDE DEF w
  <2> QED
    BY <2>1, <2>2
<1>4. Doing("guard")' /\ ToDo("record")'
  <2>1. prog' \in Seq(Steps)
    BY <1>3 DEF WellFormed
  <2> QED
    BY <1>3, <2>1 DEF Doing, ToDo
<1>5. ~Launching /\ tevent \in Nat /\ tevent <= calls
  <2>1. Len(<< >>) = 0
    OBVIOUS
  <2>2. ~ToDo("record")
    BY <2>1 DEF Call, ToDo
  <2> QED
    BY <1>1, <2>2 DEF CallInv, Launching
<1>6. CallInv'
  <2>1. tstream = NoStream => calls = 0
    BY DEF CallInv, Call, Doing
  <2>2. tevent' \in 0 .. calls' /\ tevent' < calls'
    BY <1>1, <1>5 DEF Call
  <2> QED
    BY <1>1, <1>3, <1>4, <2>1, <2>2 DEF CallInv, Call
<1>7. OverflowInv'
  <2>1. k \in {"plan", "plan_verify"} => ToDo("note")'
    BY <1>3 DEF ToDo
  <2>2. UNCHANGED <<pending, layout, raised>>
    BY DEF Call, overflow
  <2>3. k \in Checking => layout # "none" \/ ToDo("note")'
    BY <1>2, <2>1
  <2>4. /\ layout' \in {"none", "good", "bad"} /\ pending' \in {"none", layout'}
        /\ raised' \in BOOLEAN
        /\ ~raised' /\ pending' = "none" /\ layout' # "none" => layout' = "good"
    BY <2>2 DEF OverflowInv
  <2> QED
    BY <1>2, <1>3, <2>2, <2>3, <2>4 DEF OverflowInv
<1>8. QueuesInv'
  <2>1. UNCHANGED <<queue, running, fired, tevent>>
    BY DEF Call, device
  <2>2. ASSUME NEW s \in Streams PROVE RunningInv(s)'
    BY <1>1, <1>5, <2>1, ItemTypes DEF QueuesInv, RunningInv
  <2>3. ASSUME NEW s \in Streams, NEW p \in 1 .. Len(queue[s]) PROVE ItemInv(s, p)'
    <3>1. ItemInv(s, p) /\ queue[s][p].call \in Nat
      BY ItemTypes DEF QueuesInv
    <3> QED
      BY <1>1, <1>5, <2>1, <3>1 DEF ItemInv
  <2> QED
    BY <2>1, <2>2, <2>3 DEF QueuesInv
<1>9. OrderInv'
  BY DEF OrderInv, Open, Held, Call, device
<1> QED
  BY <1>6, <1>7, <1>8, <1>9

(* The guard: either nothing is open on another stream, or the new stream    *)
(* waits for the last record, and all that is open is of calls up to it.     *)
LEMMA StreamGuarded ==
    ASSUME HostInv, SyncTransportStream
    PROVE  /\ QueuesInv' /\ OrderInv' /\ prog # << >> /\ Head(prog) = "guard"
           /\ UNCHANGED <<calls, cur, tevent, overflow>> /\ tstream' = cur
<1> USE DEF HostInv
<1>1. /\ Doing("guard") /\ Head(prog) = "guard" /\ prog # << >>
      /\ UNCHANGED <<calls, cur, tevent, running, fired, overflow>>
      /\ tstream' = cur
  BY DEF SyncTransportStream, Doing
<1>2. /\ calls \in 1 .. MaxCalls /\ cur \in Streams /\ ~Launching
      /\ tevent \in 0 .. calls
  BY <1>1, MaxCallsAssumption DEF CallInv, Launching
<1>3. calls \in Nat /\ calls >= 1 /\ tevent \in Nat /\ tevent <= calls
  BY <1>2, MaxCallsAssumption
<1>4. ASSUME NEW i \in 1 .. MaxCalls, NEW t \in Streams, Open(i, t)
      PROVE  i \in Nat /\ i >= 1 /\ i <= tevent
  <2>1. i \in Nat /\ i >= 1
    BY MaxCallsAssumption
  <2>2. CASE running[t] = i
    BY <1>2, <1>3, <2>1, <2>2 DEF QueuesInv, RunningInv
  <2>3. ASSUME NEW p \in 1 .. Len(queue[t]), queue[t][p] = Kernel(i)
        PROVE  i <= tevent
    <3>1. queue[t][p].call = i
      BY <2>3 DEF Kernel
    <3> QED
      BY <1>2, <1>3, <2>1, <3>1 DEF QueuesInv, ItemInv
  <2> QED
    BY <1>4, <2>1, <2>2, <2>3 DEF Open
<1>5. CASE tstream \in {NoStream, cur} \/ tevent = 0
  <2>1. queue' = queue
    BY <1>5 DEF SyncTransportStream
  <2>2. QueuesInv'
    BY <1>1, <1>2, <2>1, SameQueues
  <2>3. CASE tstream = cur
    <3>1. UNCHANGED <<queue, running, fired, tstream>>
      BY <1>1, <2>1, <2>3
    <3>2. OrderInv'
      BY <3>1 DEF OrderInv, Open, Held
    <3> QED
      BY <1>1, <2>2, <3>2
  <2>4. CASE tstream # cur
    <3>1. tevent = 0
      <4>1. CASE tstream = NoStream
        <5>1. calls = 1 /\ ToDo("record")
          BY <1>1, <1>3, <4>1, GuardFirst DEF CallInv
        <5> QED
          BY <1>3, <5>1 DEF CallInv
      <4> QED
        BY <1>5, <2>4, <4>1
    <3>2. \A i \in 1 .. MaxCalls : \A t \in Streams : ~Open(i, t)
      BY <1>4, <3>1
    <3>3. \A i \in 1 .. MaxCalls : \A t \in Streams : Open(i, t)' => Open(i, t)
      BY <1>1, <2>1 DEF Open
    <3> QED
      BY <1>1, <2>2, <3>2, <3>3 DEF OrderInv
  <2> QED
    BY <2>3, <2>4
<1>6. CASE ~(tstream \in {NoStream, cur} \/ tevent = 0)
  <2> DEFINE x == Wait(tevent)
  <2>1. queue' = [queue EXCEPT ![cur] = Append(@, x)]
    BY <1>6 DEF SyncTransportStream, Enqueue
  <2>2. x.item = "wait" /\ x.call = tevent /\ x \in Items
    BY <1>2, <1>3, <1>6, MaxCallsAssumption DEF Wait, Items
  <2> HIDE DEF x
  <2>3. QueuesInv'
    <3>1. /\ UNCHANGED <<running, fired, calls, cur>> /\ tevent' = tevent
          /\ tevent <= tevent /\ x.call <= calls /\ x.item # "kernel"
      BY <1>1, <1>3, <2>2
    <3> QED
      BY <1>2, <1>3, <2>1, <2>2, <3>1, AppendQueues
  <2>4. ASSUME NEW i \in 1 .. MaxCalls, NEW t \in Streams, Open(i, t)
        PROVE  i <= x.call /\ x.call \notin fired
    <3>1. i <= x.call /\ i \in Nat
      BY <1>4, <2>2, <2>4
    <3>2. \A k \in fired : k < i
      BY <2>4 DEF OrderInv
    <3> QED
      BY <1>3, <2>2, <3>1, <3>2
  <2>5. OrderInv'
    BY <1>1, <1>2, <2>1, <2>2, <2>4, AppendOrder
  <2> QED
    BY <1>1, <2>3, <2>5
<1> QED
  BY <1>5, <1>6

(* An operator passes the guard, and goes on.                                *)
LEMMA GuardStep == ASSUME HostInv, Guard PROVE HostInv'
<1>1. /\ QueuesInv' /\ OrderInv' /\ prog # << >> /\ Head(prog) = "guard"
      /\ UNCHANGED <<calls, cur, tevent, overflow>> /\ tstream' = cur
      /\ prog' = Tail(prog) /\ kind' = kind
  BY StreamGuarded DEF Guard
<1>2. CallInv'
  BY <1>1, GoesOn DEF HostInv
<1>3. OverflowInv'
  BY <1>1, LayoutKept DEF HostInv
<1> QED
  BY <1>1, <1>2, <1>3 DEF HostInv

(* An operator passes the guard, and refuses.                                *)
LEMMA RefuseStep == ASSUME HostInv, Refuse PROVE HostInv'
<1>1. /\ QueuesInv' /\ OrderInv' /\ prog # << >> /\ Head(prog) = "guard"
      /\ UNCHANGED <<calls, cur, tevent, overflow>> /\ tstream' = cur
      /\ prog' = << >> /\ kind' = "none"
  BY StreamGuarded DEF Refuse
<1>2. CallInv'
  <2>1. prog' \in Seq(Steps) /\ Len(prog') = 0
    BY <1>1
  <2>2. WellFormed(prog') /\ ~ToDo("record")' /\ ~Doing("guard")'
    BY <1>1, <2>1 DEF WellFormed, ToDo, Doing
  <2>3. cur \in Streams /\ cur # NoStream
    BY <1>1, StreamsAssumption DEF HostInv, CallInv
  <2> QED
    BY <1>1, <2>2, <2>3 DEF HostInv, CallInv
<1>3. OverflowInv'
  BY <1>1 DEF HostInv, OverflowInv, overflow, Checking
<1> QED
  BY <1>1, <1>2, <1>3 DEF HostInv

(* A kernel is appended: its stream is held already by all that is open      *)
(* elsewhere.                                                                *)
LEMMA LaunchStep == ASSUME HostInv, Launch PROVE HostInv'
<1> USE DEF HostInv
<1>1. /\ ~Doing("guard") /\ Head(prog) = "launch" /\ prog # << >>
      /\ prog' = Tail(prog)
      /\ UNCHANGED <<calls, kind, cur, tstream, tevent, running, fired, overflow>>
  BY DEF Launch, Doing
<1>2. tstream = cur
  BY <1>1 DEF CallInv
<1>3. /\ CallInv' /\ ~Doing("guard")' /\ calls \in 1 .. MaxCalls
      /\ cur \in Streams
      /\ Launching' /\ tevent \in Nat /\ tevent < calls
  BY <1>1, <1>2, GoesOn
<1>4. OverflowInv'
  BY <1>1, LayoutKept
<1>5. calls \in Nat /\ calls >= 1
  BY <1>3, MaxCallsAssumption
<1> DEFINE x == Kernel(calls)
<1>6. queue' = [queue EXCEPT ![cur] = Append(@, x)]
  BY DEF Launch, Enqueue
<1>7. x.item = "kernel" /\ x.call = calls /\ x \in Items
  BY <1>3 DEF Kernel, Items
<1> HIDE DEF x
<1>8. QueuesInv'
  <2>1. /\ UNCHANGED <<running, fired, calls, cur>> /\ tevent' = tevent
        /\ tevent <= tevent /\ x.call <= calls /\ tevent < calls
    BY <1>1, <1>3, <1>5, <1>7
  <2> QED
    BY <1>3, <1>5, <1>6, <1>7, <2>1, AppendQueues
<1>9. \A k \in fired : k < x.call
  <2>1. \A k \in fired : k \in Nat /\ k <= tevent
    BY <1>3 DEF QueuesInv
  <2> QED
    BY <1>3, <1>5, <1>7, <2>1
<1>10. \A s \in Streams : running[s] <= x.call
  BY <1>7 DEF QueuesInv, RunningInv
<1>11. \A s \in Streams \ {cur} : \A p \in 1 .. Len(queue[s]) :
          queue[s][p].item # "wait" => queue[s][p].call < x.call
  <2> SUFFICES ASSUME NEW s \in Streams \ {cur}, NEW p \in 1 .. Len(queue[s])
               PROVE  queue[s][p].call < calls
    BY <1>7
  <2>1. queue[s][p].call \in Nat
    BY ItemTypes DEF QueuesInv
  <2>2. ~(queue[s][p].call > tevent)
    BY DEF QueuesInv, ItemInv
  <2> QED
    BY <1>3, <1>5, <2>1, <2>2
<1>12. OrderInv'
  BY <1>1, <1>2, <1>3, <1>6, <1>7, <1>9, <1>10, <1>11, AppendOrder
<1> QED
  BY <1>3, <1>4, <1>8, <1>12

(* The event is recorded behind the kernels of the call.                     *)
LEMMA RecordStep == ASSUME HostInv, RecordTransportEvent PROVE HostInv'
<1> USE DEF HostInv
<1>1. /\ ~Doing("guard") /\ Head(prog) = "record" /\ prog # << >>
      /\ prog' = Tail(prog)
      /\ UNCHANGED <<calls, kind, cur, tstream, running, fired, overflow>>
      /\ tevent' = calls
  BY DEF RecordTransportEvent, Doing
<1>2. tstream = cur
  BY <1>1 DEF CallInv
<1>3. /\ CallInv' /\ ~Doing("guard")' /\ calls \in 1 .. MaxCalls
      /\ cur \in Streams
      /\ tevent \in Nat
  BY <1>1, <1>2, GoesOn
<1>4. OverflowInv'
  BY <1>1, LayoutKept
<1>5. calls \in Nat /\ calls >= 1 /\ tevent <= calls
  BY <1>3, MaxCallsAssumption DEF CallInv
<1> DEFINE x == Record(calls)
<1>6. queue' = [queue EXCEPT ![cur] = Append(@, x)]
  BY DEF RecordTransportEvent, Enqueue
<1>7. x.item = "record" /\ x.call = calls /\ x \in Items
  BY <1>3 DEF Record, Items
<1> HIDE DEF x
<1>8. QueuesInv'
  <2>1. /\ UNCHANGED <<running, fired, calls, cur>> /\ tevent' \in Nat
        /\ tevent <= tevent' /\ x.call <= calls /\ x.call <= tevent'
        /\ tevent' = calls
    BY <1>1, <1>5, <1>7
  <2> QED
    BY <1>3, <1>5, <1>6, <1>7, <2>1, AppendQueues
<1>9. OrderInv'
  BY <1>1, <1>2, <1>3, <1>6, <1>7, AppendOrder
<1> QED
  BY <1>3, <1>4, <1>8, <1>9

(* The host waits for its stream, notes the layout of a plan or looks at it. *)
LEMMA OtherHostStep ==
    ASSUME HostInv, Synchronize \/ NotePending \/ CheckPendingOverflow
    PROVE  HostInv'
<1> USE DEF HostInv
<1>1. /\ Head(prog) \in {"synchronize", "note", "check"}
      /\ ~Doing("guard") /\ prog # << >> /\ prog' = Tail(prog)
      /\ UNCHANGED <<calls, kind, cur, tstream, tevent, queue, running, fired>>
  BY DEF Synchronize, NotePending, CheckPendingOverflow, Doing, device
<1>2. tstream = cur
  BY <1>1 DEF CallInv
<1>3. CallInv' /\ (Launching => Launching')
  BY <1>1, <1>2, GoesOn
<1>4. QueuesInv'
  BY <1>1, <1>3, SameQueues
<1>5. OrderInv'
  BY <1>1 DEF OrderInv, Open, Held
<1>6. WellFormed(prog)
  BY DEF CallInv
<1>7. /\ Tail(prog) # << >> => Tail(prog)[Len(Tail(prog))] = prog[Len(prog)]
      /\ Tail(prog) = << >> => prog[Len(prog)] = Head(prog)
      /\ Head(prog) # "note" /\ ToDo("note") => ToDo("note")'
  BY <1>1, <1>6, AfterStep DEF ToDo
<1>8. OverflowInv'
  <2>1. CASE Synchronize
    <3>1. Head(prog) = "synchronize" /\ UNCHANGED overflow /\ kind' = kind
      BY <2>1 DEF Synchronize, Doing
    <3> QED
      BY <1>1, <3>1, LayoutKept
  <2>2. CASE NotePending
    <3>1. /\ Head(prog) = "note" /\ layout' \in {"good", "bad"}
             /\ pending' = layout'
          /\ raised' = FALSE /\ kind' = kind
      BY <2>2 DEF NotePending, Doing
    <3> QED
      BY <1>1, <1>7, <3>1 DEF OverflowInv
  <2>3. CASE CheckPendingOverflow
    <3>1. /\ Head(prog) = "check" /\ pending' = "none" /\ kind' = kind
          /\ raised' = (raised \/ pending = "bad") /\ layout' = layout
      BY <2>3 DEF CheckPendingOverflow, Doing
    <3>2. raised' \in BOOLEAN /\ (~raised' => ~raised /\ pending # "bad")
      BY <3>1 DEF OverflowInv
    <3>3. ~raised' /\ layout' # "none" => layout' = "good"
      BY <3>1, <3>2 DEF OverflowInv
    <3>4. /\ layout' \in {"none", "good", "bad"}
             /\ pending' \in {"none", layout'}
      BY <3>1 DEF OverflowInv
    <3>5. kind' \in Checking =>
            /\ prog' # << >> => prog'[Len(prog')] = "check"
            /\ layout' # "none" \/ ToDo("note")'
      BY <1>1, <1>7, <3>1 DEF OverflowInv
    <3> QED
      BY <3>1, <3>2, <3>3, <3>4, <3>5 DEF OverflowInv
  <2> QED
    BY <2>1, <2>2, <2>3
<1> QED
  BY <1>3, <1>4, <1>5, <1>8

-----------------------------------------------------------------------------
(* What the device does leaves the call and the layout alone.                *)
LEMMA DeviceFrame ==
    ASSUME CallInv, OverflowInv,
           UNCHANGED <<calls, kind, cur, prog, tstream, tevent, overflow>>
    PROVE  CallInv' /\ OverflowInv' /\ calls \in Nat
BY MaxCallsAssumption DEF CallInv, OverflowInv, overflow, ToDo, Doing

(* A kernel begins: what is open elsewhere is of the same call or a later    *)
(* one, or its stream would be held.                                         *)
LEMMA BeginStep ==
    ASSUME HostInv, NEW s \in Streams, KernelBegin(s) PROVE HostInv'
<1> USE DEF HostInv
<1>1. /\ running[s] = 0 /\ queue[s] # << >> /\ Head(queue[s]).item = "kernel"
      /\ running' = [running EXCEPT ![s] = Head(queue[s]).call]
      /\ queue' = [queue EXCEPT ![s] = Tail(@)]
      /\ UNCHANGED <<calls, kind, cur, prog, tstream, tevent, fired, overflow>>
  BY DEF KernelBegin
<1>2. CallInv' /\ OverflowInv' /\ calls \in Nat
  BY <1>1, DeviceFrame
<1> DEFINE x == queue[s][1]
<1>3. /\ queue[s] \in Seq(Items) /\ Len(queue[s]) \in Nat /\ Len(queue[s]) >= 1
      /\ Head(queue[s]) = x /\ queue'[s] = Tail(queue[s])
      /\ Len(queue'[s]) = Len(queue[s]) - 1
      /\ \A p \in 1 .. Len(queue[s]) - 1 : queue'[s][p] = queue[s][p + 1]
  BY <1>1, ItemTypes, TailShifts DEF QueuesInv
<1>4. /\ x.item = "kernel" /\ x.call \in 1 .. MaxCalls /\ x.call \in Nat
      /\ ItemInv(s, 1)
  BY <1>1, <1>3, ItemTypes DEF QueuesInv
<1> HIDE DEF x
<1>5. /\ running'[s] = x.call
      /\ \A r \in Streams : running[r] \in Nat /\ (r # s => running'[r] = running[r])
  BY <1>1, <1>3, ItemTypes DEF QueuesInv
<1>6. QueuesInv'
  <2>1. running' \in [Streams -> 0 .. MaxCalls]
    BY <1>1, <1>3, <1>4, MaxCallsAssumption DEF QueuesInv
  <2>2. ASSUME NEW r \in Streams PROVE RunningInv(r)'
    <3>1. CASE r = s
      BY <1>1, <1>4, <1>5, <3>1 DEF ItemInv, RunningInv, Doing, Launching, ToDo, x
    <3>2. CASE r # s
      BY <1>1, <1>5, <3>2 DEF QueuesInv, RunningInv, Doing, Launching, ToDo
    <3> QED
      BY <3>1, <3>2
  <2>3. fired' \subseteq 1 .. tevent
    BY <1>1 DEF QueuesInv
  <2> QED
    BY <1>1, <2>1, <2>2, <2>3, PopQueues
<1>7. ASSUME NEW i \in 1 .. MaxCalls, NEW t \in Streams, Open(i, t)'
      PROVE  /\ Open(i, t)
             /\ \A k \in fired' : k < i
             /\ \A r \in Streams : running'[r] <= i
  <2>1. i \in Nat /\ i >= 1
    BY MaxCallsAssumption
  <2>2. CASE t # s
    <3>1. Open(i, t)
      BY <1>1, <1>5, <1>7, <2>2 DEF Open, QueuesInv
    <3>2. x.call < i
      <4>1. ASSUME i <= x.call PROVE FALSE
        <5>1. 1 \in 1 .. Len(queue[s]) /\ queue[s][1].item # "wait"
          BY <1>3, <1>4 DEF x
        <5>2. Held(s, 1, i)
          BY <2>2, <3>1, <4>1, <5>1 DEF OrderInv, x
        <5> QED
          BY <5>2 DEF Held
      <4> QED
        BY <1>4, <2>1, <4>1
    <3> QED
      BY <1>1, <1>4, <1>5, <2>1, <3>1, <3>2 DEF OrderInv
  <2>3. CASE t = s
    <3>1. x = Kernel(x.call)
      <4>1. x \in Items
        BY <1>3 DEF x
      <4> QED
        BY <1>4, <4>1 DEF Kernel, Items
    <3>2. CASE running'[t] = i
      <4>1. Open(i, t)
        BY <1>3, <1>5, <2>3, <3>1, <3>2 DEF Open, x
      <4> QED
        BY <1>1, <1>4, <1>5, <2>1, <3>2, <2>3, <4>1 DEF OrderInv
    <3>3. ASSUME NEW p \in 1 .. Len(queue'[t]), queue'[t][p] = Kernel(i)
          PROVE  Open(i, t) /\ x.call <= i
      <4>1. p + 1 \in 1 + 1 .. Len(queue[t]) /\ p + 1 \in 1 .. Len(queue[t])
            /\ queue[t][p + 1] = Kernel(i)
        <5>1. p \in 1 .. Len(queue[s]) - 1
          BY <1>3, <2>3
        <5>2. queue[s][p + 1] = Kernel(i)
          BY <1>3, <2>3, <3>3, <5>1
        <5> QED
          BY <1>3, <2>3, <5>1, <5>2
      <4>2. Kernel(i).item = "kernel" /\ Kernel(i).call = i
        BY DEF Kernel
      <4>3. x.call < i \/ x.call = i
        BY <1>4, <2>3, <4>1, <4>2 DEF ItemInv, x
      <4> QED
        BY <1>4, <2>1, <4>1, <4>3 DEF Open
    <3>4. CASE \E p \in 1 .. Len(queue'[t]) : queue'[t][p] = Kernel(i)
      BY <1>1, <1>4, <1>5, <2>1, <2>3, <3>3, <3>4 DEF OrderInv
    <3> QED
      BY <1>7, <3>2, <3>4 DEF Open
  <2> QED
    BY <2>2, <2>3
<1>8. OrderInv'
  BY <1>1, <1>7, PopOrder
<1> QED
  BY <1>2, <1>6, <1>8

(* A kernel ends.                                                            *)
LEMMA EndStep ==
    ASSUME HostInv, NEW s \in Streams, KernelEnd(s) PROVE HostInv'
<1> USE DEF HostInv
<1>1. /\ running[s] # 0 /\ running' = [running EXCEPT ![s] = 0]
      /\ UNCHANGED <<calls, kind, cur, prog, tstream, tevent, queue, fired, overflow>>
  BY DEF KernelEnd
<1>2. CallInv' /\ OverflowInv' /\ calls \in Nat
  BY <1>1, DeviceFrame
<1>3. /\ running'[s] = 0
      /\ \A r \in Streams : running[r] \in Nat /\ (r # s => running'[r] = running[r])
  BY <1>1, ItemTypes DEF QueuesInv
<1>4. QueuesInv'
  <2>1. running' \in [Streams -> 0 .. MaxCalls]
    BY <1>1, MaxCallsAssumption DEF QueuesInv
  <2>2. ASSUME NEW r \in Streams PROVE RunningInv(r)'
    <3>1. RunningInv(r) /\ (Launching => Launching')
      BY <1>1 DEF QueuesInv, Doing, Launching, ToDo
    <3>2. calls' = calls /\ tevent' = tevent /\ cur' = cur /\ tevent \in Nat
      BY <1>1, <1>2, MaxCallsAssumption DEF CallInv
    <3> QED
      BY <1>2, <1>3, <3>1, <3>2 DEF RunningInv
  <2>3. ASSUME NEW r \in Streams, NEW p \in 1 .. Len(queue[r]) PROVE ItemInv(r, p)'
    BY <1>1 DEF QueuesInv, ItemInv, Doing, Launching, ToDo
  <2> QED
    BY <1>1, <2>1, <2>2, <2>3 DEF QueuesInv
<1>5. OrderInv'
  <2> SUFFICES ASSUME NEW i \in 1 .. MaxCalls, NEW t \in Streams, Open(i, t)'
               PROVE  Open(i, t) /\ \A r \in Streams : running'[r] <= i
    BY <1>1 DEF OrderInv, Held
  <2>1. i \in Nat /\ i >= 1
    BY MaxCallsAssumption
  <2>2. Open(i, t)
    BY <1>1, <1>3, <2>1 DEF Open
  <2> QED
    BY <1>3, <2>1, <2>2 DEF OrderInv
<1> QED
  BY <1>2, <1>4, <1>5

(* A stream passes an event: a record only behind all earlier kernels.       *)
LEMMA PassStep ==
    ASSUME HostInv, NEW s \in Streams, PassEvent(s) PROVE HostInv'
<1> USE DEF HostInv
<1> DEFINE x == queue[s][1]
<1>1. /\ running[s] = 0 /\ queue[s] # << >>
      /\ queue' = [queue EXCEPT ![s] = Tail(@)]
      /\ UNCHANGED <<calls, kind, cur, prog, tstream, tevent, running, overflow>>
  BY DEF PassEvent
<1>2. CallInv' /\ OverflowInv' /\ calls \in Nat
  BY <1>1, DeviceFrame
<1>3. /\ queue[s] \in Seq(Items) /\ Len(queue[s]) \in Nat /\ Len(queue[s]) >= 1
      /\ Head(queue[s]) = x /\ queue'[s] = Tail(queue[s])
      /\ Len(queue'[s]) = Len(queue[s]) - 1
      /\ \A p \in 1 .. Len(queue[s]) - 1 : queue'[s][p] = queue[s][p + 1]
  BY <1>1, ItemTypes, TailShifts DEF QueuesInv
<1>4. \/ x.item = "record" /\ fired' = fired \cup {x.call}
      \/ x.item = "wait" /\ x.call \in fired /\ fired' = fired
  BY <1>3 DEF PassEvent
<1>5. x.call \in 1 .. MaxCalls /\ x.call \in Nat /\ x.call >= 1 /\ ItemInv(s, 1)
  BY <1>3, ItemTypes, MaxCallsAssumption DEF QueuesInv
<1>6. x.item = "record" => x.call <= tevent /\ tevent \in Nat
  BY <1>2, <1>5 DEF ItemInv, CallInv
<1>7. QueuesInv'
  <2>1. running' \in [Streams -> 0 .. MaxCalls]
    BY <1>1 DEF QueuesInv
  <2>2. fired' \subseteq 1 .. tevent
    <3>1. x.item = "record" => x.call \in 1 .. tevent
      BY <1>5, <1>6
    <3>2. fired \subseteq 1 .. tevent
      BY DEF QueuesInv
    <3> HIDE DEF x
    <3> QED
      BY <1>4, <3>1, <3>2
  <2>3. \A r \in Streams : RunningInv(r)'
    BY <1>1 DEF QueuesInv, RunningInv, Doing, Launching, ToDo
  <2> QED
    BY <1>1, <2>1, <2>2, <2>3, PopQueues
<1> HIDE DEF x
<1>8. ASSUME NEW i \in 1 .. MaxCalls, NEW t \in Streams, Open(i, t)'
      PROVE  /\ Open(i, t)
             /\ \A k \in fired' : k < i
             /\ \A r \in Streams : running'[r] <= i
  <2>1. i \in Nat /\ i >= 1
    BY MaxCallsAssumption
  <2>2. CASE t # s
    <3>1. Open(i, t)
      BY <1>1, <1>8, <2>2 DEF Open, QueuesInv
    <3>2. x.item = "record" => x.call < i
      <4>1. ASSUME x.item = "record", i <= x.call PROVE FALSE
        <5>1. 1 \in 1 .. Len(queue[s]) /\ queue[s][1].item # "wait"
          BY <1>3, <4>1 DEF x
        <5>2. Held(s, 1, i)
          BY <2>2, <3>1, <4>1, <5>1 DEF OrderInv, x
        <5> QED
          BY <5>2 DEF Held
      <4> QED
        BY <1>5, <2>1, <4>1
    <3> QED
      BY <1>1, <1>4, <3>1, <3>2 DEF OrderInv
  <2>3. CASE t = s
    <3>1. running'[t] # i
      BY <1>1, <2>1, <2>3
    <3>2. PICK p \in 1 .. Len(queue'[t]) : queue'[t][p] = Kernel(i)
      BY <1>8, <3>1 DEF Open
    <3>3. /\ p + 1 \in 1 + 1 .. Len(queue[t]) /\ p + 1 \in 1 .. Len(queue[t])
          /\ queue[t][p + 1] = Kernel(i)
      <4>1. p \in 1 .. Len(queue[s]) - 1
        BY <1>3, <2>3
      <4>2. queue[s][p + 1] = Kernel(i)
        BY <1>3, <2>3, <3>2, <4>1
      <4> QED
        BY <1>3, <2>3, <4>1, <4>2
    <3>4. Open(i, t)
      BY <3>3 DEF Open
    <3>5. Kernel(i).item = "kernel" /\ Kernel(i).call = i
      BY DEF Kernel
    <3>6. x.item = "record" => x.call < i
      BY <1>5, <2>3, <3>3, <3>5 DEF ItemInv, x
    <3> QED
      BY <1>1, <1>4, <3>4, <3>6 DEF OrderInv
  <2> QED
    BY <2>2, <2>3
<1>9. OrderInv'
  <2>1. Head(queue[s]).item = "wait" => Head(queue[s]).call \in fired
    BY <1>3, <1>4
  <2> QED
    BY <1>1, <1>8, <2>1, PopOrder
<1> QED
  BY <1>2, <1>7, <1>9

-----------------------------------------------------------------------------
(* Every step of the host and of the device keeps the invariant.             *)
LEMMA StepInv == HostInv /\ [Next]_vars => HostInv'
<1> SUFFICES ASSUME HostInv, [Next]_vars PROVE HostInv'
  OBVIOUS
<1>1. CASE Host
  BY <1>1, CallStep, GuardStep, RefuseStep, LaunchStep, RecordStep, OtherHostStep DEF Host
<1>2. CASE \E s \in Streams : KernelBegin(s) \/ KernelEnd(s) \/ PassEvent(s)
  BY <1>2, BeginStep, EndStep, PassStep
<1>3. CASE UNCHANGED vars
  <2>1. UNCHANGED <<calls, kind, cur, prog, tstream, tevent, queue, running, fired,
                    pending, layout, raised>>
    BY <1>3 DEF vars
  <2>2. CallInv' /\ OverflowInv'
    BY <2>1, DeviceFrame DEF HostInv, overflow
  <2>3. QueuesInv'
    BY <2>1 DEF HostInv, QueuesInv, RunningInv, ItemInv, Doing, Launching, ToDo
  <2>4. OrderInv'
    BY <2>1 DEF HostInv, OrderInv, Open, Held
  <2> QED
    BY <2>2, <2>3, <2>4 DEF HostInv
<1> QED
  BY <1>1, <1>2, <1>3 DEF Next, Finished

(* The invariant holds in every state of the host and the device.            *)
LEMMA HostInvariant == Spec => []HostInv
<1> QED
  BY InitInv, StepInv, PTL DEF Spec

(* While a kernel runs, no kernel of an earlier call is still to end, for    *)
(* any streams, any number of calls and any mix of operators: the guard      *)
(* makes every stream wait for the last record of the operators before it.   *)
THEOREM KernelsInOrder == Spec => []CallOrder
<1>1. ASSUME HostInv PROVE CallOrder
  <2> SUFFICES ASSUME NEW s \in Streams, NEW i \in 1 .. MaxCalls, i < running[s],
                      Unfinished(i)
               PROVE  FALSE
    BY DEF CallOrder
  <2>1. PICK t \in Streams : Open(i, t)
    BY DEF Unfinished, Open
  <2>2. running[s] <= i
    BY <1>1, <2>1 DEF HostInv, OrderInv
  <2>3. running[s] \in Nat /\ i \in Nat
    BY <1>1, ItemTypes, MaxCallsAssumption DEF HostInv
  <2> QED
    BY <2>2, <2>3
<1> QED
  BY <1>1, HostInvariant, PTL

(* An operator that looks at the pending layout before it returns vouches    *)
(* for the layout of the last plan, however many operators that do not look  *)
(* were called in between.                                                   *)
THEOREM CheckedLayoutGood == Spec => []LayoutVouchedFor
<1>1. ASSUME HostInv PROVE LayoutVouchedFor
  <2>1. ASSUME prog = << >>, kind \in Checking, ~raised PROVE layout = "good"
    <3>1. Len(<< >>) = 0
      OBVIOUS
    <3>2. ~ToDo("note")
      BY <2>1, <3>1 DEF ToDo
    <3>3. pending = "none" /\ layout # "none"
      BY <1>1, <2>1, <3>2 DEF HostInv, OverflowInv
    <3> QED
      BY <1>1, <2>1, <3>3 DEF HostInv, OverflowInv
  <2> QED
    BY <2>1 DEF LayoutVouchedFor
<1> QED
  BY <1>1, HostInvariant, PTL

-----------------------------------------------------------------------------
(* The constants are numbers.                                                *)
LEMMA Sizes ==
    /\ Base \in Nat /\ LayoutTail \in Nat /\ HeapSize \in Nat /\ Rows \in Nat
    /\ ViewBytes \in Nat
    /\ GroupCounts \subseteq Nat \ {0} /\ SlotCounts \subseteq Nat \ {0}
    /\ ElemBytes \subseteq Nat
BY BaseAssumption, RowsAssumption, CountsAssumption, ElemAssumption DEF ViewBytes

(* Products of numbers, and the order they keep.                             *)
LEMMA Products ==
    ASSUME NEW a \in Nat, NEW b \in Nat
    PROVE  a * b \in Nat
BY Z3

LEMMA Grows ==
    ASSUME NEW a \in Int, NEW b \in Int, NEW k \in Nat, a < b
    PROVE  a * k + k <= b * k
<1>1. (a + 1) * k = a * k + k
  BY Z3
<1>2. (b - (a + 1)) * k = b * k - (a + 1) * k
  BY Z3
<1>3. (b - (a + 1)) * k \in Nat
  BY Products
<1>4. a * k \in Int /\ b * k \in Int /\ (a + 1) * k \in Int
  BY Z3
<1> QED
  BY <1>1, <1>2, <1>3, <1>4

(* A group of a slot is one of the views of the window.                      *)
LEMMA ViewNumber ==
    ASSUME NEW gs \in Nat \ {0}, NEW g \in 0 .. gs - 1,
           NEW ss \in Nat \ {0}, NEW s \in 0 .. ss - 1
    PROVE  s * gs + g \in 0 .. ss * gs - 1
<1>1. s * gs + gs <= ss * gs
  BY Grows
<1>2. s * gs \in Nat /\ ss * gs \in Nat
  BY Products
<1> QED
  BY <1>1, <1>2

(* The base of the gradient slots is the end of the last weight view.        *)
LEMMA BaseOfSlots ==
    ASSUME NEW gs \in Nat, NEW ss \in Nat
    PROVE  /\ ss * gs \in Nat
           /\ ReduceStgOff(gs, ss) = Base + (ss * gs) * ViewBytes
           /\ ReduceStgOff(gs, ss) \in Nat
<1>1. ss * gs \in Nat
  BY Products
<1>2. ASSUME NEW x \in Nat PROVE x * 2 * Rows * 2 = x * (2 * Rows * 2)
  BY Sizes, Z3
<1>3. ReduceStgOff(gs, ss) = Base + (ss * gs) * ViewBytes
  BY <1>1, <1>2 DEF ReduceStgOff, ViewBytes
<1>4. (ss * gs) * ViewBytes \in Nat
  BY <1>1, Sizes, Products
<1> QED
  BY <1>1, <1>3, <1>4, Sizes

(* Gradient slots begin behind the base and end before what was asked for.   *)
LEMMA SlotInside ==
    ASSUME NEW gs \in Nat \ {0}, NEW g \in 0 .. gs - 1, NEW ss \in Nat,
           NEW eb \in ElemBytes
    PROVE  /\ GradOff(g, gs, ss, eb) \in Nat /\ Rows * eb \in Nat
           /\ ReduceStgOff(gs, ss) <= GradOff(g, gs, ss, eb)
           /\ GradOff(g, gs, ss, eb) + Rows * eb <= Need(gs, ss, eb)
<1>1. ReduceStgOff(gs, ss) \in Nat
  BY BaseOfSlots
<1>2. eb \in Nat /\ Rows \in Nat /\ LayoutTail \in Nat
  BY Sizes
<1>3. Rows * eb \in Nat
  BY <1>2, Products
<1>4. g * (Rows * eb) \in Nat /\ gs * (Rows * eb) \in Nat
  BY <1>3, Products
<1>5. g * (Rows * eb) + Rows * eb <= gs * (Rows * eb)
  BY <1>3, Grows
<1>6. g * Rows * eb = g * (Rows * eb) /\ gs * Rows * eb = gs * (Rows * eb)
  BY <1>2, Z3
<1> QED
  BY <1>1, <1>2, <1>3, <1>4, <1>5, <1>6 DEF GradOff, Need

(* The bytes asked for are a number.                                         *)
LEMMA NeedIsNumber ==
    ASSUME NEW gs \in GroupCounts, NEW ss \in Nat, NEW eb \in ElemBytes
    PROVE  Need(gs, ss, eb) \in Nat
<1>1. gs \in Nat /\ Rows \in Nat /\ eb \in Nat /\ LayoutTail \in Nat
  BY Sizes
<1>2. ReduceStgOff(gs, ss) \in Nat
  BY <1>1, BaseOfSlots
<1>3. gs * Rows * eb \in Nat
  BY <1>1, Products
<1> QED
  BY <1>1, <1>2, <1>3 DEF Need

(* Views of different numbers do not meet.                                   *)
LEMMA WeightViewsApart ==
    ASSUME NEW i \in Nat, NEW j \in Nat, i # j
    PROVE  Disjoint([start |-> Base + i * ViewBytes, len |-> ViewBytes],
                    [start |-> Base + j * ViewBytes, len |-> ViewBytes])
<1>1. ViewBytes \in Nat /\ Base \in Nat
  BY Sizes
<1>2. i * ViewBytes \in Nat /\ j * ViewBytes \in Nat
  BY <1>1, Products
<1>3. i < j \/ j < i
  OBVIOUS
<1>4. i * ViewBytes + ViewBytes <= j * ViewBytes
        \/ j * ViewBytes + ViewBytes <= i * ViewBytes
  BY <1>1, <1>3, Grows
<1> QED
  BY <1>1, <1>2, <1>4 DEF Disjoint

-----------------------------------------------------------------------------
(* A weight view is created in a window whose slots do not change any more.  *)
LEMMA WeightKeeps ==
    ASSUME OneLayout, HeapInv, NEW gs \in GroupCounts, NEW g \in 0 .. gs - 1,
           NEW ss \in SlotCounts, NEW s \in 0 .. ss - 1,
           CreateWeightView(g, gs, s, ss)
    PROVE  HeapInv'
<1>1. gs \in Nat \ {0} /\ ss \in Nat \ {0}
  BY Sizes
<1>2. slots # {} => window_slots = ss
  BY DEF CreateWeightView, OneLayout
<1>3. weights # {} => window_slots = ss
  BY DEF CreateWeightView, HeapInv, WeightsInv
<1>4. window_slots' = ss /\ ss # None /\ slots' = slots /\ sources' = sources
  BY <1>1 DEF CreateWeightView, None
<1>5. ASSUME NEW v \in weights'
      PROVE  \E n \in GroupCounts : \E i \in 0 .. window_slots' * n - 1 :
               /\ v = [start |-> Base + i * ViewBytes, len |-> ViewBytes]
               /\ window_slots' # None /\ ReduceStgOff(n, window_slots') <= HeapSize
  <2>1. CASE v \in weights
    BY <2>1, <1>3, <1>4 DEF HeapInv, WeightsInv
  <2>2. CASE v \notin weights
    <3>1. /\ v = [start |-> WeightOff(g, gs, s), len |-> 2 * Rows * 2]
          /\ ~(ReduceStgOff(gs, ss) > HeapSize)
      BY <2>2, <1>5 DEF CreateWeightView
    <3>2. s * gs + g \in 0 .. ss * gs - 1
      BY <1>1, ViewNumber
    <3>3. ReduceStgOff(gs, ss) <= HeapSize
      BY <3>1, <1>1, BaseOfSlots, Sizes
    <3>4. v = [start |-> Base + (s * gs + g) * ViewBytes, len |-> ViewBytes]
      BY <3>1 DEF WeightOff, ViewBytes
    <3> QED
      BY <3>2, <3>3, <3>4, <1>4
  <2> QED
    BY <2>1, <2>2
<1>6. ASSUME NEW v \in slots' PROVE window_slots' = window_slots /\ v \in slots
  BY <1>2, <1>4, <1>6
<1>7. SlotsInv'
  BY <1>6 DEF SlotsInv, HeapInv
<1> QED
  BY <1>4, <1>5, <1>7 DEF HeapInv, WeightsInv, ReadsWhatWasWritten

(* A gradient slot is laid out for the slots of the window.                  *)
LEMMA SlotKeeps ==
    ASSUME OneLayout, HeapInv, NEW gs \in GroupCounts, NEW g \in 0 .. gs - 1,
           NEW arg \in GradSlotArgs, NEW eb \in ElemBytes,
           CreateGradSlotView(g, gs, arg, eb)
    PROVE  HeapInv'
<1> DEFINE ss == OrOne(window_slots)
<1>1. arg = None
  BY DEF OneLayout
<1>2. window_slots' = window_slots /\ weights' = weights /\ sources' = sources
  BY DEF CreateGradSlotView
<1>3. /\ slots \subseteq slots'
      /\ \A v \in slots' \ slots :
           /\ v = [start |-> GradOff(g, gs, ss, eb), len |-> Rows * eb,
                   group |-> g, groups |-> gs, elem |-> eb]
           /\ ~(Need(gs, ss, eb) > HeapSize)
  BY <1>1 DEF CreateGradSlotView
<1>4. Need(gs, ss, eb) \in Nat
  <2>1. ss \in Nat
    BY Sizes DEF HeapInv, None, OrOne
  <2> QED
    BY <2>1, NeedIsNumber
<1>5. SlotsInv'
  <2> SUFFICES ASSUME NEW v \in slots'
               PROVE  \E n \in GroupCounts : \E h \in 0 .. n - 1 : \E e \in ElemBytes :
                        /\ v = [start |-> GradOff(h, n, ss, e), len |-> Rows * e,
                                group |-> h, groups |-> n, elem |-> e]
                        /\ Need(n, ss, e) <= HeapSize
    BY <1>2 DEF SlotsInv, OrOne
  <2>1. CASE v \in slots
    BY <2>1 DEF HeapInv, SlotsInv
  <2>2. CASE v \notin slots
    BY <2>2, <1>3, <1>4, Sizes
  <2> QED
    BY <2>1, <2>2
<1> QED
  BY <1>2, <1>3, <1>5 DEF HeapInv, WeightsInv, ReadsWhatWasWritten

(* reduce_grad computes the base that the slots were laid out from.          *)
LEMMA ReduceKeeps ==
    ASSUME HeapInv, NEW gs \in GroupCounts, NEW eb \in ElemBytes, ReduceGradSources(gs, eb)
    PROVE  HeapInv'
<1>1. ASSUME NEW g \in 0 .. gs - 1
      PROVE  [start |-> GradOff(g, gs, ReduceSlots, eb), len |-> Rows * eb,
              group |-> g, groups |-> gs, elem |-> eb] \in slots
  <2>1. PICK v \in slots : v.group = g /\ v.groups = gs /\ v.elem = eb
    BY <1>1 DEF ReduceGradSources, Holds
  <2>2. PICK n \in GroupCounts : \E h \in 0 .. n - 1 : \E e \in ElemBytes :
          v = [start |-> GradOff(h, n, OrOne(window_slots), e), len |-> Rows * e,
               group |-> h, groups |-> n, elem |-> e]
    BY DEF HeapInv, SlotsInv
  <2>3. PICK h \in 0 .. n - 1, e \in ElemBytes :
          v = [start |-> GradOff(h, n, OrOne(window_slots), e), len |-> Rows * e,
               group |-> h, groups |-> n, elem |-> e]
    BY <2>2
  <2>4. h = g /\ n = gs /\ e = eb
    BY <2>1, <2>3
  <2> QED
    BY <2>3, <2>4 DEF ReduceSlots
<1>2. sources' \subseteq slots
  BY <1>1 DEF ReduceGradSources
<1> QED
  BY <1>2 DEF ReduceGradSources, HeapInv, WeightsInv, SlotsInv, ReadsWhatWasWritten

(* The invariant holds of every sequence of calls.                           *)
LEMMA HeapInvariant == ASSUME OneLayout PROVE HeapSpec => []HeapInv
<1>1. HeapInit => HeapInv
  BY DEF HeapInit, HeapInv, WeightsInv, SlotsInv, ReadsWhatWasWritten
<1>2. ASSUME HeapInv, [HeapNext]_heapVars PROVE HeapInv'
  <2>1. CASE HeapNext
    BY <1>2, <2>1, WeightKeeps, SlotKeeps, ReduceKeeps DEF HeapNext
  <2>2. CASE UNCHANGED heapVars
    BY <1>2, <2>2 DEF heapVars, HeapInv, WeightsInv, SlotsInv, ReadsWhatWasWritten
  <2> QED
    BY <1>2, <2>1, <2>2
<1> QED
  BY <1>1, <1>2, PTL DEF HeapSpec

-----------------------------------------------------------------------------
(* What a caller that keeps to one layout may rely on: no view of the        *)
(* weights shares a byte with another or with a gradient slot, in whatever   *)
(* order create_weight_view and create_grad_slot_view are called.            *)
THEOREM NoViewOverlaps == ASSUME OneLayout PROVE HeapSpec => []ViewsApart
<1>1. HeapInv => ViewsApart
  <2> SUFFICES ASSUME HeapInv PROVE ViewsApart
    OBVIOUS
  <2>1. window_slots \in Nat
    BY Sizes DEF HeapInv, None
  <2>2. ASSUME NEW v \in weights
        PROVE  \E n \in GroupCounts : \E i \in 0 .. window_slots * n - 1 :
                 /\ v = [start |-> Base + i * ViewBytes, len |-> ViewBytes]
                 /\ i \in Nat /\ window_slots # None
    <3>1. PICK n \in GroupCounts : \E i \in 0 .. window_slots * n - 1 :
            v = [start |-> Base + i * ViewBytes, len |-> ViewBytes] /\ window_slots # None
      BY DEF HeapInv, WeightsInv
    <3>2. PICK i \in 0 .. window_slots * n - 1 :
            v = [start |-> Base + i * ViewBytes, len |-> ViewBytes] /\ window_slots # None
      BY <3>1
    <3>3. window_slots * n \in Nat
      BY <2>1, Sizes, Products
    <3>4. i \in Nat
      BY <3>3
    <3> QED
      BY <3>2, <3>4
  <2>3. ASSUME NEW v \in weights, NEW w \in weights, v # w PROVE Disjoint(v, w)
    <3>1. PICK i \in Nat : v = [start |-> Base + i * ViewBytes, len |-> ViewBytes]
      BY <2>2
    <3>2. PICK j \in Nat : w = [start |-> Base + j * ViewBytes, len |-> ViewBytes]
      BY <2>2
    <3> QED
      BY <2>3, <3>1, <3>2, WeightViewsApart
  <2>4. ASSUME NEW v \in weights, NEW w \in slots PROVE Disjoint(v, w)
    <3>1. PICK n \in GroupCounts : \E i \in 0 .. window_slots * n - 1 :
             /\ v = [start |-> Base + i * ViewBytes, len |-> ViewBytes]
             /\ i \in Nat /\ window_slots # None
      BY <2>2
    <3>2. PICK i \in 0 .. window_slots * n - 1 :
             /\ v = [start |-> Base + i * ViewBytes, len |-> ViewBytes]
             /\ i \in Nat /\ window_slots # None
      BY <3>1
    <3>3. PICK m \in GroupCounts : \E g \in 0 .. m - 1 : \E e \in ElemBytes :
            w = [start |-> GradOff(g, m, OrOne(window_slots), e), len |-> Rows * e,
                 group |-> g, groups |-> m, elem |-> e]
      BY DEF HeapInv, SlotsInv
    <3>4. PICK g \in 0 .. m - 1, e \in ElemBytes :
            w = [start |-> GradOff(g, m, OrOne(window_slots), e), len |-> Rows * e,
                 group |-> g, groups |-> m, elem |-> e]
      BY <3>3
    <3>5. m = n /\ OrOne(window_slots) = window_slots
      BY <3>2 DEF OneLayout, OrOne
    <3>6. n \in Nat \ {0}
      BY Sizes
    <3>7. /\ ReduceStgOff(n, window_slots) = Base + (window_slots * n) * ViewBytes
          /\ window_slots * n \in Nat
      BY <2>1, <3>6, BaseOfSlots
    <3>8. i * ViewBytes + ViewBytes <= (window_slots * n) * ViewBytes
      BY <3>2, <3>7, Sizes, Grows
    <3>9. w.start \in Nat /\ ReduceStgOff(n, window_slots) <= w.start
      BY <2>1, <3>4, <3>5, <3>6, SlotInside
    <3>10. i * ViewBytes \in Nat /\ (window_slots * n) * ViewBytes \in Nat
      BY <3>2, <3>7, Sizes, Products
    <3>11. v.start + v.len <= w.start
      BY <3>2, <3>7, <3>8, <3>9, <3>10, Sizes
    <3> QED
      BY <3>11 DEF Disjoint
  <2> QED
    BY <2>3, <2>4 DEF ViewsApart
<1> QED
  BY <1>1, HeapInvariant, PTL

(* And all views end inside the heap: each call's check is enough, although  *)
(* it sees only its own part of the layout.                                  *)
THEOREM ViewsFit == ASSUME OneLayout PROVE HeapSpec => []ViewsInHeap
<1>1. HeapInv => ViewsInHeap
  <2> SUFFICES ASSUME HeapInv PROVE ViewsInHeap
    OBVIOUS
  <2>1. window_slots \in Nat /\ OrOne(window_slots) \in Nat
    BY Sizes DEF HeapInv, None, OrOne
  <2>2. ASSUME NEW v \in weights PROVE v.start + v.len <= HeapSize
    <3>1. PICK n \in GroupCounts : \E i \in 0 .. window_slots * n - 1 :
             /\ v = [start |-> Base + i * ViewBytes, len |-> ViewBytes]
             /\ ReduceStgOff(n, window_slots) <= HeapSize
      BY DEF HeapInv, WeightsInv
    <3>2. PICK i \in 0 .. window_slots * n - 1 :
             /\ v = [start |-> Base + i * ViewBytes, len |-> ViewBytes]
             /\ ReduceStgOff(n, window_slots) <= HeapSize
      BY <3>1
    <3>3. /\ ReduceStgOff(n, window_slots) = Base + (window_slots * n) * ViewBytes
          /\ window_slots * n \in Nat
      BY <2>1, Sizes, BaseOfSlots
    <3>4. i \in Nat /\ i < window_slots * n
      BY <3>3
    <3>5. i * ViewBytes + ViewBytes <= (window_slots * n) * ViewBytes
      BY <3>3, <3>4, Sizes, Grows
    <3>6. i * ViewBytes \in Nat /\ (window_slots * n) * ViewBytes \in Nat
      BY <3>3, <3>4, Sizes, Products
    <3> QED
      BY <3>2, <3>3, <3>5, <3>6, Sizes
  <2>3. ASSUME NEW v \in slots PROVE v.start + v.len <= HeapSize
    <3>1. PICK m \in GroupCounts : \E g \in 0 .. m - 1 : \E e \in ElemBytes :
            /\ v = [start |-> GradOff(g, m, OrOne(window_slots), e), len |-> Rows * e,
                    group |-> g, groups |-> m, elem |-> e]
            /\ Need(m, OrOne(window_slots), e) <= HeapSize
      BY DEF HeapInv, SlotsInv
    <3>2. PICK g \in 0 .. m - 1, e \in ElemBytes :
            /\ v = [start |-> GradOff(g, m, OrOne(window_slots), e), len |-> Rows * e,
                    group |-> g, groups |-> m, elem |-> e]
            /\ Need(m, OrOne(window_slots), e) <= HeapSize
      BY <3>1
    <3>3. /\ GradOff(g, m, OrOne(window_slots), e) \in Nat /\ Rows * e \in Nat
          /\ GradOff(g, m, OrOne(window_slots), e) + Rows * e
                <= Need(m, OrOne(window_slots), e)
      BY <2>1, Sizes, SlotInside
    <3>4. Need(m, OrOne(window_slots), e) \in Int
      BY <2>1, <3>2, NeedIsNumber
    <3> QED
      BY <3>2, <3>3, <3>4, Sizes
  <2> QED
    BY <2>2, <2>3 DEF ViewsInHeap
<1> QED
  BY <1>1, HeapInvariant, PTL

(* reduce_grad reads the slots the caller has written to, with the number of *)
(* slots it looks up itself.                                                 *)
THEOREM ReduceFindsSlots == ASSUME OneLayout PROVE HeapSpec => []ReadsWhatWasWritten
<1>1. HeapInv => ReadsWhatWasWritten
  BY DEF HeapInv
<1> QED
  BY <1>1, HeapInvariant, PTL
=============================================================================
