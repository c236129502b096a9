---------------------------- MODULE MoonepGreedy ---------------------------
(***************************************************************************)
(* The greedy balancing of the plan kernel (_greedy_all and the warp        *)
(* helpers it calls, samples/mc2/moonep/moonep_plan.py).                    *)
(*                                                                         *)
(* Expert e lives on its home rank e \div Epn, which at first serves all    *)
(* rows routed to e.  Each of R rounds takes the most loaded rank as the    *)
(* source and, if it is above the common capacity, fills the least loaded   *)
(* rank from it, expert by expert, largest first; the receiving rank keeps  *)
(* the experts it takes over as replicas of that one source.  The 32 lanes  *)
(* of the warp act as one: their reductions are the minima and maxima here, *)
(* and every write is lane 0's, between two syncthreads.                    *)
(***************************************************************************)
EXTENDS Integers, Functions, FiniteSets

CONSTANTS NumRanks,     \* R: ranks of the group
          Epn,          \* experts per rank
          NumRows,      \* rows (tokens x top-k) of each rank
          Routings      \* bound: how many rows each expert gets, all ranks
                        \* together, in the routings considered

Ranks   == 0 .. NumRanks - 1
Experts == 0 .. NumRanks * Epn - 1

ASSUME NumRanksAssumption == NumRanks \in Nat \ {0}
ASSUME EpnAssumption == Epn \in Nat \ {0}
ASSUME NumRowsAssumption == NumRows \in Nat
ASSUME RoutingsAssumption ==
    \A t \in Routings : /\ t \in [Experts -> Nat]
                         /\ SumFunction(t) = NumRanks * NumRows

VARIABLES
    rem,     \* rem[e][r]: rows of expert e that rank r serves
    order,   \* order[e][r]: 0 r does not serve e, 1 home, n > 1 the n-1st replica
    loads,   \* loads[r]: rows on rank r
    rhome,   \* rhome[r]: the rank whose experts r replicates, or -1
    it,      \* rounds begun
    pc,      \* round, move or done
    src, dst,    \* the ranks of the round under way
    move, moved, \* rows still to move in it, and rows moved in it
    tries        \* experts looked at in it

vars == <<rem, order, loads, rhome, it, pc, src, dst, move, moved, tries>>
tables == <<rem, order, rhome>>

Unserved == 0           \* _ORDER_UNSERVED
Home == 1               \* _ORDER_HOME
FirstReplica == 2       \* _ORDER_FIRST_REPLICA

HomeOf(e) == e \div Epn
ExpertsOf(r) == {e \in Experts : HomeOf(e) = r}
MinOf(a, b) == IF a <= b THEN a ELSE b

\* The rows that expert e's replicas and home serve, and the rows on rank r.
RowsOf(e) == SumFunction(rem[e])
RowsOn(r) == SumFunction([e \in Experts |-> rem[e][r]])

Cap == SumFunction(loads) \div NumRanks

\* _warp_extreme_idx: an extreme of the loads, at the least index.
MostLoaded(r) == /\ \A q \in Ranks : loads[q] <= loads[r]
                 /\ \A q \in 0 .. r - 1 : loads[q] < loads[r]
LeastLoaded(r) == /\ \A q \in Ranks : loads[r] <= loads[q]
                  /\ \A q \in 0 .. r - 1 : loads[r] < loads[q]

\* _warp_max_rem_idx: the source's own expert with most rows left on the
\* source, at the least index; none if nothing is left.
Largest(e, s) ==
    /\ e \in ExpertsOf(s)
    /\ rem[e][s] > 0
    /\ \A f \in ExpertsOf(s) : rem[f][s] <= rem[e][s]
    /\ \A f \in ExpertsOf(s) : f < e => rem[f][s] < rem[e][s]

\* The state in which the rounds begin, for the totals t of the matrix.
InitFrom(t) ==
    /\ rem = [e \in Experts |->
                [r \in Ranks |-> IF r = HomeOf(e) THEN t[e] ELSE 0]]
    /\ order = [e \in Experts |->
                  [r \in Ranks |-> IF r = HomeOf(e) THEN Home ELSE Unserved]]
    /\ loads = [r \in Ranks |-> SumFunctionOnSet(t, ExpertsOf(r))]
    /\ rhome = [r \in Ranks |-> -1]
    /\ it = 0
    /\ pc = "round"
    /\ src = 0 /\ dst = 0
    /\ move = 0 /\ moved = 0
    /\ tries = 0

Init == \E t \in Routings : InitFrom(t)

-----------------------------------------------------------------------------
\* A round whose most loaded rank exceeds the capacity starts moving rows.
StartRound ==
    /\ pc = "round"
    /\ it < NumRanks
    /\ \E s, d \in Ranks :
          /\ MostLoaded(s) /\ loads[s] > Cap
          /\ LeastLoaded(d)
          /\ src' = s
          /\ dst' = d
          /\ move' = Cap - loads[d]
          /\ rhome' = [rhome EXCEPT ![d] = s]
    /\ moved' = 0
    /\ tries' = 0
    /\ pc' = "move"
    /\ UNCHANGED <<rem, order, loads, it>>

\* A round in which nobody is overloaded does nothing.
IdleRound ==
    /\ pc = "round"
    /\ it < NumRanks
    /\ \A r \in Ranks : loads[r] <= Cap
    /\ it' = it + 1
    /\ UNCHANGED <<rem, order, loads, rhome, pc, src, dst, move, moved, tries>>

\* Mutant: the segment number is the number of the segments there are.
NextOrderShared(e, d) ==
    IF order[e][d] = Unserved
    THEN Cardinality({r \in Ranks : order[e][r] > Unserved})
    ELSE order[e][d]

\* The segment number for a replica of e on rank d, if it has none yet.
NextOrder(e, d) ==
    IF order[e][d] = Unserved
    THEN Cardinality({r \in Ranks : order[e][r] > Unserved}) + 1
    ELSE order[e][d]

\* Rows of the source's largest expert go to the receiving rank.
MoveExpert ==
    /\ pc = "move"
    /\ tries < Epn
    /\ move > 0
    /\ \E e \in Experts :
          /\ Largest(e, src)
          /\ LET take == MinOf(rem[e][src], move)
             IN  /\ order' = [order EXCEPT ![e][dst] = NextOrder(e, dst)]
                 /\ rem' = [rem EXCEPT ![e][src] = @ - take, ![e][dst] = @ + take]
                 /\ move' = move - take
                 /\ moved' = moved + take
    /\ tries' = tries + 1
    /\ UNCHANGED <<loads, rhome, it, pc, src, dst>>

\* The loop runs to its end with nothing to move.
SkipExpert ==
    /\ pc = "move"
    /\ tries < Epn
    /\ move <= 0 \/ \A e \in ExpertsOf(src) : rem[e][src] <= 0
    /\ tries' = tries + 1
    /\ UNCHANGED <<rem, order, loads, rhome, it, pc, src, dst, move, moved>>

\* Mutants: the round is booked on one of its two sides only.
EndRoundNoDebit ==
    /\ pc = "move"
    /\ tries = Epn
    /\ loads' = [loads EXCEPT ![dst] = Cap]
    /\ it' = it + 1
    /\ pc' = "round"
    /\ UNCHANGED <<rem, order, rhome, src, dst, move, moved, tries>>

EndRoundNoCredit ==
    /\ pc = "move"
    /\ tries = Epn
    /\ loads' = [loads EXCEPT ![src] = @ - moved]
    /\ it' = it + 1
    /\ pc' = "round"
    /\ UNCHANGED <<rem, order, rhome, src, dst, move, moved, tries>>

\* Lane 0 books the round.
EndRound ==
    /\ pc = "move"
    /\ tries = Epn
    /\ loads' = [[loads EXCEPT ![src] = @ - moved] EXCEPT ![dst] = Cap]
    /\ it' = it + 1
    /\ pc' = "round"
    /\ UNCHANGED <<rem, order, rhome, src, dst, move, moved, tries>>

\* Mutant: two rounds less.
FinishEarly ==
    /\ pc = "round"
    /\ it = NumRanks - 2
    /\ pc' = "done"
    /\ UNCHANGED <<rem, order, loads, rhome, it, src, dst, move, moved, tries>>

Finish ==
    /\ pc = "round"
    /\ it = NumRanks
    /\ pc' = "done"
    /\ UNCHANGED <<rem, order, loads, rhome, it, src, dst, move, moved, tries>>

Stopped ==
    /\ pc = "done"
    /\ UNCHANGED vars

Next == \/ StartRound \/ IdleRound \/ MoveExpert \/ SkipExpert \/ EndRound
        \/ Finish \/ Stopped

Spec == Init /\ [][Next]_vars

-----------------------------------------------------------------------------
(* Every variable has the type its comment gives.                           *)
TypeOK ==
    /\ rem \in [Experts -> [Ranks -> Nat]]
    /\ order \in [Experts -> [Ranks -> Nat]]
    /\ loads \in [Ranks -> Nat]
    /\ rhome \in [Ranks -> Ranks \cup {-1}]
    /\ it \in 0..NumRanks
    /\ pc \in {"round", "move", "done"}
    /\ src \in Ranks /\ dst \in Ranks
    /\ move \in Int /\ moved \in Nat
    /\ tries \in 0..Epn

(* The bookkeeping is honest: between rounds loads is the number of rows    *)
(* each rank really serves.  EndRound sets the receiver to the capacity and *)
(* never counts, so this holds only because the moves always reach it.      *)
LoadsAreRows == pc # "move" => \A r \in Ranks : loads[r] = RowsOn(r)

(* R rounds are enough: in the end every rank serves exactly as many rows   *)
(* as it brought in, whatever the routing.                                  *)
Balanced == pc = "done" => \A r \in Ranks : RowsOn(r) = NumRows

(* No rank replicates experts of two sources: rhome is never overwritten,   *)
(* so the Epn replica slots of a rank always suffice and the row counts of  *)
(* all its replicas are found through rhome.                                *)
OneSourcePerReceiver ==
    \A r \in Ranks, e \in Experts :
        order[e][r] >= FirstReplica => HomeOf(e) = rhome[r]

(* The segments of an expert are numbered 1 .. n without gaps or            *)
(* duplicates, the home first; the tables of the next phase index by it.    *)
SegmentsNumbered ==
    \A e \in Experts :
        LET serving == {r \in Ranks : order[e][r] # Unserved}
        IN  /\ order[e][HomeOf(e)] = Home
            /\ {order[e][r] : r \in serving} = 1 .. Cardinality(serving)
            /\ \A r \in Ranks : rem[e][r] > 0 => r \in serving
=============================================================================
