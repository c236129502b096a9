--------------------------- MODULE MoonepRelocate --------------------------
(***************************************************************************)
(* The binary search of _relocate (moonep_plan.py): the first of the R      *)
(* segments of an expert that ends behind a place.  The loop has no exit:  *)
(* it is unrolled R.bit_length() times, and goes on reading ord_end after  *)
(* the answer is found.                                                    *)
(***************************************************************************)
EXTENDS Integers

CONSTANTS NumRanks,     \* R: segments in a row of ord_end
          Steps,        \* iterations of the unrolled loop, R.bit_length()
          Pow,          \* Pow[k] is 2 to the power of k
          ExpertRows    \* bound: rows of the expert

Segs == 0 .. NumRanks - 1

ASSUME NumRanksAssumption == NumRanks \in Nat \ {0}
ASSUME ExpertRowsAssumption == ExpertRows \in Nat
ASSUME PowAssumption == /\ Pow \in [0 .. Steps -> Nat]
                        /\ Pow[0] = 1
                        /\ \A k \in 0 .. Steps - 1 : Pow[k + 1] = 2 * Pow[k]
\* R.bit_length() bits are enough for R.
ASSUME StepsAssumption == Steps \in Nat /\ NumRanks < Pow[Steps]

VARIABLES
    end,    \* end[o]: where segment o ends, the row of ord_end
    pos,    \* the place looked for
    lo,     \* the segments before lo end at or before pos
    span,   \* the segments from lo + span on end behind pos
    iter    \* iterations begun

searchVars == <<end, pos, lo, span, iter>>

\* Some places are taken, so that the last segment ends behind pos.
SearchInit ==
    /\ end \in [Segs -> 0 .. ExpertRows]
    /\ \A o, p \in Segs : o <= p => end[o] <= end[p]
    /\ pos \in 0 .. ExpertRows - 1
    /\ pos < end[NumRanks - 1]
    /\ lo = 0
    /\ span = NumRanks
    /\ iter = 0

half == span \div 2

mid == lo + half

\* Mutant: the middle segment is kept in the upper half.
GoRightKeepMid ==
    /\ iter < Steps
    /\ ~(pos < end[mid])
    /\ lo' = mid
    /\ span' = span - half
    /\ iter' = iter + 1
    /\ UNCHANGED <<end, pos>>

GoLeft ==
    /\ iter < Steps
    /\ pos < end[mid]
    /\ span' = half
    /\ iter' = iter + 1
    /\ UNCHANGED <<end, pos, lo>>

GoRight ==
    /\ iter < Steps
    /\ ~(pos < end[mid])
    /\ lo' = mid + 1
    /\ span' = span - half - 1
    /\ iter' = iter + 1
    /\ UNCHANGED <<end, pos>>

Return ==
    /\ iter = Steps
    /\ UNCHANGED searchVars

SearchNext == GoLeft \/ GoRight \/ Return

SearchSpec == SearchInit /\ [][SearchNext]_searchVars

-----------------------------------------------------------------------------
(* The row holds segment ends, and the search never leaves 0 .. NumRanks.   *)
SearchTypeOK ==
    /\ end \in [Segs -> 0 .. ExpertRows]
    /\ pos \in 0 .. ExpertRows - 1
    /\ lo \in 0 .. NumRanks
    /\ span \in 0 .. NumRanks
    /\ iter \in 0 .. Steps

(* No iteration reads ord_end outside its row, not even those that run      *)
(* after the answer is found.                                               *)
InBounds == iter < Steps => mid \in Segs

(* After the last iteration lo is the first segment that ends behind pos.   *)
Found ==
    iter = Steps => /\ lo \in Segs
                 /\ pos < end[lo]
                 /\ \A o \in 0 .. lo - 1 : end[o] <= pos

-----------------------------------------------------------------------------
\* Why: the answer is in lo .. lo + span, and the iterations left are enough
\* to halve span to nothing.
SearchInv ==
    /\ SearchTypeOK
    /\ \A o, p \in Segs : o <= p => end[o] <= end[p]
    /\ pos < end[NumRanks - 1]
    /\ lo + span <= NumRanks
    /\ \A o \in 0 .. lo - 1 : end[o] <= pos
    /\ \A o \in lo + span .. NumRanks - 1 : pos < end[o]
    /\ span < Pow[Steps - iter]
=============================================================================
