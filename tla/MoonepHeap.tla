----------------------------- MODULE MoonepHeap ----------------------------
(***************************************************************************)
(* The layout of a rank's symmetric heap (moonep_context.py) and the calls  *)
(* that carve views out of it: create_weight_view (prefetch_weight.py),     *)
(* create_grad_slot_view and the source address of reduce_grad              *)
(* (reduce_grad.py).                                                       *)
(*                                                                         *)
(* After the plan's exchange area come the weight views, slots x groups of  *)
(* them, and right behind them the gradient slots.  So the base of the      *)
(* gradient slots depends on the numbers of slots and groups, and every     *)
(* call computes it anew from its arguments and from what the context      *)
(* remembers.  Addresses count from the heap base.  A call that raises is   *)
(* modelled by what it has assigned until then.                            *)
(***************************************************************************)
EXTENDS Integers

CONSTANTS Base,           \* PLAN_REGION_END
          Rows,           \* epn * w_elems: elements of one [epn, W] block
          LayoutTail,     \* LAYOUT_TAIL_BYTES
          HeapSize,       \* bytes of the HCCL buffer above the heap base
          GroupCounts,    \* values the caller uses for groups
          SlotCounts,     \* values the caller uses for slots
          GradSlotArgs,   \* the same for create_grad_slot_view; 0 is None
          ElemBytes,      \* bytes of a gradient element: 2 (bf16), 4 (fp32)
          WeightsFirst    \* the first weight view precedes all gradient slots

None == 0

ASSUME BaseAssumption == {Base, LayoutTail, HeapSize} \subseteq Nat
ASSUME RowsAssumption == Rows \in Nat \ {0}
ASSUME CountsAssumption ==
    /\ GroupCounts \subseteq Nat \ {0} /\ SlotCounts \subseteq Nat \ {0}
    /\ GradSlotArgs \subseteq Nat
ASSUME ElemAssumption == ElemBytes \subseteq {2, 4}
ASSUME WeightsFirstAssumption == WeightsFirst \in BOOLEAN

VARIABLES
    window_slots,     \* context.window_slots, or None
    layout_groups,    \* context.layout_groups, or None
    pull_slots_used,  \* context.pull_slots_used, or None
    weights,          \* the weight views the caller holds
    slots,            \* the gradient slot views the caller holds
    sources           \* what the last reduce_grad has read from

heapVars ==
    <<window_slots, layout_groups, pull_slots_used, weights, slots, sources>>

\* Mutant: the step between groups is half a view.
ReduceStgOffHalf(gs, ss) == Base + ss * gs * Rows * 2

\* reduce_stg_off and grad_slot_off: a weight view is 2*epn rows of bf16.
ReduceStgOff(gs, ss) == Base + ss * gs * 2 * Rows * 2

\* create_weight_view: the address of the view of group g in slot s.
WeightOff(g, gs, s) == Base + (s * gs + g) * (2 * Rows * 2)

\* The address of the gradient slot of group g.
GradOff(g, gs, ss, eb) == ReduceStgOff(gs, ss) + g * Rows * eb

OrOne(x) == IF x = None THEN 1 ELSE x

HeapInit ==
    /\ window_slots = None
    /\ layout_groups = None
    /\ pull_slots_used = None
    /\ weights = {}
    /\ slots = {}
    /\ sources = {}

-----------------------------------------------------------------------------
\* create_weight_view, as the group g of gs and the slot s of ss.
CreateWeightView(g, gs, s, ss) ==
    /\ WeightsFirst /\ slots # {} => window_slots # None
    /\ window_slots \in {None, ss}
    /\ window_slots' = ss
    /\ \/ /\ layout_groups \notin {None, gs}
          /\ UNCHANGED <<layout_groups, weights>>
       \/ /\ layout_groups \in {None, gs}
          /\ layout_groups' = gs
          /\ IF ReduceStgOff(gs, ss) > HeapSize
               THEN UNCHANGED weights
               ELSE weights' = weights \cup
                      {[start |-> WeightOff(g, gs, s), len |-> 2 * Rows * 2]}
    /\ UNCHANGED <<pull_slots_used, slots, sources>>

\* Mutant: the end of the last group is not counted.
NeedShort(gs, ss, eb) == ReduceStgOff(gs, ss) + (gs - 1) * Rows * eb

\* The bytes create_grad_slot_view asks for.
Need(gs, ss, eb) == ReduceStgOff(gs, ss) + gs * Rows * eb + LayoutTail

\* create_grad_slot_view, for the group g of gs.
CreateGradSlotView(g, gs, arg, eb) ==
    LET ss == IF arg = None THEN OrOne(window_slots) ELSE arg
    IN  /\ pull_slots_used \in {None, ss}
        /\ pull_slots_used' = ss
        /\ IF Need(gs, ss, eb) > HeapSize
             THEN UNCHANGED slots
             ELSE slots' = slots \cup
                    {[start |-> GradOff(g, gs, ss, eb), len |-> Rows * eb,
                      group |-> g, groups |-> gs, elem |-> eb]}
        /\ UNCHANGED <<window_slots, layout_groups, weights, sources>>

Holds(g, gs, eb) == \E v \in slots : v.group = g /\ v.groups = gs /\ v.elem = eb

\* Mutant: reduce_grad assumes a window of one slot.
ReduceSlotsOne == 1

\* The number of slots reduce_grad computes its source from.
ReduceSlots == OrOne(window_slots)

\* reduce_grad, by a caller that holds a slot view for each of its groups.
ReduceGradSources(gs, eb) ==
    /\ \A g \in 0 .. gs - 1 : Holds(g, gs, eb)
    /\ layout_groups \in {None, gs}
    /\ layout_groups' = gs
    /\ sources' = {[start |-> GradOff(g, gs, ReduceSlots, eb), len |-> Rows * eb,
                    group |-> g, groups |-> gs, elem |-> eb] :
                      g \in 0 .. gs - 1}
    /\ UNCHANGED <<window_slots, pull_slots_used, weights, slots>>

HeapNext ==
    \E gs \in GroupCounts :
       \/ \E g \in 0 .. gs - 1 :
             \/ \E ss \in SlotCounts : \E s \in 0 .. ss - 1 :
                   CreateWeightView(g, gs, s, ss)
             \/ \E arg \in GradSlotArgs : \E eb \in ElemBytes :
                   CreateGradSlotView(g, gs, arg, eb)
       \/ \E eb \in ElemBytes : ReduceGradSources(gs, eb)

HeapSpec == HeapInit /\ [][HeapNext]_heapVars

-----------------------------------------------------------------------------
Disjoint(v, w) == v.start + v.len <= w.start \/ w.start + w.len <= v.start

(* No view of the weights shares a byte with another one or with a gradient *)
(* slot, whatever order the views were created in: the backward pass writes *)
(* its gradients while the weights are still read.                          *)
ViewsApart ==
    /\ \A v, w \in weights : v = w \/ Disjoint(v, w)
    /\ \A v \in weights, w \in slots : Disjoint(v, w)

(* All views end inside the heap.                                           *)
ViewsInHeap == \A v \in weights \cup slots : v.start + v.len <= HeapSize

(* reduce_grad reads the very slots the caller holds and has written to.    *)
ReadsWhatWasWritten == sources \subseteq slots

-----------------------------------------------------------------------------
(* Why the views are apart when the caller keeps to one layout: the base of *)
(* the gradient slots is then the same in all calls, and the weights end    *)
(* before it.                                                              *)

OneLayout ==
    /\ WeightsFirst /\ GradSlotArgs = {None}
    /\ \A m, n \in GroupCounts : m = n

\* Bytes of a weight view.
ViewBytes == 2 * Rows * 2

\* The weight views lie side by side below the gradient slots.
WeightsInv ==
    \A v \in weights : \E gs \in GroupCounts : \E i \in 0 .. window_slots * gs - 1 :
        /\ v = [start |-> Base + i * ViewBytes, len |-> ViewBytes]
        /\ window_slots # None /\ ReduceStgOff(gs, window_slots) <= HeapSize

\* The gradient slots were laid out for the slots the window still has.
SlotsInv ==
    \A v \in slots : \E gs \in GroupCounts : \E g \in 0 .. gs - 1 : \E eb \in ElemBytes :
        /\ v = [start |-> GradOff(g, gs, OrOne(window_slots), eb), len |-> Rows * eb,
                group |-> g, groups |-> gs, elem |-> eb]
        /\ Need(gs, OrOne(window_slots), eb) <= HeapSize

HeapInv == /\ window_slots \in {None} \cup SlotCounts
           /\ WeightsInv /\ SlotsInv /\ ReadsWhatWasWritten
=============================================================================
