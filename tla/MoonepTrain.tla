---------------------------- MODULE MoonepTrain ----------------------------
(***************************************************************************)
(* The training step around the plan: prefetch_weight.py and reduce_grad.py *)
(* of samples/mc2/moonep, on the streams of all the ranks of a group.      *)
(*                                                                         *)
(* A plan lets rank c work for experts of one home rank.  prefetch_weight   *)
(* on the home pushes the weights into a slot of c's window; c uses them,   *)
(* leaves the gradient in its own gradient slot, and reduce_grad on the     *)
(* home pulls it from there.  Both areas are reused by every step: the      *)
(* windows in rotation (prog.slots), the gradient slot at once.  All        *)
(* that keeps a fast rank off the slot of a slow one is where the operators *)
(* call sym_barrier, so the model keeps the order of kernels on each stream *)
(* and, of the data, only the step it belongs to.  The barrier is the       *)
(* abstract one, which MoonepBarrier implements; the kernels flush before   *)
(* they end, so a put has landed when its kernel is over.                   *)
(***************************************************************************)
EXTENDS Integers, Sequences

CONSTANTS NumRanks,     \* ranks of the group, 0 .. NumRanks-1
          MaxSteps,     \* bound: steps of a program
          MaxLoop,      \* bound: kernels in a step
          Programs      \* the programs of the callers: the kernels of a step,
                        \* the slots of the weight window, the steps, and the
                        \* plans; a plan h lends c experts of home h[c]

Ranks == 0 .. NumRanks - 1
None == -1

Kernels == {"push", "barrier", "use", "grad", "pull"}

ASSUME NumRanksAssumption == NumRanks \in Nat \ {0}
ASSUME MaxStepsAssumption == MaxSteps \in Nat \ {0}
ASSUME MaxLoopAssumption == MaxLoop \in Nat

\* A row of etc names experts of at most one home, and none of its own rank.
IsPlan(h) == /\ h \in [Ranks -> Ranks \cup {None}]
             /\ \A c \in Ranks : h[c] # c

ASSUME ProgramsAssumption ==
    \A p \in Programs :
        /\ p.kernels \in Seq(Kernels) /\ Len(p.kernels) \in 1..MaxLoop
        /\ p.slots \in Nat \ {0}
        /\ p.steps \in 1..MaxSteps
        /\ \A h \in p.plans : IsPlan(h)

VARIABLES
    prog,    \* the program, the same on all ranks
    etc,     \* etc[n][c]: home of the experts c is lent in step n, or None
    step,    \* step[r]: the step r's stream is in
    pos,     \* pos[r]: and the kernel of that step
    served,  \* served[r]: the ranks that kernel has pushed to or pulled from
    at,      \* at[r]: the last barrier r's stream has reached
    inside,  \* inside[r]: and not left
    window,  \* window[c][s]: step whose weights are in slot s of c's window
    grads    \* grads[c]: step whose gradient is in c's gradient slot

vars == <<prog, etc, step, pos, served, at, inside, window, grads>>

\* No program has more barriers than kernels.
MaxBarriers == MaxSteps * MaxLoop

Barrier == INSTANCE RankBarrier
             WITH Groups <- {"ep"},
                  Members <- [g \in {"ep"} |-> Ranks],
                  MaxRounds <- MaxBarriers,
                  script <- [k \in 1..MaxBarriers |-> "ep"]

-----------------------------------------------------------------------------
\* Mutant: the two modes are confused.
FinishOpInverted(async_finish) == IF async_finish THEN <<"barrier">> ELSE << >>

\* finish_op: what it leaves on the stream.
FinishOp(async_finish) == IF async_finish THEN << >> ELSE <<"barrier">>

PrefetchWeight(async_finish) == <<"push">> \o FinishOp(async_finish)

\* Mutant: no barrier before the pull.
ReduceGradUnaligned(barrier) == <<"pull">> \o FinishOp(barrier)

\* reduce_grad hands its argument barrier on as finish_op's async_finish.
ReduceGrad(barrier) == <<"barrier", "pull">> \o FinishOp(barrier)

\* The caller's rotation through the views of create_weight_view.
SlotOf(n) == n % prog.slots

\* _scan_peer: the ranks whose row of etc names an expert of r.
Consumers(n, r) == {c \in Ranks : etc[n][c] = r}

Kernel(r) == prog.kernels[pos[r]]
Running(r, k) == step[r] <= prog.steps /\ Kernel(r) = k

Init ==
    /\ prog \in Programs
    /\ etc \in [1..prog.steps -> prog.plans]
    /\ step = [r \in Ranks |-> 1]
    /\ pos = [r \in Ranks |-> 1]
    /\ served = [r \in Ranks |-> {}]
    /\ at = [r \in Ranks |-> 0]
    /\ inside = [r \in Ranks |-> FALSE]
    /\ window = [c \in Ranks |-> [s \in 0 .. prog.slots - 1 |-> 0]]
    /\ grads = [c \in Ranks |-> 0]

-----------------------------------------------------------------------------
\* The stream of r goes on with the next kernel.
Advance(r) ==
    /\ IF pos[r] < Len(prog.kernels)
         THEN /\ pos' = [pos EXCEPT ![r] = @ + 1]
              /\ step' = step
         ELSE /\ pos' = [pos EXCEPT ![r] = 1]
              /\ step' = [step EXCEPT ![r] = @ + 1]
    /\ served' = [served EXCEPT ![r] = {}]

\* The push kernel of home r has put and flushed the rows of one consumer.
PushRows(r) ==
    /\ Running(r, "push")
    /\ \E c \in Consumers(step[r], r) \ served[r] :
          /\ window' = [window EXCEPT ![c][SlotOf(step[r])] = step[r]]
          /\ served' = [served EXCEPT ![r] = @ \cup {c}]
    /\ UNCHANGED <<prog, etc, step, pos, at, inside, grads>>

PushDone(r) ==
    /\ Running(r, "push")
    /\ served[r] = Consumers(step[r], r)
    /\ Advance(r)
    /\ UNCHANGED <<prog, etc, at, inside, window, grads>>

\* sym_barrier.
ReachBarrier(r) ==
    /\ Running(r, "barrier")
    /\ Barrier!Arrive(r)
    /\ UNCHANGED <<prog, etc, step, pos, served, window, grads>>

LeaveBarrier(r) ==
    /\ Running(r, "barrier")
    /\ Barrier!Leave(r)
    /\ Advance(r)
    /\ UNCHANGED <<prog, etc, window, grads>>

\* The caller's grouped GEMM has read the weights, home rows and slot.
UseDone(r) ==
    /\ Running(r, "use")
    /\ Advance(r)
    /\ UNCHANGED <<prog, etc, at, inside, window, grads>>

\* The caller's backward pass has left the gradient in the slot.
GradDone(r) ==
    /\ Running(r, "grad")
    /\ grads' = [grads EXCEPT ![r] = step[r]]
    /\ Advance(r)
    /\ UNCHANGED <<prog, etc, at, inside, window>>

\* The pull kernel of home r has read one consumer's rows and added them.
PullRows(r) ==
    /\ Running(r, "pull")
    /\ \E c \in Consumers(step[r], r) \ served[r] :
          served' = [served EXCEPT ![r] = @ \cup {c}]
    /\ UNCHANGED <<prog, etc, step, pos, at, inside, window, grads>>

PullDone(r) ==
    /\ Running(r, "pull")
    /\ served[r] = Consumers(step[r], r)
    /\ Advance(r)
    /\ UNCHANGED <<prog, etc, at, inside, window, grads>>

Finished ==
    /\ \A r \in Ranks : step[r] > prog.steps
    /\ UNCHANGED vars

Next == \/ \E r \in Ranks : \/ PushRows(r) \/ PushDone(r)
                            \/ ReachBarrier(r) \/ LeaveBarrier(r)
                            \/ UseDone(r) \/ GradDone(r)
                            \/ PullRows(r) \/ PullDone(r)
        \/ Finished

Spec == Init /\ [][Next]_vars

-----------------------------------------------------------------------------
(* For as long as a rank uses the weights it was lent for a step, its slot  *)
(* holds the weights of that step: they have all arrived before the first   *)
(* read, and no rank that is ahead has pushed the next ones over them.      *)
WeightsHeld ==
    \A c \in Ranks :
        Running(c, "use") /\ etc[step[c]][c] # None
            => window[c][SlotOf(step[c])] = step[c]

(* For as long as a home rank still has to pull a consumer's gradient of a  *)
(* step, the consumer's slot holds the gradient of that step: it has been   *)
(* written, and the consumer has not gone on to the next one over it.       *)
GradientsHeld ==
    \A r \in Ranks :
        Running(r, "pull")
            => \A c \in Consumers(step[r], r) \ served[r] :
                  grads[c] = step[r]
=============================================================================
