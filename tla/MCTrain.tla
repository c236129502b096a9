------------------------------ MODULE MCTrain ------------------------------
(* Small instances of MoonepTrain.  The programs are those of the tests,    *)
(* benchmarks and docs in the repository.                                   *)
EXTENDS MoonepTrain

\* All plans, and those that lend every rank an expert.
MCPlans == {h \in [Ranks -> Ranks \cup {None}] : IsPlan(h)}
MCFullPlans == {h \in MCPlans : \A c \in Ranks : h[c] # None}

MCProgram(kernels, slots, steps, plans) ==
    [kernels |-> kernels, slots |-> slots, steps |-> steps, plans |-> plans]

\* test_moonep_mem.py: a training step, with reduce_grad's default.
TrainLoop == PrefetchWeight(FALSE) \o <<"use", "grad">> \o ReduceGrad(TRUE)

\* The same with the async prefetch, joined by a sym_barrier of the caller.
AsyncTrainLoop == PrefetchWeight(TRUE) \o <<"barrier", "use", "grad">>
                    \o ReduceGrad(TRUE)

\* Several backward layers in a row, reduce_grad closed by its barrier.
ClosedReduceLoop == <<"grad">> \o ReduceGrad(FALSE)

\* Several forward layers in a row: these need a window of two slots.
LayerLoop == PrefetchWeight(FALSE) \o <<"use">>

MCPrograms == { MCProgram(TrainLoop, 1, 2, MCPlans),
                MCProgram(AsyncTrainLoop, 1, 2, MCPlans),
                MCProgram(ClosedReduceLoop, 1, 2, MCPlans),
                MCProgram(LayerLoop, 2, 3, MCFullPlans) }

\* test_moonep_ep.py: two calls of reduce_grad in a row.
MCReducePrograms == {MCProgram(<<"grad">> \o ReduceGrad(TRUE), 1, 2, MCPlans)}
=============================================================================
